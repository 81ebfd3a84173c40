---------------------------- MODULE MCCameraWorker ----------------------------
(* Three worker slots, one address with and one without a cloud camera.     *)
EXTENDS CameraWorker

===============================================================================
