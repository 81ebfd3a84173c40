---------------------------- MODULE MCDeviceMonitor ----------------------------
(* Two printers, and a part of the status that a report may lack.          *)
EXTENDS DeviceMonitor

=============================================================================
