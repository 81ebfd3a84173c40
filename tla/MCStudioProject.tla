-------------------------- MODULE MCStudioProject --------------------------
(* A small instance of StudioProject: one project file of two plates, one   *)
(* mesh, the start-up cube and the untitled document.  The user makes at    *)
(* most MaxRequests requests; workers and results are not bounded.          *)
EXTENDS StudioProject, TLC

CONSTANTS P, S, t1, t2, MaxRequests

VARIABLE requests     \* requests made so far

MCProjects == {P}
MCMeshes   == {S}
MCTasks    == {t1, t2}
MCPlatesOf == [d \in {P, S, Cube, Untitled} |-> IF d = P THEN 2 ELSE 1]
MCPlain    == {P, S, Cube}
MCSymmetry == Permutations({t1, t2})

MCInit == Init /\ requests = 0
MCNext == \/ Background /\ UNCHANGED requests
          \/ Requests /\ requests < MaxRequests /\ requests' = requests + 1

MCSpec == MCInit /\ [][MCNext]_<<vars, requests>>
MCFairSpec == MCSpec /\ Fairness
=============================================================================
