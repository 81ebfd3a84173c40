------------------------- MODULE MCStudioSliceAll -------------------------
(* MCStudioProject with a history variable: the plates whose own shape was *)
(* handed to the slicer since slice-all was last started.                  *)
EXTENDS MCStudioProject

VARIABLE visited

Started == {job'[t].input : t \in {u \in Tasks : job'[u].kind = "slice"}}
Visit(old) == old \cup {s.plate : s \in Started \cap Shapes}

SAInit == MCInit /\ visited = {}
SANext ==
    /\ MCNext
    /\ \/ Slice /\ visited' = Visit({})
       \/ (\E t \in Tasks : Sliced(t)) /\ visited' = Visit(visited)
       \/ ~Slice /\ ~(\E t \in Tasks : Sliced(t)) /\ UNCHANGED visited

SASpec == SAInit /\ [][SANext]_<<vars, requests, visited>>

\* The test slice_all_visits_each_plate (elysian-ui/src/lib.rs:4778): when
\* slice-all over several plates comes to its end, each has been sliced.
SliceAllVisitsEachPlate ==
    [][slice_all_next # None /\ slice_all_next' = None
       /\ PlateCount(model) > 1
       /\ (\E t \in Tasks : Sliced(t))
         => 0 .. PlateCount(model) - 1 \subseteq visited]_vars
=============================================================================
