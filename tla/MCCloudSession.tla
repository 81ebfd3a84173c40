--------------------------- MODULE MCCloudSession ---------------------------
(***************************************************************************)
(* A small instance of CloudSession: two accounts, two devices, two        *)
(* background threads.  The user makes at most MaxRequests requests, and   *)
(* at most MaxStreams camera streams end.                                  *)
(*                                                                         *)
(* `expected` is the session that atomic updates would have left on disk,  *)
(* each taking effect when its thread begins to save; `alone` holds as     *)
(* long as the threads have used the files one after the other, completely *)
(* and without a failed write.                                             *)
(***************************************************************************)
EXTENDS CloudSession, TLC

CONSTANTS A, B, d1, d2, w1, w2, MaxRequests, MaxStreams

VARIABLES requests, streams, expected, alone

MCAccounts == {A, B}
MCDevices  == {d1, d2}
MCWorkers  == {w1, w2}
MCStored   == {NoSession,
               [user |-> A, token |-> [acct |-> A, n |-> 0],
                refresh |-> [acct |-> A, n |-> 0], serial |-> d1]}
MCSymmetry == Permutations({w1, w2})

\* A thread holds a session from its first read to its last write.
Holds(q) == \/ q.phase = "load"
            \/ q.phase = "save" /\ q.at < 5
            \/ q.kind \in {"devices", "send"} /\ q.phase = "net"

\* What a save that begins now is meant to change.
Meant(old, new) ==
    CASE new.kind = "apply" -> [expected EXCEPT !.serial = serial]
      [] new.kind = "login" -> WithCreds(expected, new.api)
      [] OTHER -> IF new.api.token = (IF new.kind = "camera" THEN new.job.token
                                      ELSE old.api.token) THEN expected
                  ELSE WithCreds(expected, [new.api EXCEPT !.user = None])

Starts(p) == proc[p].phase # "save" /\ proc'[p].phase = "save"

\* A camera starts to save credentials that are not the stored ones.
CameraOutdated(p) ==
    /\ proc[p].kind = "camera"
    /\ proc[p].job.token # disk.token \/ proc[p].api.user # disk.user

Ghosts ==
    /\ expected' = IF \E p \in Procs : Starts(p)
                   THEN LET p == CHOOSE q \in Procs : Starts(q)
                        IN Meant(proc[p], proc'[p])
                   ELSE expected
    /\ alone' = /\ alone
                /\ \A p, q \in Procs :
                      Holds(proc'[p]) /\ Holds(proc'[q]) => p = q
                /\ ~\E p \in Procs : \/ SaveFails(p) /\ ~WriteFile(p)
                                     \/ Starts(p) /\ CameraOutdated(p)
                /\ Restart => \A p \in Procs : proc[p].phase # "save"

MCInit == Init /\ requests = 0 /\ streams = 0 /\ expected = disk /\ alone = TRUE
MCNext ==
    /\ \/ Background /\ UNCHANGED <<requests, streams>>
       \/ Requests /\ requests < MaxRequests /\ requests' = requests + 1
                   /\ UNCHANGED streams
       \/ Streams /\ streams < MaxStreams /\ streams' = streams + 1
                  /\ UNCHANGED requests
    /\ issued' + streams' <= MaxTokens
    /\ Ghosts

MCSpec == MCInit /\ [][MCNext]_<<vars, requests, streams, expected, alone>>

\* As long as no two threads have overlapped, no write has failed and no camera
\* has outlived its login, rewriting whole sessions amounts to updating the
\* meant fields only: nothing is lost, mixed or brought back.
SequentialUse ==
    alone /\ (\A p \in Procs : proc[p].phase # "save" \/ proc[p].at = 5)
        => disk = expected
=============================================================================
