-------------------------- MODULE CameraWorker_proof --------------------------
(***************************************************************************)
(* Theorems about CameraWorker, for any number of worker threads, any      *)
(* addresses and any number of tokens, and about RtspReader, for any       *)
(* streams and any cut of them into reads.                                 *)
(***************************************************************************)
EXTENDS CameraWorker, RtspReader, FiniteSetTheorems, SequenceTheorems, WellFoundedInduction, TLAPS

\* No client holds a token older than that of its job, none is newer than the newest, and
\* who is subscribed to has a job.
Held ==
    /\ disk <= issued
    /\ cur # None => sub # NoJob
    /\ \A w \in Workers : Alive(w) => worker[w].token <= worker[w].api /\ worker[w].api <= issued

\* The strengthening that makes the invariants inductive.
Serving ==
    /\ TypeOK
    /\ cur = None => queue = <<>>
    /\ CurrentServes
    /\ Held

-----------------------------------------------------------------------------
(* Types                                                                     *)

\* Types of the parts that messages of the user and results may change.
UserOK ==
    /\ live \in BOOLEAN /\ place \in Places \cup {None} /\ versioned \in BOOLEAN
    /\ picture \in Places \cup {None} /\ shot \in Places \cup {None}
    /\ changes \in 0 .. MaxChanges

Queues == {q \in Seq({"frame", "error"}) : Len(q) <= Capacity}

\* What is left of a channel is a channel.
LEMMA TailQueue == ASSUME NEW q \in Queues, q # <<>> PROVE Tail(q) \in Queues
<1>1. q \in Seq({"frame", "error"}) /\ Len(q) <= Capacity
  BY DEF Queues
<1>2. Tail(q) \in Seq({"frame", "error"}) /\ Len(Tail(q)) = Len(q) - 1 /\ Len(q) \in Nat
  BY <1>1, HeadTailProperties, LenProperties
<1> QED
  BY <1>1, <1>2, CameraBounds DEF Queues

\* A message that is sent is added if there is room.
LEMMA EmitQueue ==
    ASSUME NEW w \in Workers, NEW msg \in {"frame", "error"}, queue \in Queues, Emit(w, msg)
    PROVE  queue' \in Queues
BY CameraBounds DEF Queues, Emit

LEMMA Start == Init => Serving
<1> SUFFICES ASSUME Init PROVE Serving
  OBVIOUS
<1>1. 0 \in Tokens /\ 0 \in 0 .. MaxChanges
  BY CameraBounds DEF Tokens
<1>2. Ended \in Thread
  BY <1>1 DEF Ended, Thread, Phases
<1>3. TypeOK
  <2>1. queue \in Seq({"frame", "error"}) /\ Len(queue) <= Capacity
    BY CameraBounds DEF Init
  <2>2. worker \in [Workers -> Thread]
    BY <1>2 DEF Init
  <2>3. cur \in Workers \cup {None} /\ sub \in Jobs \cup {NoJob}
    BY DEF Init
  <2> QED
    BY <1>1, <2>1, <2>2, <2>3 DEF Init, TypeOK
<1>4. \A w \in Workers : worker[w].phase = "ended"
  BY DEF Init, Ended
<1>5. CurrentServes /\ Held /\ queue = <<>>
  BY <1>1, <1>4 DEF Init, CurrentServes, Held, Alive
<1> QED
  BY <1>3, <1>5 DEF Serving

-----------------------------------------------------------------------------
(* The subscription                                                          *)

\* Resubscribing keeps the invariant, whatever the message that caused it.
LEMMA Subscribed ==
    ASSUME Serving, UserOK', NEW rest \in Queues, cur = None => rest = <<>>,
           Subscribe(rest), UNCHANGED tokens
    PROVE  Serving'
<1>1. /\ disk \in Tokens /\ issued \in Tokens /\ disk' = disk /\ issued' = issued
      /\ spent' = spent /\ expired' = expired
  BY DEF Serving, TypeOK, tokens
<1>2. CASE Wanted' = sub
  <2>1. UNCHANGED <<cur, sub, worker>> /\ queue' = rest
    BY <1>2 DEF Subscribe
  <2> QED
    BY <1>1, <2>1
    DEF Serving, TypeOK, UserOK, CurrentServes, Held, Alive, Queues
<1>3. CASE Wanted' # sub
  <2>1. sub' = Wanted' /\ queue' = <<>>
    BY <1>3 DEF Subscribe
  <2>2. sub' \in Jobs \cup {NoJob} /\ sub'.token \in Tokens
    BY <1>1, <2>1, NoneIsNone, CameraBounds
    DEF Wanted, CameraJob, Jobs, NoJob, UserOK, Tokens
  <2>3. sub' # NoJob => sub'.token = disk /\ sub'.place \in Places
    BY <1>1, <2>1, NoneIsNone DEF Wanted, CameraJob, UserOK
  <2>5. queue' \in Seq({"frame", "error"}) /\ Len(queue') <= Capacity
    BY <2>1, CameraBounds
  <2>6. CASE sub' = NoJob
    <3>1. cur' = None /\ worker' = worker
      BY <1>3, <2>6 DEF Subscribe
    <3> QED
      BY <1>1, <2>1, <2>2, <2>5, <3>1
      DEF Serving, TypeOK, UserOK, CurrentServes, Held, Alive
  <2>7. CASE sub' # NoJob
    <3> DEFINE new == [phase |-> "lan", place |-> sub'.place,
                       token |-> sub'.token, api |-> sub'.token]
    <3>1. /\ FreeSlots # {}
          /\ cur' = CHOOSE w \in FreeSlots : TRUE
          /\ worker' = [worker EXCEPT ![cur'] = new]
      BY <1>3, <2>7 DEF Subscribe
    <3>2. PICK c : c = cur'
      OBVIOUS
    <3>3. PICK k : k = new
      OBVIOUS
    <3>4. c \in Workers
      BY <3>1, <3>2 DEF FreeSlots
    <3>5. k \in Thread /\ k.phase = "lan" /\ k.token = disk
          /\ k.place = sub'.place /\ k.token = sub'.token /\ k.api = disk
      BY <2>2, <2>3, <2>7, <3>3 DEF Thread, Phases
    <3>6. worker \in [Workers -> Thread] /\ worker' = [worker EXCEPT ![c] = k]
      BY <3>1, <3>2, <3>3 DEF Serving, TypeOK
    <3>7. worker' \in [Workers -> Thread]
      BY <3>4, <3>5, <3>6
    <3>8. CurrentServes'
      BY <3>2, <3>4, <3>5, <3>6 DEF CurrentServes, Alive
    <3>9. Held'
      <4>1. \A w \in Workers : worker'[w] = IF w = c THEN k ELSE worker[w]
        BY <3>4, <3>6
      <4>2. disk <= disk /\ disk <= issued
        BY <1>1, CameraBounds DEF Serving, Held, Tokens
      <4> QED
        BY <1>1, <2>7, <3>5, <4>1, <4>2 DEF Serving, Held, Alive
    <3>10. cur' \in Workers \cup {None}
      BY <3>2, <3>4
    <3> QED
      BY <1>1, <2>1, <2>2, <2>5, <3>7, <3>8, <3>9, <3>10
      DEF Serving, TypeOK, UserOK
  <2> QED
    BY <2>6, <2>7
<1> QED
  BY <1>2, <1>3

\* The messages of the user, the results and the frames.
LEMMA MessageStep == Serving /\ (UserStep \/ Take) => Serving'
<1> SUFFICES ASSUME Serving, UserStep \/ Take PROVE Serving'
  OBVIOUS
<1>1. queue \in Queues /\ UserOK /\ (cur = None => queue = <<>>)
  BY DEF Serving, TypeOK, UserOK, Queues
<1>c. Change => changes' \in 0 .. MaxChanges /\ UNCHANGED tokens
  BY <1>1, CameraBounds DEF Change, UserOK
<1>2. ASSUME Play \/ Stop \/ Version \/ Chamber PROVE Serving'
  <2>1. UserOK' /\ UNCHANGED tokens
    <3>1. changes' \in 0 .. MaxChanges /\ UNCHANGED tokens
      BY <1>2, <1>c DEF Play, Stop, Version, Chamber
    <3> QED
      BY <1>1, <1>2, <3>1 DEF Play, Stop, Version, Chamber, UserOK, user, view
  <2>2. Subscribe(queue)
    BY <1>2 DEF Play, Stop, Version, Chamber, Resubscribe
  <2> QED
    BY <1>1, <2>1, <2>2, Subscribed
<1>3. ASSUME NEW p \in Places, Point(p) PROVE Serving'
  <2>1. UserOK' /\ UNCHANGED tokens
    BY <1>1, <1>3, <1>c DEF Point, UserOK, view
  <2>2. Subscribe(queue)
    BY <1>3 DEF Point, Resubscribe
  <2> QED
    BY <1>1, <2>1, <2>2, Subscribed
<1>4. ASSUME OtherMessage \/ ChamberDone PROVE Serving'
  <2>1. UserOK' /\ UNCHANGED tokens
    BY <1>1, <1>4
    DEF OtherMessage, ChamberDone, UserOK, user, view, ShowFrame, ShowError, ShowAddress
  <2>2. Subscribe(queue)
    BY <1>4 DEF OtherMessage, ChamberDone, Resubscribe
  <2> QED
    BY <1>1, <2>1, <2>2, Subscribed
<1>5. ASSUME Take PROVE Serving'
  <2>1. queue # <<>> /\ Subscribe(Tail(queue)) /\ UNCHANGED tokens
    BY <1>5 DEF Take, TakeFrame, TakeError
  <2>2. cur # None /\ cur \in Workers
    BY <1>1, <2>1 DEF Serving, TypeOK
  <2>3. worker[cur].place \in Places \cup {None}
    BY <2>2 DEF Serving, TypeOK, Thread
  <2>4. UserOK'
    BY <1>1, <1>5, <2>3 DEF Take, TakeFrame, TakeError, UserOK, user, ShowFrame, ShowError
  <2> QED
    BY <1>1, <2>1, <2>2, <2>4, TailQueue, Subscribed
<1> QED
  BY <1>2, <1>3, <1>4, <1>5 DEF UserStep

-----------------------------------------------------------------------------
(* The worker threads                                                        *)

\* A step of a worker changes its own record only: it goes on at the same job, or returns
\* because its channel is closed.
Moved(w) ==
    /\ \A u \in Workers : u # w => worker'[u] = worker[u]
    /\ \/ /\ worker'[w].phase \in Phases \ {"ended"}
          /\ worker'[w].place = worker[w].place /\ worker'[w].token = worker[w].token
       \/ ~Open(w) /\ worker'[w] = Ended

\* What the steps of a worker have in common.
Stepped(w) ==
    /\ AtHome /\ worker' \in [Workers -> Thread] /\ Moved(w)
    /\ queue' \in Queues /\ (cur = None => queue' = <<>>)

\* The thread goes to another phase, or returns when its channel is closed.
LEMMA Going ==
    ASSUME Serving, NEW w \in Workers, Alive(w), AtHome,
           queue' \in Queues, cur = None => queue' = <<>>
    PROVE  /\ \A ph \in Phases \ {"ended"} :
                 Goes(w, ph) => /\ Stepped(w) /\ worker'[w].phase = ph
                                /\ worker'[w].api = worker[w].token
           /\ ~Open(w) /\ Returns(w) => Stepped(w) /\ worker'[w] = Ended
<1>1. worker \in [Workers -> Thread] /\ worker[w] \in Thread
  BY DEF Serving, TypeOK
<1>2. Ended \in Thread
  BY CameraBounds DEF Ended, Thread, Phases, Tokens
<1>3. ASSUME NEW ph \in Phases \ {"ended"}, Goes(w, ph)
      PROVE  /\ Stepped(w) /\ worker'[w].phase = ph /\ worker'[w].api = worker[w].token
  <2> DEFINE k == [worker[w] EXCEPT !.phase = ph, !.api = worker[w].token]
  <2>1. worker' = [worker EXCEPT ![w] = k]
    BY <1>1, <1>3 DEF Goes, Thread
  <2>2. k \in Thread
    BY <1>1 DEF Thread
  <2>3. worker' \in [Workers -> Thread]
    BY <1>1, <2>1, <2>2
  <2>4. /\ worker'[w].phase = ph /\ worker'[w].place = worker[w].place
        /\ worker'[w].token = worker[w].token /\ worker'[w].api = worker[w].token
        /\ \A u \in Workers : u # w => worker'[u] = worker[u]
    BY <1>1, <2>1 DEF Thread
  <2> QED
    BY <2>3, <2>4 DEF Stepped, Moved
<1>4. ASSUME ~Open(w), Returns(w) PROVE Stepped(w) /\ worker'[w] = Ended
  BY <1>1, <1>2, <1>4 DEF Returns, Stepped, Moved
<1> QED
  BY <1>3, <1>4

\* A step that keeps the worker's record.
LEMMA Staying ==
    ASSUME Serving, NEW w \in Workers, Alive(w), AtHome, UNCHANGED worker,
           queue' \in Queues, cur = None => queue' = <<>>
    PROVE  Stepped(w)
<1>1. worker \in [Workers -> Thread] /\ worker[w].phase \in Phases
  BY DEF Serving, TypeOK, Thread
<1> QED
  BY <1>1 DEF Stepped, Moved, Alive

\* A step that leaves the tokens alone: the client has its token, or that of the job.
Plain(w) ==
    /\ UNCHANGED tokens
    /\ worker'[w].phase # "ended" => worker'[w].api \in {worker[w].token, worker[w].api}

\* A step that asks the cloud for the camera, and may exchange the token of the job.
Mints(w, t) ==
    /\ worker[w].phase = "mint"
    /\ JobToken(w, t) \/ Refresh(w, t)
    /\ worker'[w].phase # "mint" /\ disk' \in {disk, t} /\ expired' = expired
    /\ worker'[w].phase # "ended" => worker'[w].api \in {worker[w].token, t}

\* A step that ends a cloud stream and stores its token.
Persists(w) ==
    /\ worker[w].phase = "cloud" /\ worker'[w].phase # "cloud"
    /\ disk' = worker[w].api /\ UNCHANGED <<issued, expired, spent>>
    /\ worker'[w].phase # "ended" => worker'[w].api = worker[w].token

\* A message that is sent leaves a channel; without a subscription there is none.
LEMMA Sending ==
    ASSUME Serving, NEW w \in Workers, NEW msg \in {"frame", "error"}, Emit(w, msg)
    PROVE  queue' \in Queues /\ (cur = None => queue' = <<>>)
<1>1. queue \in Queues
  BY DEF Serving, TypeOK, Queues
<1>2. queue' \in Queues
  BY <1>1, EmitQueue
<1> QED
  BY <1>2, NoneIsNone DEF Serving, Emit, Open

\* What the error at the end of the LAN streams leads to.
LEMMA LanOver ==
    ASSUME Serving, NEW w \in Workers, Alive(w), Kept, AfterLan(w)
    PROVE  /\ Stepped(w) /\ worker'[w].phase \in {"mint", "pause", "ended"}
           /\ worker'[w].phase # "ended" => worker'[w].api = worker[w].token
<1>1. queue \in Queues /\ (cur = None => queue = <<>>) /\ AtHome
  BY DEF Serving, TypeOK, Queues, Kept
<1>2. {"mint", "pause"} \subseteq Phases \ {"ended"}
  BY DEF Phases
<1>3. CASE Goes(w, "mint") /\ UNCHANGED queue
  BY <1>1, <1>2, <1>3, Going
<1>4. CASE Emit(w, "error") /\ (Goes(w, "pause") \/ (~Open(w) /\ Returns(w)))
  <2>1. queue' \in Queues /\ (cur = None => queue' = <<>>)
    BY <1>4, Sending
  <2> QED
    BY <1>1, <1>2, <1>4, <2>1, Going DEF Ended
<1> QED
  BY <1>3, <1>4 DEF AfterLan

\* Every step of a worker is of one of the three kinds.
LEMMA Kinds ==
    ASSUME Serving, NEW w \in Workers, WorkerStep(w)
    PROVE  Stepped(w) /\ (Plain(w) \/ (\E t \in Tokens : Mints(w, t)) \/ Persists(w))
<1>1. queue \in Queues /\ (cur = None => queue = <<>>)
  BY DEF Serving, TypeOK, Queues
<1>2. {"lan", "jpeg", "rtsps", "mint", "cloud", "pause"} \subseteq Phases \ {"ended"}
  BY DEF Phases
<1>3. Alive(w) /\ AtHome
  BY DEF WorkerStep, Alive, Begin, JpegFrame, JpegUndecoded, JpegBroken, RtspsFrame,
         RtspsFails, Mint, MintFails, CloudFrame, CloudLeaves, CloudFails, Pause, Kept,
         Silent, CloudOver
<1>4. ASSUME Begin(w) \/ Pause(w) PROVE Stepped(w) /\ Plain(w)
  <2>1. \/ Goes(w, "jpeg") \/ Goes(w, "rtsps") \/ Goes(w, "mint") \/ Goes(w, "lan")
    BY <1>4 DEF Begin, Pause
  <2>2. UNCHANGED tokens /\ UNCHANGED queue
    BY <1>4 DEF Begin, Pause, Silent, Kept
  <2> QED
    BY <1>1, <1>2, <1>3, <2>1, <2>2, Going DEF Plain
<1>5. ASSUME JpegFrame(w) \/ RtspsFrame(w) PROVE Stepped(w) /\ Plain(w)
  <2>1. UNCHANGED tokens /\ Emit(w, "frame") /\ worker[w].phase # "cloud"
    BY <1>5 DEF JpegFrame, RtspsFrame, Kept
  <2>2. queue' \in Queues /\ (cur = None => queue' = <<>>)
    BY <2>1, Sending
  <2>3. CASE UNCHANGED worker
    BY <1>3, <2>1, <2>2, <2>3, Staying DEF Plain
  <2>4. CASE ~Open(w) /\ Returns(w)
    BY <1>3, <2>1, <2>2, <2>4, Going DEF Plain, Ended
  <2> QED
    BY <1>5, <2>3, <2>4 DEF JpegFrame, RtspsFrame
<1>6. ASSUME JpegUndecoded(w) PROVE Stepped(w) /\ Plain(w)
  <2>1. UNCHANGED tokens
    BY <1>6 DEF JpegUndecoded, Kept
  <2>2. CASE ~Open(w)
    BY <1>1, <1>3, <1>6, <2>1, <2>2, Going DEF JpegUndecoded, Plain, Ended
  <2>3. CASE Open(w)
    <3>1. cur # None
      BY <2>3, NoneIsNone DEF Open
    <3>2. CASE Emit(w, "error") /\ Goes(w, "mint")
      <4>1. queue' \in Queues
        BY <3>2, Sending
      <4> QED
        BY <1>2, <1>3, <2>1, <3>1, <3>2, <4>1, Going DEF Plain
    <3> DEFINE one == IF Len(queue) < Capacity THEN Append(queue, "error") ELSE queue
    <3>3. CASE /\ queue' = IF Len(one) < Capacity THEN Append(one, "error") ELSE one
               /\ Goes(w, "pause")
      <4>1. one \in Queues
        BY <1>1, CameraBounds DEF Queues
      <4>2. queue' \in Queues
        <5> HIDE DEF one
        <5> QED
          BY <3>3, <4>1, CameraBounds DEF Queues
      <4> QED
        BY <1>2, <1>3, <2>1, <3>1, <3>3, <4>2, Going DEF Plain
    <3> QED
      BY <1>6, <2>3, <3>2, <3>3 DEF JpegUndecoded
  <2> QED
    BY <2>2, <2>3
<1>7. ASSUME JpegBroken(w) \/ RtspsFails(w) PROVE Stepped(w) /\ Plain(w)
  <2>1. Kept /\ AfterLan(w) /\ UNCHANGED tokens
    BY <1>7 DEF JpegBroken, RtspsFails, Kept
  <2> QED
    BY <1>3, <2>1, LanOver DEF Plain
<1>8. ASSUME MintFails(w) PROVE Stepped(w) /\ \E t \in Tokens : Mints(w, t)
  <2>1. Emit(w, "error") /\ worker[w].phase = "mint" /\ expired' = expired
    BY <1>8 DEF MintFails
  <2>2. queue' \in Queues /\ (cur = None => queue' = <<>>)
    BY <2>1, Sending
  <2>3. PICK t \in Tokens : (JobToken(w, t) \/ Refresh(w, t)) /\ disk' = t
    BY <1>8 DEF MintFails, PersistRefreshed
  <2>4. CASE Goes(w, "pause")
    <3>1. Stepped(w) /\ worker'[w].phase = "pause" /\ worker'[w].api = worker[w].token
      BY <1>2, <1>3, <2>2, <2>4, Going
    <3>2. Mints(w, t)
      BY <2>1, <2>3, <3>1 DEF Mints
    <3> QED BY <3>1, <3>2
  <2>5. CASE ~Open(w) /\ Returns(w)
    <3>1. Stepped(w) /\ worker'[w].phase = "ended"
      BY <1>3, <2>2, <2>5, Going DEF Ended
    <3>2. Mints(w, t)
      BY <2>1, <2>3, <3>1 DEF Mints
    <3> QED BY <3>1, <3>2
  <2> QED
    BY <1>8, <2>4, <2>5 DEF MintFails
<1>9. ASSUME Mint(w) PROVE Stepped(w) /\ \E t \in Tokens : Mints(w, t)
  <2>1. worker \in [Workers -> Thread] /\ worker[w] \in Thread
    BY DEF Serving, TypeOK
  <2>2. PICK t \in Tokens :
           /\ JobToken(w, t) \/ Refresh(w, t)
           /\ worker' = [worker EXCEPT ![w].phase = "cloud", ![w].api = t]
    BY <1>9 DEF Mint
  <2>3. /\ worker[w].phase = "mint" /\ queue' = queue
        /\ disk' = disk /\ expired' = expired
    BY <1>9 DEF Mint
  <2> DEFINE k == [worker[w] EXCEPT !.phase = "cloud", !.api = t]
  <2>4. worker' = [worker EXCEPT ![w] = k]
    BY <2>1, <2>2 DEF Thread
  <2>5. k \in Thread
    BY <2>1, <1>2 DEF Thread
  <2>6. worker' \in [Workers -> Thread]
    BY <2>1, <2>4, <2>5
  <2>7. /\ worker'[w].phase = "cloud" /\ worker'[w].api = t
        /\ worker'[w].place = worker[w].place /\ worker'[w].token = worker[w].token
        /\ \A u \in Workers : u # w => worker'[u] = worker[u]
    BY <2>1, <2>4 DEF Thread
  <2>8. Stepped(w)
    BY <1>1, <1>2, <1>3, <2>3, <2>6, <2>7 DEF Stepped, Moved
  <2>9. Mints(w, t)
    BY <2>2, <2>3, <2>7 DEF Mints
  <2> QED
    BY <2>8, <2>9
<1>10. ASSUME CloudFrame(w) PROVE Stepped(w) /\ (Plain(w) \/ Persists(w))
  <2>1. CASE Open(w)
    <3>1. UNCHANGED worker /\ UNCHANGED tokens /\ Emit(w, "frame")
      BY <1>10, <2>1 DEF CloudFrame, Kept
    <3>2. queue' \in Queues /\ (cur = None => queue' = <<>>)
      BY <3>1, Sending
    <3> QED
      BY <1>3, <3>1, <3>2, Staying DEF Plain
  <2>2. CASE ~Open(w)
    <3>1. Goes(w, "pause") /\ UNCHANGED queue
      BY <1>10, <2>2 DEF CloudFrame
    <3>2. Stepped(w) /\ worker'[w].phase = "pause" /\ worker'[w].api = worker[w].token
      BY <1>1, <1>2, <1>3, <3>1, Going
    <3> QED
      BY <1>10, <2>2, <3>2 DEF CloudFrame, CloudOver, Persists, PersistRefreshed
  <2> QED
    BY <2>1, <2>2
<1>11. ASSUME CloudLeaves(w) PROVE Stepped(w) /\ Persists(w)
  <2>1. Stepped(w) /\ worker'[w].phase = "pause" /\ worker'[w].api = worker[w].token
    BY <1>1, <1>2, <1>3, <1>11, Going DEF CloudLeaves
  <2> QED
    BY <1>11, <2>1 DEF CloudLeaves, CloudOver, Persists, PersistRefreshed
<1>12. ASSUME CloudFails(w) PROVE Stepped(w) /\ Persists(w)
  <2>1. queue' \in Queues /\ (cur = None => queue' = <<>>)
    BY <1>12, Sending DEF CloudFails
  <2>2. /\ Stepped(w) /\ worker'[w].phase \in {"pause", "ended"}
        /\ worker'[w].phase # "ended" => worker'[w].api = worker[w].token
    BY <1>2, <1>3, <1>12, <2>1, Going DEF CloudFails, Ended
  <2> QED
    BY <1>12, <2>2 DEF CloudFails, CloudOver, Persists, PersistRefreshed
<1> QED
  BY <1>4, <1>5, <1>6, <1>7, <1>8, <1>9, <1>10, <1>11, <1>12 DEF WorkerStep

\* Types and the job of the subscription survive any step of a worker.
LEMMA SteppedKeeps ==
    ASSUME Serving, NEW w \in Workers, Alive(w), Stepped(w)
    PROVE  /\ UserOK' /\ worker' \in [Workers -> Thread]
           /\ cur' \in Workers \cup {None} /\ sub' \in Jobs \cup {NoJob}
           /\ queue' \in Seq({"frame", "error"}) /\ Len(queue') <= Capacity
           /\ cur' = cur /\ sub' = sub
           /\ cur' = None => queue' = <<>>
           /\ CurrentServes'
<1>1. UNCHANGED <<live, place, versioned, cur, sub, picture, shot, changes>>
  BY DEF Stepped, AtHome, user, view
<1>2. CurrentServes'
  <2> SUFFICES ASSUME cur # None
               PROVE  /\ worker'[cur].phase # "ended"
                      /\ worker'[cur].place = sub.place /\ worker'[cur].token = sub.token
    BY <1>1 DEF CurrentServes, Alive
  <2>1. cur \in Workers /\ CurrentServes
    BY DEF Serving, TypeOK
  <2>2. CASE cur = w
    BY <2>1, <2>2 DEF Stepped, Moved, Open, CurrentServes
  <2>3. CASE cur # w
    BY <2>1, <2>3 DEF Stepped, Moved, CurrentServes, Alive
  <2> QED
    BY <2>2, <2>3
<1> QED
  BY <1>1, <1>2 DEF Serving, TypeOK, UserOK, Stepped, Queues

\* Whatever a worker does, it holds no token older than its job's, and stores none.
LEMMA Turned ==
    ASSUME Serving, NEW w \in Workers, WorkerStep(w)
    PROVE  /\ issued' \in Tokens /\ issued <= issued'
           /\ expired' \in SUBSET Tokens /\ spent' \in SUBSET Tokens /\ disk' \in Tokens
           /\ worker'[w].phase # "ended" =>
                 worker[w].token <= worker'[w].api /\ worker'[w].api <= issued'
           /\ disk' # disk =>
                 worker'[w] # worker[w] /\ worker[w].token <= disk' /\ disk' <= issued'
<1>1. Plain(w) \/ (\E t \in Tokens : Mints(w, t)) \/ Persists(w)
  BY Kinds
<1>2. Alive(w)
  BY DEF WorkerStep, Alive, Begin, JpegFrame, JpegUndecoded, JpegBroken, RtspsFrame,
         RtspsFails, Mint, MintFails, CloudFrame, CloudLeaves, CloudFails, Pause
<1> DEFINE a == worker[w].token
           b == worker[w].api
           c == worker'[w].api
<1>3. /\ disk \in Tokens /\ issued \in Tokens
      /\ expired \in SUBSET Tokens /\ spent \in SUBSET Tokens
      /\ a \in Tokens /\ b \in Tokens
  BY DEF Serving, TypeOK, Thread
<1>4. a <= b /\ b <= issued
  BY <1>2 DEF Serving, Held
<1>5. Tokens \subseteq Int
  BY DEF Tokens
<1>6. a <= a /\ a <= issued /\ issued <= issued
  <2> HIDE DEF a, b
  <2> QED BY <1>3, <1>4, <1>5
<1>7. CASE Plain(w)
  <2>1. disk' = disk /\ issued' = issued /\ spent' = spent /\ expired' = expired
    BY <1>7 DEF Plain, tokens
  <2>2. worker'[w].phase # "ended" => c \in {a, b}
    BY <1>7 DEF Plain
  <2> HIDE DEF a, b, c
  <2>3. c \in {a, b} => a <= c /\ c <= issued'
    BY <1>4, <1>6, <2>1
  <2> QED
    BY <1>3, <1>6, <2>1, <2>2, <2>3, Zenon DEF a, b, c
<1>8. ASSUME NEW t \in Tokens, Mints(w, t)
      PROVE  /\ issued' \in Tokens /\ issued <= issued' /\ spent' \in SUBSET Tokens
             /\ a <= t /\ t <= issued' /\ a <= issued'
  <2>1. CASE JobToken(w, t)
    BY <1>3, <1>6, <2>1 DEF JobToken
  <2>2. CASE Refresh(w, t)
    <3>1. /\ issued < MaxTokens /\ issued' = issued + 1 /\ t = issued'
          /\ spent' = spent \cup {a}
      BY <2>2 DEF Refresh
    <3> HIDE DEF a, b
    <3> QED BY <1>3, <1>6, <3>1, CameraBounds DEF Tokens
  <2> QED
    BY <1>8, <2>1, <2>2 DEF Mints
<1>9. CASE \E t \in Tokens : Mints(w, t)
  <2>1. PICK t \in Tokens : Mints(w, t)
    BY <1>9
  <2>2. /\ issued' \in Tokens /\ issued <= issued' /\ spent' \in SUBSET Tokens
        /\ a <= t /\ t <= issued' /\ a <= issued'
    BY <1>8, <2>1
  <2>3. /\ disk' \in {disk, t} /\ expired' = expired
        /\ worker'[w] # worker[w]
        /\ worker'[w].phase # "ended" => c \in {a, t}
    BY <2>1 DEF Mints
  <2> HIDE DEF a, b, c
  <2>4. c \in {a, t} => a <= c /\ c <= issued'
    BY <1>6, <2>2
  <2>5. disk' \in Tokens /\ (disk' # disk => a <= disk' /\ disk' <= issued')
    BY <1>3, <2>1, <2>2, <2>3
  <2> QED
    BY <1>3, <2>2, <2>3, <2>4, <2>5, Zenon DEF a, b, c
<1>10. CASE Persists(w)
  <2>1. /\ disk' = b /\ issued' = issued /\ spent' = spent /\ expired' = expired
        /\ worker'[w] # worker[w]
        /\ worker'[w].phase # "ended" => c = a
    BY <1>10 DEF Persists
  <2> HIDE DEF a, b, c
  <2> QED
    BY <1>3, <1>4, <1>6, <2>1, Zenon DEF a, b, c
<1> QED
  BY <1>1, <1>7, <1>9, <1>10

\* A step of a worker keeps the invariant.
LEMMA ThreadStep == ASSUME Serving, NEW w \in Workers, WorkerStep(w) PROVE Serving'
<1>1. Stepped(w)
  BY Kinds
<1>2. Alive(w)
  BY DEF WorkerStep, Alive, Begin, JpegFrame, JpegUndecoded, JpegBroken, RtspsFrame,
         RtspsFails, Mint, MintFails, CloudFrame, CloudLeaves, CloudFails, Pause
<1>3. /\ UserOK' /\ worker' \in [Workers -> Thread]
      /\ cur' \in Workers \cup {None} /\ sub' \in Jobs \cup {NoJob}
      /\ queue' \in Seq({"frame", "error"}) /\ Len(queue') <= Capacity
      /\ cur' = cur /\ sub' = sub
      /\ cur' = None => queue' = <<>>
      /\ CurrentServes'
  BY <1>1, <1>2, SteppedKeeps
<1>4. /\ issued' \in Tokens /\ issued <= issued'
      /\ expired' \in SUBSET Tokens /\ spent' \in SUBSET Tokens /\ disk' \in Tokens
      /\ worker'[w].phase # "ended" =>
            worker[w].token <= worker'[w].api /\ worker'[w].api <= issued'
      /\ disk' # disk => disk' <= issued'
  BY Turned
<1>5. /\ \A u \in Workers : u # w => worker'[u] = worker[u]
      /\ worker'[w].phase # "ended" => worker'[w].token = worker[w].token
  BY <1>1 DEF Stepped, Moved, Ended
<1>6. /\ disk \in Int /\ issued \in Int /\ issued' \in Int /\ disk' \in Int
      /\ \A u \in Workers : worker[u].api \in Int
  BY <1>4 DEF Serving, TypeOK, Thread, Tokens
<1>7. Held'
  <2>1. disk' <= issued' /\ (cur' # None => sub' # NoJob)
    BY <1>3, <1>4, <1>6 DEF Serving, Held
  <2>2. ASSUME NEW u \in Workers, Alive(u)'
        PROVE  worker'[u].token <= worker'[u].api /\ worker'[u].api <= issued'
    <3>1. CASE u = w
      BY <1>4, <1>5, <2>2, <3>1 DEF Alive
    <3>2. CASE u # w
      <4>1. worker'[u] = worker[u] /\ Alive(u)
        BY <1>5, <2>2, <3>2 DEF Alive
      <4>2. worker[u].token <= worker[u].api /\ worker[u].api <= issued
        BY <4>1 DEF Serving, Held
      <4>3. worker[u].api <= issued'
        BY <1>4, <1>6, <4>2
      <4> QED
        BY <4>1, <4>2, <4>3
    <3> QED
      BY <3>1, <3>2
  <2> QED
    BY <2>1, <2>2 DEF Held
<1> QED
  BY <1>3, <1>4, <1>7 DEF Serving, TypeOK, UserOK

-----------------------------------------------------------------------------
(* The theorems                                                              *)

\* Every step keeps the invariant.
LEMMA ServingStep == Serving /\ [Next]_vars => Serving'
<1> SUFFICES ASSUME Serving, [Next]_vars PROVE Serving'
  OBVIOUS
<1>1. CASE UserStep \/ Take
  BY <1>1, MessageStep
<1>2. ASSUME NEW w \in Workers, WorkerStep(w) PROVE Serving'
  BY <1>2, ThreadStep
<1>3. ASSUME NEW t \in Tokens, Expire(t) PROVE Serving'
  BY <1>3
  DEF Expire, Serving, TypeOK, CurrentServes, Held, Alive, user, view
<1>4. CASE UNCHANGED vars
  BY <1>4
  DEF vars, Serving, TypeOK, CurrentServes, Held, Alive, user, view, tokens
<1> QED
  BY <1>1, <1>2, <1>3, <1>4 DEF Next

\* The inductive invariant: the worker subscribed to works at its job, and no worker holds a
\* token older than its job's or newer than the newest (cloud_tutk_loop, with_retry).
THEOREM CameraCorrect == Spec => []Serving
BY Start, ServingStep, PTL DEF Spec

\* The camera's variables keep the types of App's fields and of camera_worker's locals.
THEOREM CameraTypes == Spec => []TypeOK
<1>1. Serving => TypeOK
  BY DEF Serving
<1> QED
  BY <1>1, CameraCorrect, PTL

\* The worker the UI is subscribed to never returns (camera_worker, stream_rtsps_frames).
THEOREM CameraServes == Spec => []CurrentServes
<1>1. Serving => CurrentServes
  BY DEF Serving
<1> QED
  BY <1>1, CameraCorrect, PTL

\* A worker at the job that is wanted stores no token older than the one on disk, however
\* often streams and exchanges fail (persist_refreshed_cloud, camera_job).
THEOREM TokensKept == Spec => TokenBackOnlyByAbandoned
<1>1. Serving /\ [Next]_vars =>
        [disk' < disk =>
           \E w \in Workers : worker'[w] # worker[w] /\ (Open(w) => Wanted # sub)]_vars
  <2> SUFFICES ASSUME Serving, Next, disk' < disk
               PROVE  \E w \in Workers : worker'[w] # worker[w] /\ (Open(w) => Wanted # sub)
    OBVIOUS
  <2>1. disk \in Int /\ disk' # disk
    BY DEF Serving, TypeOK, Tokens
  <2>2. ASSUME UserStep \/ Take PROVE FALSE
    BY <2>1, <2>2 DEF UserStep, Play, Stop, Version, OtherMessage, Chamber, ChamberDone, Point,
                      Take, TakeFrame, TakeError, Change, tokens
  <2>3. ASSUME NEW t \in Tokens, Expire(t) PROVE FALSE
    BY <2>1, <2>3 DEF Expire
  <2>4. PICK w \in Workers : WorkerStep(w)
    BY <2>2, <2>3 DEF Next
  <2>5. worker'[w] # worker[w] /\ worker[w].token <= disk' /\ disk' \in Int
    BY <2>1, <2>4, Turned DEF Tokens
  <2>6. ASSUME Open(w), Wanted = sub PROVE FALSE
    <3>1. cur = w /\ cur # None
      BY <2>6, NoneIsNone DEF Open
    <3>2. worker[w].token = sub.token /\ sub # NoJob
      BY <3>1 DEF Serving, CurrentServes, Held
    <3>3. sub.token = disk
      BY <2>6, <3>2 DEF Wanted, CameraJob
    <3> QED
      BY <2>1, <2>5, <3>2, <3>3
  <2> QED
    BY <2>5, <2>6
<1> QED
  BY <1>1, CameraCorrect, PTL DEF Spec, TokenBackOnlyByAbandoned

-----------------------------------------------------------------------------
(* Induction on the natural numbers, without an operator as a parameter: a *)
(* set of numbers has a least element, because no finite set 1 .. n has an *)
(* endless chain of subsets.                                               *)

LEMMA Least ==
    ASSUME NEW T, T \subseteq Nat, T # {}
    PROVE  \E m \in T : \A n \in T : m <= n
<1> DEFINE R == StrictSubsetOrdering(Nat)
           U == {1 .. n : n \in T}
           V == FiniteSubsetsOf(Nat)
<1>1. IsWellFoundedOn(R, V)
  BY FS_StrictSubsetOrderingWellFounded
<1>2. U \subseteq V /\ U # {}
  <2>1. ASSUME NEW n \in T PROVE 1 .. n \in V
    <3>1. 1 \in Int /\ n \in Int /\ 1 .. n \in SUBSET Nat
      OBVIOUS
    <3>2. IsFiniteSet(1 .. n)
      BY <3>1, FS_Interval, Zenon
    <3> QED BY <3>1, <3>2 DEF FiniteSubsetsOf
  <2> QED BY <2>1
<1>3. PICK u \in U : \A w \in U : ~(<<w, u>> \in R)
  <2> HIDE DEF R, U, V
  <2> QED BY <1>1, <1>2, WFMin
<1>4. PICK m \in T : u = 1 .. m
  OBVIOUS
<1>5. ASSUME NEW n \in T, n < m PROVE FALSE
  <2>1. 1 .. n \subseteq u /\ m \in u /\ m \notin 1 .. n
    BY <1>4, <1>5
  <2>2. <<1 .. n, u>> \in R
    BY <2>1, <1>4 DEF StrictSubsetOrdering
  <2> QED BY <1>3, <2>2
<1> QED BY <1>5

\* What holds of 0 and passes to the next number holds of all.
LEMMA Induct ==
    ASSUME NEW T, 0 \in T, \A n \in Nat : n \in T => n + 1 \in T
    PROVE  \A n \in Nat : n \in T
<1> SUFFICES ASSUME NEW k \in Nat \ T PROVE FALSE
  OBVIOUS
<1>1. PICK m \in Nat \ T : \A n \in Nat \ T : m <= n
  BY Least
<1>2. m - 1 \in Nat /\ m - 1 \in T
  BY <1>1
<1> QED BY <1>1, <1>2


-----------------------------------------------------------------------------
(* What the stream says reaches the decoder                                 *)

Bytes == Seq(Nat)

\* What was read and what was not.
Left == buf \o wire

\* What was read lies before what was not.
LEMMA Read ==
    ASSUME NEW b \in Bytes, NEW w \in Bytes
    PROVE  /\ b \o w \in Bytes /\ Len(b \o w) = Len(b) + Len(w)
           /\ \A n \in 1..Len(b) : (b \o w)[n] = b[n]
           /\ DOMAIN (b \o w) = 1..(Len(b) + Len(w))
BY ConcatProperties DEF Bytes

\* What is left after n bytes of those read.
LEMMA ReadFrom ==
    ASSUME NEW b \in Bytes, NEW w \in Bytes, NEW n \in 0..Len(b)
    PROVE  SubSeq(b, n + 1, Len(b)) \o w = SubSeq(b \o w, n + 1, Len(b) + Len(w))
<1> DEFINE c == SubSeq(b, n + 1, Len(b))
           s == b \o w
           d == SubSeq(s, n + 1, Len(b) + Len(w))
<1>1. Len(b) \in Nat /\ Len(w) \in Nat /\ n \in Nat
  BY DEF Bytes
<1>2. c \in Seq(Nat) /\ Len(c) = Len(b) - n /\ \A i \in 1..(Len(b) - n) : c[i] = b[n + i]
  BY <1>1 DEF Bytes
<1>3. s \in Seq(Nat) /\ Len(s) = Len(b) + Len(w)
  BY Read DEF Bytes
<1>4. \A i \in 1..(Len(b) + Len(w)) : s[i] = IF i <= Len(b) THEN b[i] ELSE w[i - Len(b)]
  BY ConcatProperties DEF Bytes
<1> HIDE DEF s, c
<1>5. /\ d \in Seq(Nat) /\ Len(d) = Len(b) + Len(w) - n
      /\ \A i \in 1..(Len(b) + Len(w) - n) : d[i] = s[n + i]
  BY <1>1, <1>3
<1>6. /\ c \o w \in Seq(Nat) /\ Len(c \o w) = Len(b) - n + Len(w)
      /\ \A i \in 1..(Len(b) - n + Len(w)) : (c \o w)[i] = IF i <= Len(b) - n THEN c[i] ELSE w[i - (Len(b) - n)]
  <2>1. /\ c \o w \in Seq(Nat) /\ Len(c \o w) = Len(c) + Len(w)
        /\ \A i \in 1..(Len(c) + Len(w)) : (c \o w)[i] = IF i <= Len(c) THEN c[i] ELSE w[i - Len(c)]
    <3>1. c \in Bytes
      BY <1>2 DEF Bytes
    <3> QED BY <3>1, ConcatProperties DEF Bytes
  <2> QED BY <1>2, <2>1
<1> HIDE DEF d
<1>7. ASSUME NEW i \in 1..(Len(b) + Len(w) - n) PROVE (c \o w)[i] = d[i]
  <2>1. n + i \in 1..(Len(b) + Len(w)) /\ i \in 1..(Len(b) - n + Len(w)) /\ i \in Nat
    BY <1>1
  <2>2. d[i] = s[n + i]
    BY <1>5
  <2>3. CASE i <= Len(b) - n
    <3>1. n + i <= Len(b) /\ i \in 1..(Len(b) - n)
      BY <1>1, <2>1, <2>3
    <3> QED BY <1>2, <1>4, <1>6, <2>1, <2>2, <2>3, <3>1
  <2>4. CASE ~(i <= Len(b) - n)
    <3>1. ~(n + i <= Len(b)) /\ i - (Len(b) - n) = n + i - Len(b)
      BY <1>1, <2>1, <2>4
    <3>2. (c \o w)[i] = w[i - (Len(b) - n)]
      BY <1>6, <2>1, <2>4
    <3>3. s[n + i] = w[n + i - Len(b)]
      BY <1>4, <2>1, <3>1
    <3> QED BY <2>2, <3>1, <3>2, <3>3
  <2> QED BY <2>3, <2>4
<1>8. Len(c \o w) = Len(d) /\ Len(d) = Len(b) + Len(w) - n
  BY <1>1, <1>5, <1>6
<1> QED BY <1>5, <1>6, <1>7, <1>8, SeqEqual DEF c, d, s

\* A part of what was read is one of the stream.
LEMMA ReadPart ==
    ASSUME NEW b \in Bytes, NEW w \in Bytes, NEW m \in Nat \ {0}, NEW n \in 0..Len(b)
    PROVE  SubSeq(b, m, n) = SubSeq(b \o w, m, n)
<1> DEFINE s == b \o w
           c == SubSeq(b, m, n)
           d == SubSeq(s, m, n)
<1>1. s \in Seq(Nat) /\ Len(s) = Len(b) + Len(w) /\ \A i \in 1..Len(b) : s[i] = b[i]
  BY Read DEF Bytes
<1>2. Len(b) \in Nat /\ Len(w) \in Nat /\ n \in Nat
  BY DEF Bytes
<1> HIDE DEF s
<1> DEFINE k == IF m <= n THEN n - m + 1 ELSE 0
<1>3. c \in Seq(Nat) /\ Len(c) = k /\ \A i \in 1..k : c[i] = b[m + i - 1]
  BY <1>2 DEF Bytes
<1>4. d \in Seq(Nat) /\ Len(d) = k /\ \A i \in 1..k : d[i] = s[m + i - 1]
  BY <1>1, <1>2
<1>5. \A i \in 1..k : m + i - 1 \in 1..Len(b)
  BY <1>2
<1> HIDE DEF c, d, k
<1>6. \A i \in 1..k : c[i] = d[i]
  BY <1>1, <1>3, <1>4, <1>5
<1> QED BY <1>3, <1>4, <1>6, SeqEqual DEF c, d, s

-----------------------------------------------------------------------------

\* The strengthening: the units delivered, and those that the bytes left say
\* after the begin of a unit at hand, are the units of the stream.
ReaderOK ==
    /\ buf \in Bytes /\ wire \in Bytes /\ units \in Seq(Bytes)
    /\ Known(fu, Left)
    /\ sent = units \o Given[<<fu, Left>>]

\* Bytes whose units are known say them.
LEMMA KnownMeans ==
    ASSUME NEW f, NEW s, Known(f, s)
    PROVE  f \in Bytes /\ s \in Bytes /\ Given[<<f, s>>] \in Seq(Bytes) /\ Means(f, s)
<1>1. <<f, s>> \in DOMAIN Given
  BY DEF Known
<1>2. <<f, s>>[1] = f /\ <<f, s>>[2] = s
  OBVIOUS
<1> QED BY <1>1, <1>2, GivenAssumption DEF Bytes

\* Bytes joined in either order.
LEMMA Regroup ==
    ASSUME NEW a \in Bytes, NEW b \in Bytes, NEW c \in Bytes
    PROVE  (a \o b) \o c = a \o (b \o c)
BY ConcatAssociative DEF Bytes

\* Units joined in either order.
LEMMA RegroupUnits ==
    ASSUME NEW a \in Seq(Bytes), NEW b \in Seq(Bytes), NEW c \in Seq(Bytes)
    PROVE  a \o b \in Seq(Bytes) /\ (a \o b) \o c = a \o (b \o c)
BY ConcatAssociative

\* The marks differ.
LEMMA Starts == Dollar # Reply /\ Dollar # HeadEnd
BY DEF Dollar, Reply, HeadEnd

\* What bytes say, by the first of them.
LEMMA MeansByStart ==
    ASSUME NEW f, NEW s, Means(f, s)
    PROVE  /\ s = <<>> => Given[<<f, s>>] = <<>>
           /\ s # <<>> /\ s[1] = Dollar => FrameMeans(f, s)
           /\ s # <<>> /\ s[1] = Reply => ReplyMeans(f, s)
           /\ s # <<>> /\ s[1] \notin {Dollar, Reply} => StrayMeans(f, s)
BY Starts, Zenon DEF Means

\* A read moves bytes, and what is left stays as it is.
LEMMA FillKeeps == ASSUME ReaderOK, Fill PROVE ReaderOK'
<1>1. PICK n \in 1..Chunk :
         /\ n <= Len(wire)
         /\ buf' = buf \o SubSeq(wire, 1, n)
         /\ wire' = SubSeq(wire, n + 1, Len(wire))
  BY DEF Fill
<1>2. buf \in Seq(Nat) /\ wire \in Seq(Nat)
  BY DEF ReaderOK, Bytes
<1> DEFINE c == SubSeq(wire, 1, n)
           d == SubSeq(wire, n + 1, Len(wire))
<1>3. n \in 0..Len(wire) /\ n \in Nat
  BY <1>1, <1>2
<1>4. c \in Seq(Nat) /\ d \in Seq(Nat)
  BY <1>2, <1>3
<1>5. wire = c \o d
  <2>1. 1 \in 1..(Len(wire) + 1) /\ n \in (1 - 1)..Len(wire) /\ Len(wire) \in n..Len(wire)
    BY <1>2, <1>3
  <2>2. c \o d = SubSeq(wire, 1, Len(wire))
    BY <1>2, <2>1, ConcatAdjacentSubSeq
  <2> QED BY <1>2, <2>2, SubSeqFull
<1> HIDE DEF c, d
<1>6. (buf \o c) \o d = buf \o (c \o d)
  <2>1. c \in Bytes /\ d \in Bytes /\ buf \in Bytes
    BY <1>2, <1>4 DEF Bytes
  <2> QED BY <2>1, Regroup
<1>7. buf' = buf \o c /\ wire' = d
  BY <1>1 DEF c, d
<1>8. Left' = Left
  BY <1>5, <1>6, <1>7 DEF Left
<1>9. buf' \in Bytes /\ wire' \in Bytes
  BY <1>2, <1>4, <1>7 DEF Bytes
<1>10. fu' = fu /\ units' = units /\ sent' = sent
  BY DEF Fill
<1> QED BY <1>8, <1>9, <1>10 DEF ReaderOK, Known

\* A unit delivered is the first of those to come.
LEMMA Delivered ==
    ASSUME NEW u \in Seq(Bytes), NEW x \in Bytes, NEW g \in Seq(Bytes)
    PROVE  Append(u, x) \in Seq(Bytes) /\ Append(u, x) \o g = u \o (<<x>> \o g)
<1>1. <<x>> \in Seq(Bytes)
  OBVIOUS
<1>2. Append(u, x) = u \o <<x>>
  OBVIOUS
<1>3. (u \o <<x>>) \o g = u \o (<<x>> \o g)
  BY <1>1, ConcatAssociative
<1> QED BY <1>2, <1>3

\* f[n] are the units of the bytes from n on.
IsJoined(f, p, m) ==
    f = [n \in m..(Len(p) + 1) |->
            IF n > Len(p) \/ n + p[n] > Len(p) THEN <<>>
            ELSE <<SubSeq(p, n + 1, n + p[n])>> \o f[n + p[n] + 1]]

\* The function Joined defines exists.
LEMMA JoinedExists ==
    ASSUME NEW p \in Bytes
    PROVE  \E f : IsJoined(f, p, 1) /\ Joined(p) = f[1]
<1> DEFINE L == Len(p)
           U(n) == SubSeq(p, n + 1, n + p[n])
           T == {k \in Nat : k <= L => \E f : IsJoined(f, p, L + 1 - k)}
<1>0. L \in Nat /\ \A n \in 1..L : p[n] \in Nat
  BY ElementOfSeq DEF Bytes
<1>1. 0 \in T
  <2> DEFINE f == [n \in (L + 1)..(L + 1) |-> <<>>]
  <2>1. f = [n \in (L + 1)..(L + 1) |->
               IF n > L \/ n + p[n] > L THEN <<>> ELSE <<U(n)>> \o f[n + p[n] + 1]]
    BY <1>0
  <2> HIDE DEF f
  <2>2. IsJoined(f, p, L + 1)
    BY <2>1 DEF IsJoined
  <2>3. L + 1 - 0 = L + 1
    BY <1>0
  <2> QED BY <2>2, <2>3
<1>2. ASSUME NEW k \in Nat, k \in T PROVE k + 1 \in T
  <2> SUFFICES ASSUME k + 1 <= L PROVE \E f : IsJoined(f, p, L + 1 - (k + 1))
    OBVIOUS
  <2> DEFINE m == L + 1 - k
  <2>0. m \in 2..(L + 1) /\ L + 1 - (k + 1) = m - 1 /\ k <= L /\ m - 1 \in 1..L
    BY <1>0
  <2>1. PICK f : IsJoined(f, p, m)
    BY <1>2, <2>0
  <2> HIDE DEF m
  <2> DEFINE Step(h, n) == IF n > L \/ n + p[n] > L THEN <<>> ELSE <<U(n)>> \o h[n + p[n] + 1]
             g == [n \in (m - 1)..(L + 1) |-> IF n = m - 1 THEN Step(f, n) ELSE f[n]]
  <2>2. ASSUME NEW n \in (m - 1)..(L + 1) PROVE g[n] = Step(g, n)
    <3>1. n \in 1..(L + 1) /\ n \in Nat
      BY <1>0, <2>0
    <3>2. ~(n > L \/ n + p[n] > L) => g[n + p[n] + 1] = f[n + p[n] + 1]
      <4> SUFFICES ASSUME n <= L, n + p[n] <= L PROVE g[n + p[n] + 1] = f[n + p[n] + 1]
        BY <1>0, <3>1
      <4>1. p[n] \in Nat
        BY <1>0, <3>1
      <4>2. n + p[n] + 1 \in (m - 1)..(L + 1) /\ n + p[n] + 1 # m - 1
        BY <1>0, <2>0, <3>1, <4>1
      <4> HIDE DEF Step
      <4> QED BY <4>2
    <3>3. g[n] = Step(f, n)
      <4>1. CASE n = m - 1
        <5> HIDE DEF Step
        <5> QED BY <4>1
      <4>2. CASE n # m - 1
        <5>1. n \in m..(L + 1)
          BY <1>0, <2>0, <3>1, <4>2
        <5>2. f[n] = Step(f, n)
          BY <2>1, <5>1 DEF IsJoined
        <5> HIDE DEF Step
        <5> QED BY <4>2, <5>2
      <4> QED BY <4>1, <4>2
    <3> HIDE DEF g
    <3> QED BY <3>2, <3>3
  <2>3. g = [n \in (m - 1)..(L + 1) |-> g[n]]
    OBVIOUS
  <2> HIDE DEF g
  <2>4. IsJoined(g, p, m - 1)
    BY <2>2, <2>3 DEF IsJoined
  <2> QED BY <2>0, <2>4
<1>3. L \in T
  <2> HIDE DEF T, L
  <2> QED BY <1>0, <1>1, <1>2, Induct
<1>4. \E f : IsJoined(f, p, 1)
  <2>1. L + 1 - L = 1
    BY <1>0
  <2> QED BY <1>0, <1>3, <2>1
<1>5. IsJoined(CHOOSE f : IsJoined(f, p, 1), p, 1)
  BY <1>4, Zenon
<1>6. Joined(p) = (CHOOSE f : IsJoined(f, p, 1))[1]
  BY Zenon DEF Joined, IsJoined
<1> QED BY <1>5, <1>6

\* What stap_a gives are units.
LEMMA JoinedAreUnits == ASSUME NEW p \in Bytes PROVE Joined(p) \in Seq(Bytes)
<1> DEFINE L == Len(p)
<1>0. L \in Nat /\ p \in Seq(Nat) /\ \A n \in 1..L : p[n] \in Nat
  BY ElementOfSeq DEF Bytes
<1>1. PICK f : IsJoined(f, p, 1) /\ Joined(p) = f[1]
  BY JoinedExists
<1> DEFINE T == {k \in Nat : \A n \in 1..(L + 1) : L + 1 - n <= k => f[n] \in Seq(Bytes)}
<1>2. ASSUME NEW n \in 1..(L + 1)
      PROVE  f[n] = IF n > L \/ n + p[n] > L THEN <<>> ELSE <<SubSeq(p, n + 1, n + p[n])>> \o f[n + p[n] + 1]
  BY <1>1 DEF IsJoined
<1>3. <<>> \in Seq(Bytes)
  OBVIOUS
<1>4. 0 \in T
  <2>1. ASSUME NEW n \in 1..(L + 1), L + 1 - n <= 0 PROVE f[n] \in Seq(Bytes)
    <3>1. n > L
      BY <1>0, <2>1
    <3> QED BY <1>2, <1>3, <3>1
  <2> QED BY <2>1
<1>5. ASSUME NEW k \in Nat, k \in T PROVE k + 1 \in T
  <2>1. ASSUME NEW n \in 1..(L + 1), L + 1 - n <= k + 1 PROVE f[n] \in Seq(Bytes)
    <3>1. CASE n > L \/ n + p[n] > L
      BY <1>2, <1>3, <3>1
    <3>2. CASE ~(n > L \/ n + p[n] > L)
      <4> DEFINE v == n + p[n] + 1
                 u == SubSeq(p, n + 1, n + p[n])
      <4>1. n \in 1..L /\ n \in Nat
        BY <1>0, <3>2
      <4>2. p[n] \in Nat
        BY <1>0, <4>1
      <4>3. v \in 1..(L + 1) /\ L + 1 - v <= k
        <5>1. n \in Int /\ n >= 1 /\ n <= L /\ n + p[n] <= L /\ p[n] >= 0 /\ p[n] \in Int /\ L \in Int /\ k \in Int
          BY <1>0, <3>2, <4>1, <4>2
        <5>2. L + 1 - n <= k + 1
          BY <2>1
        <5> DEFINE z == p[n]
        <5> HIDE DEF L, z
        <5>3. /\ n \in Int /\ n >= 1 /\ n <= L /\ n + z <= L /\ z >= 0 /\ z \in Int /\ L \in Int
              /\ v = n + z + 1
          BY <5>1 DEF z
        <5> HIDE DEF v
        <5> QED BY <5>1, <5>2, <5>3
      <4>4. n + 1 \in Nat /\ n + p[n] \in Nat /\ n + 1 >= 1 /\ n + p[n] <= L
        BY <1>0, <3>2, <4>1, <4>2
      <4>5. u \in Seq(Nat)
        <5> DEFINE x == n + 1
                   y == n + p[n]
        <5>1. x \in Nat /\ y \in Nat /\ x >= 1 /\ y <= Len(p)
          BY <4>4
        <5> HIDE DEF x, y
        <5>2. SubSeq(p, x, y) \in Seq(Nat)
          BY <1>0, <5>1
        <5> QED BY <5>2 DEF x, y
      <4>6. f[n] = <<u>> \o f[v]
        BY <1>2, <3>2
      <4> HIDE DEF u, v
      <4>7. f[v] \in Seq(Bytes)
        BY <1>5, <4>3
      <4>8. <<u>> \in Seq(Bytes)
        BY <4>5 DEF Bytes
      <4> QED BY <4>6, <4>7, <4>8
    <3> QED BY <3>1, <3>2
  <2> QED BY <2>1
<1>6. \A k \in Nat : k \in T
  <2> HIDE DEF T
  <2> QED BY <1>4, <1>5, Induct
<1>7. L \in T /\ 1 \in 1..(L + 1) /\ L + 1 - 1 <= L
  <2> HIDE DEF T, L
  <2> QED BY <1>0, <1>6
<1> QED BY <1>1, <1>7

\* The depacketizer delivers what the packet says.
LEMMA DepayKeeps ==
    ASSUME NEW p \in Bytes, NEW rest, NEW s, ReaderOK, p # <<>>, s = Left, Depay(p),
           PacketMeans(fu, 0, p, s, rest)
    PROVE  units' \in Seq(Bytes) /\ Known(fu', rest) /\ sent = units' \o Given[<<fu', rest>>]
<1>1. fu \in Bytes /\ units \in Seq(Bytes) /\ sent = units \o Given[<<fu, s>>]
  BY KnownMeans DEF ReaderOK
<1>2. Tail(p) \in Bytes /\ fu \o Tail(p) \in Bytes
  <2>1. p \in Seq(Nat) /\ p # <<>> /\ fu \in Seq(Nat)
    BY <1>1 DEF Bytes
  <2>2. Tail(p) \in Seq(Nat)
    BY <2>1
  <2>3. fu \o Tail(p) \in Seq(Nat)
    BY <2>1, <2>2
  <2> QED BY <2>2, <2>3 DEF Bytes
<1>3. \A f : Known(f, rest) => Given[<<f, rest>>] \in Seq(Bytes)
  BY KnownMeans
<1>k. /\ Single # Several /\ Single # FuStart /\ Single # FuMiddle /\ Single # FuEnd /\ Several # FuStart
      /\ Several # FuMiddle /\ Several # FuEnd /\ FuStart # FuMiddle /\ FuStart # FuEnd /\ FuMiddle # FuEnd
  BY DEF Single, Several, FuStart, FuMiddle, FuEnd
<1>4. CASE p[1] = Single
  <2>1. units' = Append(units, Tail(p)) /\ fu' = fu
    BY <1>4, <1>k, Zenon DEF Depay
  <2>2. Known(fu, rest) /\ Given[<<fu, s>>] = <<Tail(p)>> \o Given[<<fu, rest>>]
    BY <1>4, <1>k, Zenon DEF PacketMeans
  <2>3. Given[<<fu, rest>>] \in Seq(Bytes)
    BY <1>3, <2>2, Zenon
  <2> DEFINE x == Tail(p)
             g == Given[<<fu, rest>>]
  <2>4. Append(units, x) \in Seq(Bytes) /\ Append(units, x) \o g = units \o (<<x>> \o g)
    BY <1>1, <1>2, <2>3, Delivered
  <2> HIDE DEF x, g
  <2>5. units' = Append(units, x) /\ Given[<<fu, s>>] = <<x>> \o g /\ Given[<<fu', rest>>] = g
    BY <2>1, <2>2 DEF x, g
  <2>6. Known(fu', rest)
    BY <2>1, <2>2
  <2> QED BY <1>1, <2>4, <2>5, <2>6
<1>5. CASE p[1] = Several
  <2>1. units' = units \o Joined(Tail(p)) /\ fu' = fu
    BY <1>5, <1>k, Zenon DEF Depay
  <2>2. Known(fu, rest) /\ Given[<<fu, s>>] = Joined(Tail(p)) \o Given[<<fu, rest>>]
    BY <1>5, <1>k, Zenon DEF PacketMeans
  <2>3. Joined(Tail(p)) \in Seq(Bytes)
    BY <1>2, JoinedAreUnits
  <2> DEFINE x == Joined(Tail(p))
             g == Given[<<fu, rest>>]
  <2>g. g \in Seq(Bytes)
    BY <1>3, <2>2
  <2> HIDE DEF x, g
  <2>x. x \in Seq(Bytes)
    BY <2>3 DEF x
  <2>4. (units \o x) \o g = units \o (x \o g)
    BY <1>1, <2>x, <2>g, RegroupUnits
  <2>5. units \o x \in Seq(Bytes)
    BY <1>1, <2>x, <2>g, RegroupUnits
  <2>6. /\ units' = units \o x /\ Given[<<fu, s>>] = x \o g /\ Given[<<fu', rest>>] = g
        /\ Known(fu', rest)
    BY <2>1, <2>2 DEF x, g
  <2> QED BY <1>1, <2>4, <2>5, <2>6
<1>6. CASE p[1] = FuStart
  <2>1. fu' = Tail(p) /\ units' = units
    BY <1>6, <1>k, Zenon DEF Depay
  <2>2. Known(Tail(p), rest) /\ Given[<<fu, s>>] = Given[<<Tail(p), rest>>]
    BY <1>6, <1>k, Zenon DEF PacketMeans
  <2> QED BY <1>1, <2>1, <2>2
<1>7. CASE p[1] = FuMiddle /\ fu # <<>>
  <2>1. fu' = fu \o Tail(p) /\ units' = units
    BY <1>7, <1>k, Zenon DEF Depay
  <2>2. Known(fu \o Tail(p), rest) /\ Given[<<fu, s>>] = Given[<<fu \o Tail(p), rest>>]
    BY <1>7, <1>k, Zenon DEF PacketMeans
  <2> QED BY <1>1, <2>1, <2>2
<1>8. CASE p[1] = FuEnd /\ fu # <<>>
  <2>1. fu' = <<>> /\ units' = Append(units, fu \o Tail(p))
    BY <1>8, <1>k, Zenon DEF Depay
  <2>2. Known(<<>>, rest) /\ Given[<<fu, s>>] = <<fu \o Tail(p)>> \o Given[<<<<>>, rest>>]
    BY <1>8, <1>k, Zenon DEF PacketMeans
  <2>3. Given[<<<<>>, rest>>] \in Seq(Bytes)
    BY <1>3, <2>2, Zenon
  <2> DEFINE x == fu \o Tail(p)
             g == Given[<<<<>>, rest>>]
  <2>4. Append(units, x) \in Seq(Bytes) /\ Append(units, x) \o g = units \o (<<x>> \o g)
    BY <1>1, <1>2, <2>3, Delivered
  <2> HIDE DEF x, g
  <2>5. units' = Append(units, x) /\ Given[<<fu, s>>] = <<x>> \o g /\ Given[<<fu', rest>>] = g
    BY <2>1, <2>2 DEF x, g
  <2>6. Known(fu', rest)
    BY <2>1, <2>2
  <2> QED BY <1>1, <2>4, <2>5, <2>6
<1>9. CASE ~(p[1] \in {Single, Several, FuStart} \/ (p[1] \in {FuMiddle, FuEnd} /\ fu # <<>>))
  <2>1. fu' = fu /\ units' = units
    BY <1>9, <1>k, Zenon DEF Depay
  <2>2. Known(fu, rest) /\ Given[<<fu, s>>] = Given[<<fu, rest>>]
    BY <1>9, <1>k, Zenon DEF PacketMeans
  <2> QED BY <1>1, <2>1, <2>2
<1> QED BY <1>4, <1>5, <1>6, <1>7, <1>8, <1>9

\* The steps of the reader, one by one.
LEMMA FrameKeeps == ASSUME ReaderOK, TakePacket PROVE ReaderOK'
<1> DEFINE s == Left
<1>1. buf \in Bytes /\ wire \in Bytes /\ units \in Seq(Bytes) /\ Known(fu, s)
  BY DEF ReaderOK
<1>2. buf # <<>> /\ buf[1] = Dollar /\ Len(buf) >= 3 /\ Len(buf) >= 3 + buf[3]
  BY DEF TakePacket, FrameReady, Framed, FrameEnd
<1>3. /\ s \in Bytes /\ Len(s) = Len(buf) + Len(wire) /\ Len(buf) \in Nat /\ Len(wire) \in Nat
      /\ \A n \in 1..Len(buf) : s[n] = buf[n]
  BY <1>1, Read DEF Left, Bytes
<1>4. 1 \in 1..Len(buf) /\ 2 \in 1..Len(buf) /\ 3 \in 1..Len(buf)
  BY <1>2, <1>3
<1>5. s[1] = Dollar /\ s[2] = buf[2] /\ s[3] = buf[3] /\ s # <<>>
  <2>1. Len(s) # 0
    BY <1>2, <1>3
  <2>2. s # <<>>
    BY <1>3, <2>1
  <2> QED BY <1>2, <1>3, <1>4, <2>2
<1>6. Means(fu, s)
  BY <1>1, KnownMeans
<1> HIDE DEF s
<1>7. PICK n \in 3..Len(s) :
         s[3] = n - 3 /\ PacketMeans(fu, s[2], SubSeq(s, 4, n), s, SubSeq(s, n + 1, Len(s)))
  BY <1>5, <1>6, MeansByStart, Zenon DEF FrameMeans
<1>8. n = 3 + buf[3] /\ n \in 0..Len(buf) /\ n \in Nat /\ buf[3] \in Nat
  BY <1>2, <1>3, <1>5, <1>7
<1> DEFINE p == SubSeq(buf, 4, n)
           rest == SubSeq(s, n + 1, Len(s))
<1>9. SubSeq(s, 4, n) = p
  BY <1>1, <1>8, ReadPart DEF s, Left
<1>10. rest = SubSeq(buf, n + 1, Len(buf)) \o wire
  BY <1>1, <1>3, <1>8, ReadFrom DEF s, Left
<1>11. buf' = SubSeq(buf, n + 1, Len(buf)) /\ wire' = wire /\ sent' = sent
  BY <1>8 DEF TakePacket, Drained, FrameEnd
<1>12. buf' \in Bytes
  <2>1. SubSeq(buf, n + 1, Len(buf)) \in Seq(Nat)
    <3>0. n \in Nat
      BY <1>8
    <3>1. buf \in Seq(Nat) /\ n + 1 \in Nat /\ n + 1 >= 1 /\ Len(buf) \in Nat
      BY <1>1, <1>3, <3>0 DEF Bytes
    <3> DEFINE m == n + 1
    <3> HIDE DEF m
    <3>2. m \in Nat /\ m >= 1
      BY <3>1 DEF m
    <3>3. SubSeq(buf, m, Len(buf)) \in Seq(Nat)
      BY <3>1, <3>2
    <3> QED BY <3>3 DEF m
  <2> QED BY <1>11, <2>1 DEF Bytes
<1>13. Left' = rest
  BY <1>10, <1>11 DEF Left
<1>14. p \in Bytes /\ (p # <<>> <=> buf[3] > 0)
  <2>1. p \in Seq(Nat) /\ Len(p) = buf[3]
    <3>1. buf \in Seq(Nat) /\ n \in Nat /\ n <= Len(buf) /\ n >= 3
      BY <1>1, <1>8 DEF Bytes
    <3>2. p \in Seq(Nat) /\ Len(p) = n - 3
      BY <3>1
    <3> HIDE DEF p
    <3> QED BY <1>8, <3>2
  <2> HIDE DEF p
  <2> QED BY <1>8, <2>1 DEF Bytes
<1>15. PacketMeans(fu, buf[2], p, s, rest)
  BY <1>5, <1>7, <1>9
<1> HIDE DEF p, rest
<1>16. units' \in Seq(Bytes) /\ Known(fu', rest) /\ sent = units' \o Given[<<fu', rest>>]
  <2>1. CASE buf[2] = 0 /\ buf[3] > 0
    <3>1. Depay(SubSeq(buf, 4, FrameEnd))
      BY <2>1 DEF TakePacket
    <3>2. Depay(p)
      BY <1>8, <3>1 DEF p, FrameEnd
    <3> QED BY <1>14, <1>15, <2>1, <3>2, DepayKeeps DEF s
  <2>2. CASE ~(buf[2] = 0 /\ buf[3] > 0)
    <3>1. fu' = fu /\ units' = units
      BY <2>2 DEF TakePacket
    <3>2. Known(fu, rest) /\ Given[<<fu, s>>] = Given[<<fu, rest>>]
      BY <1>14, <1>15, <2>2 DEF PacketMeans
    <3> QED BY <3>1, <3>2 DEF ReaderOK, s
  <2> QED BY <2>1, <2>2
<1> QED BY <1>1, <1>11, <1>12, <1>13, <1>16 DEF ReaderOK

LEMMA ReplyKeeps == ASSUME ReaderOK, DropReply PROVE ReaderOK'
<1> DEFINE s == Left
<1>1. buf \in Bytes /\ wire \in Bytes /\ units \in Seq(Bytes) /\ Known(fu, s)
  BY DEF ReaderOK
<1>2. buf # <<>> /\ buf[1] # Dollar /\ Heads # {} /\ Len(buf) >= ReplyEnd
  BY DEF DropReply, ReplyReady, Headed
<1>3. /\ s \in Bytes /\ Len(s) = Len(buf) + Len(wire) /\ Len(buf) \in Nat /\ Len(wire) \in Nat
      /\ \A n \in 1..Len(buf) : s[n] = buf[n]
  BY <1>1, Read DEF Left, Bytes
<1>4. Heads = {n \in 1..Len(buf) : buf[n] = HeadEnd}
  BY <1>1 DEF Heads, Bytes
<1>5. 1 \in 1..Len(buf) /\ s # <<>>
  <2>1. Len(buf) \in Nat \ {0}
    BY <1>1, <1>2, EmptySeq DEF Bytes
  <2> QED BY <1>3, <2>1
<1>6. Means(fu, s)
  BY <1>1, KnownMeans
<1>7. \E n \in DOMAIN s : s[n] = HeadEnd
  <2>1. PICK n \in 1..Len(buf) : buf[n] = HeadEnd
    BY <1>2, <1>4
  <2>2. n \in DOMAIN s
    BY <1>3 DEF Bytes
  <2> QED BY <1>3, <2>1, <2>2
<1> HIDE DEF s
<1>8. PICK h \in 2..Len(s) :
         /\ s[h] = HeadEnd /\ \A n \in 1..(h - 1) : s[n] # HeadEnd
         /\ h + s[h - 1] <= Len(s)
         /\ SaysNothing(fu, s, h + s[h - 1])
  <2>1. s[1] # Dollar
    BY <1>2, <1>3, <1>5
  <2>2. ~StrayMeans(fu, s)
    BY <1>7, Zenon DEF StrayMeans
  <2> QED BY <1>5, <1>6, <2>1, <2>2, MeansByStart, Zenon DEF ReplyMeans
<1>9. h = HeadAt /\ h \in 1..Len(buf)
  <2>1. PICK m \in 1..Len(buf) : buf[m] = HeadEnd
    BY <1>2, <1>4
  <2>2. h <= m
    BY <1>3, <1>8, <2>1
  <2>3. h \in Heads
    BY <1>3, <1>4, <1>8, <2>2
  <2>4. ASSUME NEW k \in Heads PROVE h <= k
    BY <1>3, <1>4, <1>8, <2>4
  <2>5. \A j \in Heads : (\A k \in Heads : j <= k) => j = h
    <3> SUFFICES ASSUME NEW j \in Heads, \A k \in Heads : j <= k PROVE j = h
      OBVIOUS
    <3>1. j <= h /\ h <= j /\ j \in Int /\ h \in Int
      BY <1>3, <1>4, <2>3, <2>4
    <3> QED BY <3>1
  <2> QED BY <1>4, <2>3, <2>4, <2>5 DEF HeadAt
<1> DEFINE n == h + buf[h - 1]
           rest == SubSeq(s, n + 1, Len(s))
<1>10. h - 1 \in 1..Len(buf) /\ s[h - 1] = buf[h - 1] /\ buf[h - 1] \in Nat
  <2>1. h - 1 \in 1..Len(buf)
    BY <1>3, <1>8, <1>9
  <2> QED BY <1>1, <1>3, <2>1, ElementOfSeq DEF Bytes
<1>11. n = ReplyEnd
  BY <1>9 DEF ReplyEnd
<1>12. n \in 0..Len(buf)
  BY <1>2, <1>3, <1>9, <1>10, <1>11
<1>13. rest = SubSeq(buf, n + 1, Len(buf)) \o wire
  <2> HIDE DEF n
  <2>1. SubSeq(buf, n + 1, Len(buf)) \o wire = SubSeq(buf \o wire, n + 1, Len(buf) + Len(wire))
    BY <1>1, <1>12, ReadFrom
  <2> QED BY <1>3, <2>1 DEF s, Left
<1>14. /\ buf' = SubSeq(buf, n + 1, Len(buf)) /\ wire' = wire /\ sent' = sent
       /\ fu' = fu /\ units' = units
  BY <1>11 DEF DropReply, Drained
<1>15. Left' = rest
  BY <1>13, <1>14 DEF Left
<1>16. Known(fu, rest) /\ Given[<<fu, s>>] = Given[<<fu, rest>>]
  BY <1>8, <1>10 DEF SaysNothing
<1> HIDE DEF n, rest
<1>17. buf' \in Bytes
  <2>1. n \in Nat /\ buf \in Seq(Nat)
    BY <1>1, <1>3, <1>12 DEF Bytes
  <2>2. SubSeq(buf, n + 1, Len(buf)) \in Seq(Nat)
    BY <2>1
  <2> QED BY <1>14, <2>2 DEF Bytes
<1> QED BY <1>1, <1>14, <1>15, <1>16, <1>17 DEF ReaderOK, s

LEMMA SkipKeeps == ASSUME ReaderOK, SkipByte PROVE ReaderOK'
<1> DEFINE s == Left
<1>1. buf \in Bytes /\ wire \in Bytes /\ units \in Seq(Bytes) /\ Known(fu, s)
  BY DEF ReaderOK
<1>2. buf # <<>> /\ buf[1] \notin {Dollar, Reply}
  BY DEF SkipByte, Stray
<1>3. /\ s \in Bytes /\ Len(s) = Len(buf) + Len(wire) /\ Len(buf) \in Nat \ {0} /\ Len(wire) \in Nat
      /\ \A n \in 1..Len(buf) : s[n] = buf[n]
  <2>1. Len(buf) \in Nat \ {0}
    BY <1>1, <1>2, EmptySeq DEF Bytes
  <2> QED BY <1>1, <2>1, Read DEF Left, Bytes
<1>4. s # <<>> /\ s[1] = buf[1]
  BY <1>3
<1>5. Means(fu, s)
  BY <1>1, KnownMeans
<1>6. Tail(buf) = SubSeq(buf, 1 + 1, Len(buf)) /\ Tail(s) = SubSeq(s, 1 + 1, Len(s))
  <2>1. Tail(buf) = SubSeq(buf, 2, Len(buf)) /\ Tail(s) = SubSeq(s, 2, Len(s))
    BY <1>1, <1>2, <1>3, <1>4, TailIsSubSeq DEF Bytes
  <2> QED BY <2>1
<1>7. 1 \in 0..Len(buf)
  BY <1>3
<1>8. Tail(s) = Tail(buf) \o wire
  <2>1. SubSeq(buf, 1 + 1, Len(buf)) \o wire = SubSeq(buf \o wire, 1 + 1, Len(buf) + Len(wire))
    BY <1>1, <1>7, ReadFrom
  <2> QED BY <1>3, <1>6, <2>1 DEF Left
<1> HIDE DEF s
<1>9. Known(fu, Tail(s)) /\ Given[<<fu, s>>] = Given[<<fu, Tail(s)>>]
  BY <1>2, <1>4, <1>5, MeansByStart, Zenon DEF StrayMeans
<1>10. buf' = Tail(buf) /\ wire' = wire /\ sent' = sent /\ fu' = fu /\ units' = units
  BY DEF SkipByte
<1>11. Tail(buf) \in Bytes
  BY <1>1, <1>2 DEF Bytes
<1> QED BY <1>1, <1>8, <1>9, <1>10, <1>11 DEF ReaderOK, s, Left

\* At first all is to come.
LEMMA StartKeeps == ReaderInit => ReaderOK
<1> SUFFICES ASSUME ReaderInit PROVE ReaderOK
  OBVIOUS
<1>1. PICK s \in Streams : sent = Given[<<<<>>, s>>] /\ wire = s
  BY DEF ReaderInit
<1>2. buf = <<>> /\ fu = <<>> /\ units = <<>>
  BY DEF ReaderInit
<1>3. Known(<<>>, s)
  BY GivenAssumption
<1>4. s \in Bytes /\ Given[<<<<>>, s>>] \in Seq(Bytes)
  BY <1>3, KnownMeans
<1>5. <<>> \o s = s /\ <<>> \o Given[<<<<>>, s>>] = Given[<<<<>>, s>>]
  BY <1>4, ConcatEmptySeq DEF Bytes
<1>6. <<>> \in Seq(Nat) /\ <<>> \in Seq(Bytes)
  OBVIOUS
<1> QED BY <1>1, <1>2, <1>3, <1>4, <1>5, <1>6 DEF ReaderOK, Left, Bytes

\* What was delivered begins the stream, and all of it once nothing is left.
LEMMA AllGiven == ASSUME ReaderOK PROVE UnitsInOrder
<1> DEFINE g == Given[<<fu, Left>>]
<1>1. units \in Seq(Bytes) /\ g \in Seq(Bytes) /\ sent = units \o g
  BY KnownMeans DEF ReaderOK
<1>2. IsPrefix(units, sent)
  <2> HIDE DEF g
  <2>1. Len(sent) = Len(units) + Len(g) /\ Len(units) \in Nat /\ Len(g) \in Nat /\ sent \in Seq(Bytes)
    BY <1>1
  <2>2. \A i \in 1..Len(units) : sent[i] = units[i]
    BY <1>1
  <2>3. SubSeq(units, 1, Len(units)) = SubSeq(sent, 1, Len(units))
    <3> DEFINE a == SubSeq(units, 1, Len(units))
               b == SubSeq(sent, 1, Len(units))
    <3>1. a = units
      BY <1>1, SubSeqFull
    <3>2. b \in Seq(Bytes) /\ Len(b) = Len(units) /\ \A i \in 1..Len(units) : b[i] = sent[i]
      BY <2>1
    <3> HIDE DEF a, b
    <3>3. units = b
      BY <1>1, <2>2, <3>2, SeqEqual
    <3> QED BY <3>1, <3>3 DEF a, b
  <2> QED BY <2>1, <2>3 DEF IsPrefix
<1>3. ASSUME wire = <<>>, ~FrameReady, ~ReplyReady, ~Stray PROVE units = sent
  <2>1. buf \in Seq(Nat) /\ Known(fu, Left)
    BY DEF ReaderOK, Bytes
  <2>2. Left = buf
    BY <1>3, <2>1, ConcatEmptySeq DEF Left
  <2>3. Means(fu, buf)
    BY <2>1, <2>2, KnownMeans
  <2>4. CASE buf = <<>>
    <3>1. g = <<>>
      BY <2>2, <2>3, <2>4, MeansByStart
    <3> QED BY <1>1, <3>1, ConcatEmptySeq
  <2>5. CASE buf # <<>> /\ buf[1] = Dollar
    <3>1. PICK n \in 3..Len(buf) : buf[3] = n - 3
      BY <2>3, <2>5, MeansByStart, Zenon DEF FrameMeans
    <3>2. Len(buf) >= 3 /\ Len(buf) >= 3 + buf[3]
      BY <2>1, <3>1
    <3> QED BY <1>3, <2>5, <3>2 DEF FrameReady, Framed, FrameEnd
  <2>6. CASE buf # <<>> /\ buf[1] = Reply
    <3>1. PICK h \in 2..Len(buf) :
             /\ buf[h] = HeadEnd /\ \A n \in 1..(h - 1) : buf[n] # HeadEnd
             /\ h + buf[h - 1] <= Len(buf)
      BY <2>3, <2>6, MeansByStart, Zenon DEF ReplyMeans
    <3>2. Heads = {n \in 1..Len(buf) : buf[n] = HeadEnd}
      BY <2>1 DEF Heads
    <3>3. h \in Heads /\ \A k \in Heads : h <= k
      BY <2>1, <3>1, <3>2
    <3>4. \A j \in Heads : (\A k \in Heads : j <= k) => j = h
      <4> SUFFICES ASSUME NEW j \in Heads, \A k \in Heads : j <= k PROVE j = h
        OBVIOUS
      <4>1. j <= h /\ h <= j /\ j \in Int /\ h \in Int
        BY <2>1, <3>2, <3>3
      <4> QED BY <4>1
    <3>5. HeadAt = h
      BY <3>3, <3>4 DEF HeadAt
    <3>6. Len(buf) >= ReplyEnd
      <4>1. h - 1 \in 1..Len(buf) /\ Len(buf) \in Nat /\ h \in Nat
        BY <2>1, <3>1
      <4>2. buf[h - 1] \in Nat
        BY <2>1, <4>1, ElementOfSeq
      <4> QED BY <3>1, <3>5, <4>1, <4>2 DEF ReplyEnd
    <3> QED BY <1>3, <2>6, <3>3, <3>6 DEF ReplyReady, Headed, Dollar, Reply
  <2>7. CASE buf # <<>> /\ buf[1] \notin {Dollar, Reply}
    <3>1. \A n \in DOMAIN buf : buf[n] # HeadEnd
      BY <2>3, <2>7, MeansByStart, Zenon DEF StrayMeans
    <3> QED BY <1>3, <2>7, <3>1 DEF Stray, Heads
  <2> QED BY <2>4, <2>5, <2>6, <2>7
<1> QED BY <1>2, <1>3 DEF UnitsInOrder

\* However the stream of the camera is cut into reads, the depacketizer
\* (read_interleaved, fill, H264Depay) is given its units whole and in order.
THEOREM UnitsGiven == ReaderSpec => []UnitsInOrder
<1>1. ReaderInit => ReaderOK
  BY StartKeeps
<1>2. ReaderOK /\ [ReaderNext]_reading => ReaderOK'
  <2> SUFFICES ASSUME ReaderOK, [ReaderNext]_reading PROVE ReaderOK'
    OBVIOUS
  <2>1. CASE UNCHANGED reading
    BY <2>1 DEF reading, ReaderOK, Known, Left
  <2> QED BY <2>1, FillKeeps, FrameKeeps, ReplyKeeps, SkipKeeps DEF ReaderNext
<1>3. ReaderOK => UnitsInOrder
  BY AllGiven
<1> QED BY <1>1, <1>2, <1>3, PTL DEF ReaderSpec
=============================================================================
