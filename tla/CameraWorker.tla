----------------------------- MODULE CameraWorker -----------------------------
(***************************************************************************)
(* The live camera of the studio (crates/elysian-ui/src/monitor.rs and     *)
(* lib.rs).  While the camera is on, the UI subscribes to the frames of a  *)
(* job: the address of the printer, the firmware it has reported, and the  *)
(* token of the stored session.  Another job is another subscription: the  *)
(* channel of the old one is dropped and a new worker thread begins, but   *)
(* the old thread is never joined and only learns that its channel is      *)
(* closed when it sends.  A worker tries the LAN streams and the cloud in  *)
(* turn for ever.  Printers, cloud and subscriptions are external.         *)
(***************************************************************************)
EXTENDS FiniteSets, Integers, Sequences

CONSTANTS
    Workers,        \* slots for worker threads
    Places,         \* addresses the camera may be pointed at
    Lan, Cloud,     \* those with host and access code, with serial and token
    None,           \* no worker, no address
    Capacity,       \* of the channel from a worker to the UI
    MaxChanges,     \* bound on what the user and the status change
    MaxTokens       \* bound on the tokens of the session

ASSUME Reachable == Places = Lan \cup Cloud
ASSUME NoneIsNone == None \notin Workers /\ None \notin Places
ASSUME CameraBounds == Capacity \in Nat \ {0} /\ MaxChanges \in Nat /\ MaxTokens \in Nat

VARIABLES
    live,       \* camera_live
    place,      \* the address typed or picked
    versioned,  \* has the status told the firmware?
    cur, sub,   \* the worker subscribed to, and its job
    worker,     \* what each worker thread is doing
    queue,      \* the channel of the worker subscribed to
    picture,    \* where the picture shown was taken
    shot,       \* the address of a single picture asked for, or None
    disk,       \* the token of the stored session
    issued,     \* the newest token
    expired,    \* tokens that are no longer accepted
    spent,      \* tokens that were exchanged for a new one
    changes     \* counts what user and status change

user == <<live, place, versioned>>
view == <<picture, shot>>
tokens == <<disk, issued, expired, spent>>
vars == <<user, cur, sub, worker, queue, view, tokens, changes>>

Tokens == 0 .. MaxTokens
Jobs == [place : Places, versioned : BOOLEAN, token : Tokens]
NoJob == [place |-> None, versioned |-> FALSE, token |-> 0]

\* "lan": the top of the loop; "jpeg", "rtsps": the LAN streams; "mint", "cloud": the cloud
\* stream; "pause": the sleep before the next turn.
Phases == {"lan", "jpeg", "rtsps", "mint", "cloud", "pause", "ended"}

\* api: the token the cloud client of this turn holds.
Thread == [phase : Phases, place : Places \cup {None}, token : Tokens, api : Tokens]

Ended == [phase |-> "ended", place |-> None, token |-> 0, api |-> 0]

Alive(w) == worker[w].phase # "ended"

-----------------------------------------------------------------------------
(* The subscription                                                          *)

\* Faulty variant, for the mutation checks.
CameraJobFirstToken(p, v, t) == [place |-> p, versioned |-> v, token |-> 0]

\* camera_job, hashed by the subscription.
CameraJob(p, v, t) == [place |-> p, versioned |-> v, token |-> t]

\* camera_live and camera_job_ready.
Wanted == IF live /\ place # None THEN CameraJob(place, versioned, disk) ELSE NoJob

\* After every message the UI subscribes to the job it wants: camera_frames starts a thread.
FreeSlots == {w \in Workers : ~Alive(w)}

Subscribe(rest) ==
    IF Wanted' = sub
    THEN UNCHANGED <<cur, sub, worker>> /\ queue' = rest
    ELSE /\ sub' = Wanted'
         /\ queue' = <<>>
         /\ IF sub' = NoJob THEN cur' = None /\ worker' = worker
            ELSE /\ FreeSlots # {}
                 /\ cur' = CHOOSE w \in FreeSlots : TRUE
                 /\ worker' = [worker EXCEPT ![cur'] =
                        [phase |-> "lan", place |-> sub'.place,
                         token |-> sub'.token, api |-> sub'.token]]

Resubscribe == Subscribe(queue)

Change ==
    /\ changes < MaxChanges
    /\ changes' = changes + 1
    /\ UNCHANGED tokens

-----------------------------------------------------------------------------
(* The user and the status                                                   *)

\* CameraPlay, start_live_sync.
Play ==
    /\ ~live /\ place # None
    /\ live' = TRUE
    /\ UNCHANGED <<place, versioned, view>>
    /\ Change
    /\ Resubscribe

\* CameraStop: the picture stays.
Stop ==
    /\ live
    /\ live' = FALSE
    /\ UNCHANGED <<place, versioned, view>>
    /\ Change
    /\ Resubscribe

\* The address is moved; picture and firmware of the printer before stay.
Point(p) ==
    /\ p # place
    /\ place' = p
    /\ UNCHANGED <<live, versioned, view>>
    /\ Change
    /\ Resubscribe

\* Status(Ok) with a firmware version.
Version ==
    /\ ~versioned
    /\ versioned' = TRUE
    /\ UNCHANGED <<live, place, view>>
    /\ Change
    /\ Resubscribe

\* Any other message: the timer, the mouse.
OtherMessage ==
    /\ Wanted # sub
    /\ UNCHANGED <<user, view, tokens, changes>>
    /\ Resubscribe

\* Chamber: one picture, by a thread of its own, unless the camera is on.
Chamber ==
    /\ ~live /\ place \in Lan /\ shot = None
    /\ shot' = place
    /\ UNCHANGED <<user, picture>>
    /\ Change
    /\ Resubscribe

\* Faulty variant, for the mutation checks.
ShowFrameFirst(p) == picture' = IF picture = None THEN p ELSE picture

\* ChamberShot: a frame, an error, or the address of a stream that cannot be decoded.
ShowFrame(p) == picture' = p

ShowError == UNCHANGED picture
ShowAddress == picture' = None

ChamberDone ==
    /\ shot # None
    /\ shot' = None
    /\ ShowFrame(shot) \/ ShowError \/ ShowAddress
    /\ UNCHANGED <<user, tokens, changes>>
    /\ Resubscribe

\* ChamberShot of the worker subscribed to.
TakeFrame ==
    /\ queue # <<>> /\ Head(queue) = "frame"
    /\ ShowFrame(worker[cur].place)
    /\ UNCHANGED <<user, shot, tokens, changes>>
    /\ Subscribe(Tail(queue))

TakeError ==
    /\ queue # <<>> /\ Head(queue) = "error"
    /\ ShowError
    /\ UNCHANGED <<user, shot, tokens, changes>>
    /\ Subscribe(Tail(queue))

UserStep ==
    \/ Play \/ Stop \/ Version \/ OtherMessage \/ Chamber \/ ChamberDone
    \/ \E p \in Places : Point(p)

Take == TakeFrame \/ TakeError

-----------------------------------------------------------------------------
(* The worker                                                                *)

Open(w) == cur = w

\* Faulty variant, for the mutation checks.
EmitUnbounded(w, msg) == queue' = IF Open(w) THEN Append(queue, msg) ELSE queue

\* emit_latest: a full channel drops the new message and counts as sent.
Emit(w, msg) ==
    queue' = IF Open(w) /\ Len(queue) < Capacity THEN Append(queue, msg) ELSE queue

\* The client of a turn, with its token, ends with its cloud stream.
Goes(w, phase) == worker' = [worker EXCEPT ![w].phase = phase, ![w].api = worker[w].token]

Returns(w) == worker' = [worker EXCEPT ![w] = Ended]

AtHome == UNCHANGED <<user, cur, sub, view, changes>>
Kept == AtHome /\ UNCHANGED tokens
Silent == Kept /\ UNCHANGED queue

\* Faulty variant, for the mutation checks.
AfterLanGoesOn(w) ==
    IF worker[w].place \in Cloud THEN Goes(w, "mint") /\ UNCHANGED queue
    ELSE Emit(w, "error") /\ Goes(w, "pause")

\* The LAN streams are over for this turn: the cloud is next, or the error.
AfterLan(w) ==
    IF worker[w].place \in Cloud THEN Goes(w, "mint") /\ UNCHANGED queue
    ELSE /\ Emit(w, "error")
         /\ IF Open(w) THEN Goes(w, "pause") ELSE Returns(w)

\* JpegStream::connect; without host and code the turn begins with the cloud.
Begin(w) ==
    /\ worker[w].phase = "lan"
    /\ IF worker[w].place \in Lan THEN Goes(w, "jpeg") \/ Goes(w, "rtsps") ELSE Goes(w, "mint")
    /\ Silent

JpegFrame(w) ==
    /\ worker[w].phase = "jpeg"
    /\ Emit(w, "frame")
    /\ IF Open(w) THEN UNCHANGED worker ELSE Returns(w)
    /\ Kept

\* A picture that cannot be decoded: told, and the LAN streams are over.
JpegUndecoded(w) ==
    /\ worker[w].phase = "jpeg"
    /\ IF ~Open(w) THEN Returns(w) /\ UNCHANGED queue
       ELSE \/ /\ worker[w].place \in Cloud
               /\ Emit(w, "error") /\ Goes(w, "mint")
            \/ /\ worker[w].place \notin Cloud   \* and the error of AfterLan
               /\ queue' = LET one == IF Len(queue) < Capacity THEN Append(queue, "error")
                                      ELSE queue
                           IN IF Len(one) < Capacity THEN Append(one, "error") ELSE one
               /\ Goes(w, "pause")
    /\ Kept

\* The stream breaks off, and RTSPS is not tried in this turn.
JpegBroken(w) ==
    /\ worker[w].phase = "jpeg"
    /\ AfterLan(w)
    /\ Kept

\* stream_rtsps_frames returns Ok only when a frame could not be sent.
RtspsFrame(w) ==
    /\ worker[w].phase = "rtsps"
    /\ Emit(w, "frame")
    /\ IF Open(w) THEN UNCHANGED worker ELSE Returns(w)
    /\ Kept

\* Faulty variant, for the mutation checks.
RtspsFailsReturning(w) ==
    /\ worker[w].phase = "rtsps"
    /\ Returns(w)
    /\ Silent

RtspsFails(w) ==
    /\ worker[w].phase = "rtsps"
    /\ AfterLan(w)
    /\ Kept

\* The client of a turn is made anew from the job.
JobToken(w, t) == t = worker[w].token /\ UNCHANGED <<issued, spent>>

\* refresh, by with_retry: a token that is refused is exchanged once.
Refresh(w, t) ==
    /\ worker[w].token \in expired \ spent
    /\ issued < MaxTokens /\ issued' = issued + 1
    /\ spent' = spent \cup {worker[w].token}
    /\ t = issued'

\* The camera's address is got, with the token of the job or with a new one.
Mint(w) ==
    /\ worker[w].phase = "mint"
    /\ \E t \in Tokens :
          /\ (JobToken(w, t) /\ t \notin expired) \/ Refresh(w, t)
          /\ worker' = [worker EXCEPT ![w].phase = "cloud", ![w].api = t]
    /\ UNCHANGED <<disk, expired, queue>>
    /\ AtHome

\* persist_refreshed_cloud, whatever came of the turn: the id of the user, u_<digits> in the
\* job, is <digits> in the client, so a token that was not exchanged is stored as well.
PersistRefreshed(t) == disk' = t

\* Faulty variant, for the mutation checks.
MintFailsGoesOn(w) ==
    /\ worker[w].phase = "mint"
    /\ Emit(w, "error")
    /\ Goes(w, "pause")
    /\ \E t \in Tokens : (JobToken(w, t) \/ Refresh(w, t)) /\ PersistRefreshed(t)
    /\ UNCHANGED expired
    /\ AtHome

\* The service refuses: the token, the refresh, the second attempt, the printer, or too
\* many requests.
MintFails(w) ==
    /\ worker[w].phase = "mint"
    /\ Emit(w, "error")
    /\ IF Open(w) THEN Goes(w, "pause") ELSE Returns(w)
    /\ \E t \in Tokens : (JobToken(w, t) \/ Refresh(w, t)) /\ PersistRefreshed(t)
    /\ UNCHANGED expired
    /\ AtHome

CloudOver(w) ==
    PersistRefreshed(worker[w].api) /\ UNCHANGED <<issued, expired, spent>> /\ AtHome

\* A frame that cannot be sent ends the stream with Ok, which is tried again.
CloudFrame(w) ==
    /\ worker[w].phase = "cloud"
    /\ IF Open(w) THEN Emit(w, "frame") /\ UNCHANGED worker /\ Kept
       ELSE Goes(w, "pause") /\ UNCHANGED queue /\ CloudOver(w)

\* subscribe_edge leaves after 8 s with Ok if it saw any datagram, also without a frame.
CloudLeaves(w) ==
    /\ worker[w].phase = "cloud"
    /\ Goes(w, "pause")
    /\ UNCHANGED queue
    /\ CloudOver(w)

CloudFails(w) ==
    /\ worker[w].phase = "cloud"
    /\ Emit(w, "error")
    /\ IF Open(w) THEN Goes(w, "pause") ELSE Returns(w)
    /\ CloudOver(w)

Pause(w) ==
    /\ worker[w].phase = "pause"
    /\ Goes(w, "lan")
    /\ Silent

WorkerStep(w) ==
    \/ Begin(w) \/ JpegFrame(w) \/ JpegUndecoded(w) \/ JpegBroken(w)
    \/ RtspsFrame(w) \/ RtspsFails(w) \/ Mint(w) \/ MintFails(w)
    \/ CloudFrame(w) \/ CloudLeaves(w) \/ CloudFails(w) \/ Pause(w)

\* The cloud no longer accepts a token.
Expire(t) ==
    /\ t <= issued /\ t \notin expired /\ t < MaxTokens
    /\ expired' = expired \cup {t}
    /\ UNCHANGED <<user, cur, sub, worker, queue, view, disk, issued, spent, changes>>

-----------------------------------------------------------------------------
(* The specification                                                         *)

Init ==
    /\ live = FALSE /\ place \in Places \cup {None} /\ versioned = FALSE
    /\ cur = None /\ sub = NoJob
    /\ worker = [w \in Workers |-> Ended]
    /\ queue = <<>>
    /\ picture = None /\ shot = None
    /\ disk = 0 /\ issued = 0 /\ expired = {} /\ spent = {}
    /\ changes = 0

Next ==
    \/ UserStep
    \/ Take
    \/ \E w \in Workers : WorkerStep(w)
    \/ \E t \in Tokens : Expire(t)

\* Threads run, every wait in a stream has a deadline, and the UI takes its messages.
Fairness ==
    /\ \A w \in Workers : WF_vars(WorkerStep(w))
    /\ WF_vars(Take)

Spec == Init /\ [][Next]_vars

FairSpec == Spec /\ Fairness

-----------------------------------------------------------------------------
(* Properties                                                                *)

\* The variables have the types of App's fields and of the worker's locals.
TypeOK ==
    /\ live \in BOOLEAN /\ place \in Places \cup {None} /\ versioned \in BOOLEAN
    /\ cur \in Workers \cup {None} /\ sub \in Jobs \cup {NoJob}
    /\ worker \in [Workers -> Thread]
    /\ queue \in Seq({"frame", "error"}) /\ Len(queue) <= Capacity
    /\ picture \in Places \cup {None} /\ shot \in Places \cup {None}
    /\ disk \in Tokens /\ issued \in Tokens
    /\ expired \in SUBSET Tokens /\ spent \in SUBSET Tokens
    /\ changes \in 0 .. MaxChanges

\* The worker subscribed to has not returned, and works at its job: the UI subscribes once
\* to a job, so a camera whose worker has returned stays dark for good.
CurrentServes ==
    cur # None => /\ Alive(cur)
                  /\ worker[cur].place = sub.place /\ worker[cur].token = sub.token

\* A worker that is subscribed to for the job that is wanted never stores a token older than
\* the one on disk: only a worker that was abandoned does, or is about to be.
TokenBackOnlyByAbandoned ==
    [][disk' < disk =>
          \E w \in Workers : worker'[w] # worker[w] /\ (Open(w) => Wanted # sub)]_vars

\* An abandoned worker that has only LAN streams ends.
AbandonedLanEnds ==
    \A w \in Workers :
        (Alive(w) /\ ~Open(w) /\ worker[w].place \notin Cloud) ~> ~Alive(w)

\* An abandoned worker of the cloud ends once its token has been refused and exchanged.
AbandonedCloudEnds ==
    \A w \in Workers :
        (Alive(w) /\ ~Open(w) /\ worker[w].token \in spent) ~> ~Alive(w)

\* If the camera stays on at one address and frames keep coming, the picture comes to be
\* of that address and stays so: no late answer and no older worker puts another there.
PictureSettles ==
    \A p \in Places :
        (<>[](live /\ place = p) /\ []<><<TakeFrame>>_vars) => <>[](picture \in {p, None})

=============================================================================
