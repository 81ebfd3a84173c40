---------------------------- MODULE CloudSession ----------------------------
(***************************************************************************)
(* The cloud account in the config dir (elysian-protocol/src/cloud.rs) and *)
(* the threads of elysian-ui that share it.  A CloudSession is a handful   *)
(* of small files, read one by one by load_cloud_session and written one   *)
(* by one by save_cloud_session, which skips empty values and always       *)
(* writes all the others.  There is no lock: the UI thread (choosing a     *)
(* device, loading the account, opening the camera subscription) and the   *)
(* background threads (device list, cloud print, login, camera) each load  *)
(* a session, change some of its fields and save the whole.                *)
(*                                                                         *)
(* The cloud server is not part of the repository: it accepts or refuses   *)
(* any request, and a refresh it accepts issues a new token to the account *)
(* of the refresh token.                                                   *)
(***************************************************************************)
EXTENDS Integers, FiniteSets

CONSTANTS
    Accounts,      \* user ids
    Devices,       \* serials
    Stored,        \* what the files may hold when the application is first run
    UI,            \* the UI thread
    Workers,       \* slots for background threads (a bound)
    MaxTokens,     \* bound on the tokens issued
    None

Procs == Workers \cup {UI}

ASSUME UIAssumption     == UI \notin Workers
ASSUME TokensAssumption == MaxTokens \in Nat

VARIABLES
    disk,          \* the files cloud_user, cloud_token, cloud_refresh, cloud_serial
    issued,        \* number of tokens issued so far
    proc,          \* what each thread is doing
    serial,        \* App.serial: the serial shown
    selected,      \* App.selected_device: the device last chosen
    cloud_user,    \* App.cloud_user
    has_bearer,    \* App.has_bearer: a token was there when last looked
    refresh_due,   \* Task::done(RefreshDevices) is still to be handled
    camera_live,   \* App.camera_live: the camera subscription is wanted
    camera         \* the worker whose frames the subscription receives

app     == <<serial, selected, cloud_user, has_bearer, refresh_due>>
cameras == <<camera_live, camera>>
vars    == <<disk, issued, proc, app, cameras>>

-----------------------------------------------------------------------------
Tokens  == [acct : Accounts, n : 0 .. MaxTokens]
Creds   == [user : Accounts \cup {None}, token : Tokens \cup {None},
            refresh : Tokens \cup {None}]
Session == [user : Accounts \cup {None}, token : Tokens \cup {None},
            refresh : Tokens \cup {None}, serial : Devices \cup {None}]

\* No value is None, and a token issued before has the number 0.
ASSUME NoneAssumption   == None \notin Accounts \cup Devices \cup Tokens
ASSUME StoredAssumption ==
    Stored \subseteq {s \in Session : s.token = None \/ s.token.n = 0}

NoCreds   == [user |-> None, token |-> None, refresh |-> None]
NoSession == [user |-> None, token |-> None, refresh |-> None, serial |-> None]

\* The order in which load_cloud_session and save_cloud_session go.
FileAt == <<"user", "token", "refresh", "serial">>

\* A thread: what it is for, its phase, the next file of a load or a save,
\* the session it holds, the credentials its CloudApi uses, the CameraJob it was
\* started with, and whether its request succeeded.
Process == [kind  : {"idle", "apply", "account", "snapshot", "devices", "send",
                     "login", "camera"},
            phase : {"idle", "load", "net", "save", "done"},
            at    : 1 .. 5,
            copy  : Session,
            api   : Creds,
            job   : Session,
            ok    : BOOLEAN]

Idle == [kind |-> "idle", phase |-> "idle", at |-> 1, copy |-> NoSession,
         api |-> NoCreds, job |-> NoSession, ok |-> FALSE]

Begin(kind, phase) == [Idle EXCEPT !.kind = kind, !.phase = phase]
CredsOf(s)         == [user |-> s.user, token |-> s.token, refresh |-> s.refresh]

\* The session `s` with the credentials that are present in `c`.
WithCreds(s, c) ==
    [s EXCEPT !.user    = IF c.user = None THEN s.user ELSE c.user,
              !.token   = c.token,
              !.refresh = IF c.refresh = None THEN s.refresh ELSE c.refresh]

\* What a thread goes on to.
Saving(q, session)   == [q EXCEPT !.phase = "save", !.at = 1, !.copy = session]
Requesting(q, creds) == [q EXCEPT !.phase = "net", !.at = 1, !.api = creds]
Loading(q, creds, k) == [q EXCEPT !.phase = "load", !.at = 1, !.api = creds, !.ok = k]
Halted(q)            == [q EXCEPT !.at = 5, !.ok = @ /\ q.kind # "login"]
Refreshed(q, creds)  ==
    Saving([q EXCEPT !.api = creds],
           [q.copy EXCEPT !.token = creds.token, !.refresh = creds.refresh])
Done(q)              == [Begin(q.kind, "done") EXCEPT !.api = q.api]
LoginAs(a)           == [Begin("login", "net") EXCEPT !.api = [NoCreds EXCEPT !.user = a]]
CameraFor(job)       == [Begin("camera", "net") EXCEPT !.job = job, !.api = CredsOf(job)]

UIIdle == proc[UI] = Idle
Free   == {w \in Workers : proc[w] = Idle}
Running(p, kind, phase) == proc[p].kind = kind /\ proc[p].phase = phase
Loaded(p, kind)         == Running(p, kind, "load") /\ proc[p].at = 5
Saved(p, kind)          == Running(p, kind, "save") /\ proc[p].at = 5
GoOn(p, q)              == proc' = [proc EXCEPT ![p] = q]
Finish(p)               == GoOn(p, Idle)
Save(p, session)        == GoOn(p, Saving(proc[p], session))

\* App::new ends with load_account_from_disk.
Init ==
    /\ disk \in Stored
    /\ issued = 0
    /\ proc = [p \in Procs |-> IF p = UI THEN Begin("account", "load") ELSE Idle]
    /\ serial = None /\ selected = None
    /\ cloud_user = None /\ has_bearer = FALSE /\ refresh_due = FALSE
    /\ camera_live = FALSE /\ camera = None

-----------------------------------------------------------------------------
\* One file of a load, one file of a save.

ReadFile(p) ==
    /\ proc[p].phase = "load" /\ proc[p].at < 5
    /\ LET f == FileAt[proc[p].at]
       IN proc' = [proc EXCEPT ![p].copy[f] = disk[f], ![p].at = @ + 1]
    /\ UNCHANGED <<disk, issued, app, cameras>>

WriteFile(p) ==
    /\ proc[p].phase = "save" /\ proc[p].at < 5
    /\ LET f == FileAt[proc[p].at]
       IN disk' = IF proc[p].copy[f] = None THEN disk
                  ELSE [disk EXCEPT ![f] = proc[p].copy[f]]
    /\ proc' = [proc EXCEPT ![p].at = @ + 1]
    /\ UNCHANGED <<issued, app, cameras>>

\* A write fails and ends the save.  Only a login looks at the result.
SaveFails(p) ==
    /\ proc[p].phase = "save" /\ proc[p].at < 5
    /\ GoOn(p, Halted(proc[p]))
    /\ UNCHANGED <<disk, issued, app, cameras>>

-----------------------------------------------------------------------------
\* The UI thread.

\* apply_device: load, set the serial, save, before the next message.
ApplyDevice(d) ==
    /\ serial' = d /\ selected' = d
    /\ UNCHANGED <<cloud_user, has_bearer, refresh_due>>

CloudCameraReady == has_bearer /\ serial # None

\* start_live_sync, with a serial just applied, wants the camera if there is a
\* bearer.
StartLiveSync ==
    /\ camera_live' = (camera_live \/ has_bearer)
    /\ UNCHANGED camera

\* PickDevice, and Discovered with the first printer found.
PickDevice(d) ==
    /\ UIIdle
    /\ ApplyDevice(d)
    /\ StartLiveSync
    /\ GoOn(UI, Begin("apply", "load"))
    /\ UNCHANGED <<disk, issued>>

\* Message::Serial: a serial typed or cleared by hand is shown and not saved.
TypeSerial(d) ==
    /\ UIIdle
    /\ serial' = d
    /\ UNCHANGED <<disk, issued, proc, selected, cloud_user, has_bearer, refresh_due,
                   cameras>>

\* Faulty variant, for the mutation checks.
ApplyLoadedUnset ==
    /\ Loaded(UI, "apply")
    /\ Save(UI, proc[UI].copy)
    /\ UNCHANGED <<disk, issued, app, cameras>>

ApplyLoaded ==
    /\ Loaded(UI, "apply")
    /\ Save(UI, [proc[UI].copy EXCEPT !.serial = serial])
    /\ UNCHANGED <<disk, issued, app, cameras>>

ApplySaved ==
    /\ Saved(UI, "apply")
    /\ Finish(UI)
    /\ UNCHANGED <<disk, issued, app, cameras>>

\* load_account_from_disk: the user always, the serial if none is shown; then
\* apply_device with the serial shown.  At the start of the application and
\* after a login the device list is due next.
AccountLoaded ==
    /\ Loaded(UI, "account")
    /\ cloud_user' = proc[UI].copy.user
    /\ has_bearer' = (proc[UI].copy.token # None)
    /\ refresh_due' = (refresh_due \/ has_bearer')
    /\ serial' = IF serial = None THEN proc[UI].copy.serial ELSE serial
    /\ \/ serial' = None /\ Finish(UI) /\ UNCHANGED selected
       \/ /\ serial' # None
          /\ selected' = serial'
          /\ GoOn(UI, Begin("apply", "load"))
    /\ UNCHANGED <<disk, issued, cameras>>

\* Messages that start a thread.
RefreshDevices ==
    /\ UIIdle
    /\ \E w \in Free : GoOn(w, Begin("devices", "load"))
    /\ UNCHANGED <<disk, issued, app, cameras>>

RefreshDue ==
    /\ UIIdle /\ refresh_due
    /\ \E w \in Free : GoOn(w, Begin("devices", "load"))
    /\ refresh_due' = FALSE
    /\ UNCHANGED <<disk, issued, serial, selected, cloud_user, has_bearer, cameras>>

Send ==
    /\ UIIdle
    /\ \E w \in Free : GoOn(w, Begin("send", "load"))
    /\ UNCHANGED <<disk, issued, app, cameras>>

CloudLogin(a) ==
    /\ UIIdle
    /\ \E w \in Free : GoOn(w, LoginAs(a))
    /\ UNCHANGED <<disk, issued, app, cameras>>

\* DevicesLoaded(Ok): restore_bound_printer chooses the serial shown if the
\* server listed it, another of the list otherwise.
DevicesLoaded(w) ==
    /\ UIIdle /\ Running(w, "devices", "done")
    /\ \E list \in SUBSET Devices :
          \/ /\ list = {}
             /\ Finish(w)
             /\ UNCHANGED <<app, cameras>>
          \/ \E d \in list :
                /\ serial \in list => d = serial
                /\ ApplyDevice(d)
                /\ StartLiveSync
                /\ proc' = [proc EXCEPT ![w] = Idle, ![UI] = Begin("apply", "load")]
    /\ UNCHANGED <<disk, issued>>

CloudLogged(w) ==
    /\ UIIdle /\ Running(w, "login", "done")
    /\ proc' = [proc EXCEPT ![w] = Idle, ![UI] = Begin("account", "load")]
    /\ UNCHANGED <<disk, issued, app, cameras>>

\* play_camera: without an access code it calls apply_device first
\* (ensure_lan_access_code).
CameraPlay ==
    /\ UIIdle /\ serial # None
    /\ StartLiveSync
    /\ \/ UNCHANGED <<app, proc>>
       \/ /\ ApplyDevice(serial)
          /\ GoOn(UI, Begin("apply", "load"))
    /\ UNCHANGED <<disk, issued>>

CameraStop ==
    /\ UIIdle
    /\ camera_live' = FALSE
    /\ UNCHANGED <<disk, issued, proc, app, camera>>

\* subscription(), which iced calls on the UI thread after it has handled a
\* batch of messages: no camera, or load the session for a camera job.
Subscription ==
    /\ UIIdle
    /\ \/ /\ camera_live /\ CloudCameraReady
          /\ GoOn(UI, Begin("snapshot", "load"))
          /\ UNCHANGED camera
       \/ /\ ~(camera_live /\ CloudCameraReady)
          /\ camera # None
          /\ camera' = None
          /\ UNCHANGED proc
    /\ UNCHANGED <<disk, issued, app, camera_live>>

CameraJob(s) ==
    [s EXCEPT !.serial = serial,
              !.user   = IF cloud_user # None THEN cloud_user
                         ELSE IF s.user = None /\ s.token # None THEN s.token.acct
                         ELSE s.user]

\* A job unlike the running one starts a worker; the former worker only loses
\* its channel.
SnapshotLoaded ==
    /\ Loaded(UI, "snapshot")
    /\ LET job == CameraJob(proc[UI].copy)
       IN \/ /\ camera # None /\ proc[camera].job = job
             /\ Finish(UI)
             /\ UNCHANGED camera
          \/ /\ camera # None => proc[camera].job # job
             /\ \E w \in Free :
                   /\ camera' = w
                   /\ proc' = [proc EXCEPT ![UI] = Idle, ![w] = CameraFor(job)]
    /\ UNCHANGED <<disk, issued, app, camera_live>>

-----------------------------------------------------------------------------
\* The background threads.

NewToken(a) == [acct |-> a, n |-> issued + 1]

\* What with_retry may leave: the credentials as they are or, after a refresh,
\* a new token, with the refresh token kept or new too.
CredsAfter(c) ==
    {c} \cup {[c EXCEPT !.token = NewToken(c.refresh.acct), !.refresh = r] :
                 r \in IF c.refresh = None \/ issued = MaxTokens THEN {}
                       ELSE {c.refresh, NewToken(c.refresh.acct)}}

WithRetry(c, after) ==
    /\ after \in CredsAfter(c)
    /\ issued' = IF after = c THEN issued ELSE issued + 1

\* RefreshDevices and Send have loaded the session: refused without a token,
\* or (from_config_dir) an incomplete one.
JobLoaded(w) ==
    /\ Loaded(w, "devices") \/ Loaded(w, "send")
    /\ LET s == proc[w].copy
       IN \/ /\ s.token = None \/ (proc[w].kind = "send"
                                   /\ (s.user = None \/ s.serial = None))
             /\ Finish(w)
          \/ /\ s.token # None
             /\ proc[w].kind = "send" => s.user # None /\ s.serial # None
             /\ GoOn(w, Requesting(proc[w], CredsOf(s)))
    /\ UNCHANGED <<disk, issued, app, cameras>>

\* Faulty variant, for the mutation checks.
DevicesListedHalf(w) ==
    /\ Running(w, "devices", "net")
    /\ \E c \in CredsAfter(proc[w].api) :
          /\ WithRetry(proc[w].api, c)
          /\ GoOn(w, IF c.token = proc[w].copy.token THEN Done(proc[w])
                     ELSE Saving([proc[w] EXCEPT !.api = c],
                                 [proc[w].copy EXCEPT !.token = c.token]))
    /\ UNCHANGED <<disk, app, cameras>>

\* The device list: the clone of the session is saved if the token changed.
DevicesListed(w) ==
    /\ Running(w, "devices", "net")
    /\ \E c \in CredsAfter(proc[w].api) :
          /\ WithRetry(proc[w].api, c)
          /\ GoOn(w, IF c.token = proc[w].copy.token THEN Done(proc[w])
                     ELSE Refreshed(proc[w], c))
    /\ UNCHANGED <<disk, app, cameras>>

DevicesSaved(w) ==
    /\ Saved(w, "devices")
    /\ GoOn(w, Done(proc[w]))
    /\ UNCHANGED <<disk, issued, app, cameras>>

\* start_print has uploaded: the clone is saved whether it changed or not.
Uploaded(w) ==
    /\ Running(w, "send", "net")
    /\ \E c \in CredsAfter(proc[w].api) :
          /\ WithRetry(proc[w].api, c)
          /\ GoOn(w, Refreshed(proc[w], c))
    /\ UNCHANGED <<disk, app, cameras>>

\* The project_file command goes out to the session's serial, and Sent.
Published(w) ==
    /\ Saved(w, "send")
    /\ Finish(w)
    /\ UNCHANGED <<disk, issued, app, cameras>>

\* Tokens of a login: refresh token and user id may be missing.
LoggedIn(w) ==
    /\ Running(w, "login", "net") /\ issued < MaxTokens
    /\ issued' = issued + 1
    /\ LET a == proc[w].api.user
       IN \E r \in {None, NewToken(a)}, u \in {None, a} :
             GoOn(w, Loading(proc[w], [user |-> u, token |-> NewToken(a),
                                       refresh |-> r], TRUE))
    /\ UNCHANGED <<disk, app, cameras>>

\* Faulty variant, for the mutation checks.
LoginLoadedUserKept(w) ==
    /\ Loaded(w, "login")
    /\ Save(w, WithCreds(proc[w].copy, [proc[w].api EXCEPT !.user = None]))
    /\ UNCHANGED <<disk, issued, app, cameras>>

\* Faulty variant, for the mutation checks.
LoginLoadedSwapped(w) ==
    /\ Loaded(w, "login")
    /\ Save(w, [WithCreds(proc[w].copy, proc[w].api) EXCEPT !.user = proc[w].api.refresh])
    /\ UNCHANGED <<disk, issued, app, cameras>>

\* store_login_tokens, and the same steps in CloudLogin.
LoginLoaded(w) ==
    /\ Loaded(w, "login")
    /\ Save(w, WithCreds(proc[w].copy, proc[w].api))
    /\ UNCHANGED <<disk, issued, app, cameras>>

LoginSaved(w) ==
    /\ Saved(w, "login")
    /\ GoOn(w, IF proc[w].ok THEN Done(proc[w]) ELSE Idle)
    /\ UNCHANGED <<disk, issued, app, cameras>>

\* A request of RefreshDevices, Send or CloudLogin fails: nothing is saved, not
\* even tokens the retry has refreshed on the way.
RequestFails(w) ==
    /\ proc[w].kind \in {"devices", "send", "login"} /\ proc[w].phase = "net"
    /\ Finish(w)
    /\ UNCHANGED <<disk, issued, app, cameras>>

\* cloud_tutk_loop: mint credentials, stream until the channel or the stream
\* ends, or fail; either way persist_refreshed_cloud, which (the job's user id
\* is u_<digits> and the CloudApi's <digits>) goes on whenever there is a user.
CameraStreamed(w) ==
    /\ Running(w, "camera", "net")
    /\ \E c \in CredsAfter(proc[w].api), ok \in BOOLEAN :
          /\ WithRetry(proc[w].api, c)
          /\ GoOn(w, Loading(proc[w], c, ok))
    /\ UNCHANGED <<disk, app, cameras>>

CameraLoaded(w) ==
    /\ Loaded(w, "camera")
    /\ Save(w, WithCreds(proc[w].copy, proc[w].api))
    /\ UNCHANGED <<disk, issued, app, cameras>>

\* Retry with the job's own credentials; only an error that finds its channel
\* closed stops the worker.
CameraSaved(w, ok) ==
    /\ Saved(w, "camera")
    /\ ok = proc[w].ok
    /\ GoOn(w, IF ~ok /\ camera # w THEN Idle ELSE CameraFor(proc[w].job))
    /\ UNCHANGED <<disk, issued, app, cameras>>

-----------------------------------------------------------------------------
\* The application ends at any moment, with all its threads, and is started
\* again.
Restart ==
    /\ proc' = [p \in Procs |-> IF p = UI THEN Begin("account", "load") ELSE Idle]
    /\ serial' = None /\ selected' = None
    /\ cloud_user' = None /\ has_bearer' = FALSE /\ refresh_due' = FALSE
    /\ camera_live' = FALSE /\ camera' = None
    /\ UNCHANGED <<disk, issued>>

-----------------------------------------------------------------------------
Requests ==
    \/ \E d \in Devices : PickDevice(d)
    \/ \E d \in Devices \cup {None} : TypeSerial(d)
    \/ \E a \in Accounts : CloudLogin(a)
    \/ RefreshDevices \/ Send \/ CameraPlay \/ CameraStop \/ Restart

Background ==
    \/ \E p \in Procs : ReadFile(p) \/ WriteFile(p) \/ SaveFails(p)
    \/ ApplyLoaded \/ ApplySaved \/ AccountLoaded
    \/ RefreshDue \/ Subscription \/ SnapshotLoaded
    \/ \E w \in Workers :
          \/ DevicesLoaded(w) \/ CloudLogged(w) \/ JobLoaded(w)
          \/ DevicesListed(w) \/ DevicesSaved(w) \/ Uploaded(w) \/ Published(w)
          \/ LoggedIn(w) \/ LoginLoaded(w) \/ LoginSaved(w) \/ RequestFails(w)
          \/ CameraLoaded(w)
          \/ \E ok \in BOOLEAN : CameraSaved(w, ok)

Streams == \E w \in Workers : CameraStreamed(w)

Next == Requests \/ Background \/ Streams

Spec == Init /\ [][Next]_vars

-----------------------------------------------------------------------------
(***************************************************************************)
(* Properties.                                                             *)
(***************************************************************************)

TypeOK ==
    /\ disk \in Session
    /\ issued \in 0 .. MaxTokens
    /\ proc \in [Procs -> Process]
    /\ serial \in Devices \cup {None}
    /\ selected \in Devices \cup {None}
    /\ cloud_user \in Accounts \cup {None}
    /\ has_bearer \in BOOLEAN
    /\ refresh_due \in BOOLEAN
    /\ camera_live \in BOOLEAN
    /\ camera \in Workers \cup {None}

\* cloud_serial, which says where a cloud print goes, is the device last
\* chosen, unless apply_device is still at work on it.
SerialStored ==
    selected # None /\ (proc[UI].kind = "apply" => Saved(UI, "apply"))
        => disk.serial = selected

\* The stored serial stops being the device last chosen only when a background
\* thread writes back an older one or a write of the UI fails: never by the
\* UI's own steps, however they interleave with loads, saves and logins.
SerialLostOnlyByWriteBack ==
    [][SerialStored /\ ~SerialStored'
         => \/ SaveFails(UI) /\ ~WriteFile(UI)
            \/ \E w \in Workers : WriteFile(w)]_vars

\* The UI stores a login as "logged in (token stored, not shown)" (lib.rs:1506):
\* afterwards only another login changes the account of the token.
LoginKept ==
    [][disk.token # None /\ disk'.token.acct # disk.token.acct
         => \E w \in Workers : proc[w].kind = "login" /\ WriteFile(w)]_vars
=============================================================================
