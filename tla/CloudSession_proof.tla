------------------------- MODULE CloudSession_proof -------------------------
(***************************************************************************)
(* Theorems about CloudSession, for any accounts, devices, number of       *)
(* threads and of tokens.  ApplyKept strengthens the claim about the       *)
(* stored serial: while apply_device is at work on the UI thread, the      *)
(* serial shown is the device last chosen, and its save carries that one.  *)
(* Sequential strengthens SequentialUse, the claim about threads that take *)
(* turns at the files: what a thread has read is on disk, what it has yet  *)
(* to write is expected, and a token not yet saved is in no camera's job.  *)
(***************************************************************************)
EXTENDS MCCloudSession, TLAPS

\* A login asks for the tokens of an account.
LoginNamed ==
    \A w \in Workers : Running(w, "login", "net") => proc[w].api.user \in Accounts

ApplyKept ==
    /\ proc[UI].kind = "apply" => serial = selected /\ serial # None
    /\ proc[UI].phase = "save" => /\ proc[UI].kind = "apply"
                                  /\ proc[UI].copy.serial = selected

-----------------------------------------------------------------------------
\* Records a thread may hold.

\* What a thread starts as is a Process (Begin, Idle, Done).
LEMMA FreshProcess ==
    ASSUME NEW kind \in {"idle", "apply", "account", "snapshot", "devices",
                         "send", "login", "camera"},
           NEW phase \in {"idle", "load", "net", "save", "done"}
    PROVE  /\ Idle \in Process
           /\ Begin(kind, phase) \in Process
<1>1. NoSession \in Session /\ NoCreds \in Creds
  BY DEF NoSession, NoCreds, Session, Creds
<1>2. Idle \in Process
  BY <1>1 DEF Idle, Process
<1>3. Begin(kind, phase) \in Process
  BY <1>2 DEF Begin, Process
<1> QED
  BY <1>2, <1>3

\* The credentials of a session are credentials.
LEMMA CredsOfSession ==
    ASSUME NEW s \in Session
    PROVE  CredsOf(s) \in Creds
BY DEF Session, Creds, CredsOf

\* Credentials that are present fit into a session (store_login_tokens,
\* persist_refreshed_cloud).
LEMMA SessionWithCreds ==
    ASSUME NEW s \in Session, NEW c \in Creds
    PROVE  WithCreds(s, c) \in Session
BY DEF Session, Creds, WithCreds

\* A token issued now to an account is a token.
LEMMA TokenIssued ==
    ASSUME NEW a \in Accounts, issued \in 0 .. MaxTokens, issued < MaxTokens
    PROVE  NewToken(a) \in Tokens /\ issued + 1 \in 0 .. MaxTokens
BY TokensAssumption DEF NewToken, Tokens

\* The credentials after with_retry are credentials, and the count of tokens
\* stays within its bound.
LEMMA RetriedCreds ==
    ASSUME NEW c \in Creds, NEW after, issued \in 0 .. MaxTokens,
           WithRetry(c, after)
    PROVE  after \in Creds /\ issued' \in 0 .. MaxTokens
<1>1. CASE after = c
  BY <1>1 DEF WithRetry
<1>2. CASE after # c
  <2>1. PICK r \in IF c.refresh = None \/ issued = MaxTokens THEN {}
                   ELSE {c.refresh, NewToken(c.refresh.acct)} :
          after = [c EXCEPT !.token = NewToken(c.refresh.acct), !.refresh = r]
    BY <1>2 DEF WithRetry, CredsAfter
  <2>2. c.refresh # None /\ issued # MaxTokens
    BY <2>1
  <2>3. c.refresh \in Tokens
    BY <2>2 DEF Creds
  <2>4. c.refresh.acct \in Accounts
    BY <2>3 DEF Tokens
  <2>5. issued < MaxTokens
    BY <2>2, TokensAssumption
  <2>6. NewToken(c.refresh.acct) \in Tokens /\ issued + 1 \in 0 .. MaxTokens
    BY <2>4, <2>5, TokenIssued
  <2>7. issued' = issued + 1
    BY <1>2 DEF WithRetry
  <2> QED
    BY <2>1, <2>3, <2>6, <2>7 DEF Creds
<1> QED
  BY <1>1, <1>2

\* One file of a load leaves a session.
LEMMA FileRead ==
    ASSUME NEW q \in Process, q.phase = "load", q.at < 5, NEW s \in Session
    PROVE  [q EXCEPT !.copy[FileAt[q.at]] = s[FileAt[q.at]], !.at = @ + 1] \in Process
<1> DEFINE f == FileAt[q.at]
<1>1. q.at \in 1 .. 4
  BY DEF Process
<1>2. f \in {"user", "token", "refresh", "serial"}
  BY <1>1 DEF FileAt
<1>3. [q.copy EXCEPT ![f] = s[f]] \in Session
  <2>1. CASE f = "user"
    BY <2>1 DEF Process, Session
  <2>2. CASE f = "token"
    BY <2>2 DEF Process, Session
  <2>3. CASE f = "refresh"
    BY <2>3 DEF Process, Session
  <2>4. CASE f = "serial"
    BY <2>4 DEF Process, Session
  <2> QED
    BY <1>2, <2>1, <2>2, <2>3, <2>4
<1>4. q.at + 1 \in 1 .. 5
  BY <1>1
<1>5. [q EXCEPT !.copy[f] = s[f], !.at = @ + 1]
        = [q EXCEPT !.copy = [q.copy EXCEPT ![f] = s[f]], !.at = q.at + 1]
  BY DEF Process
<1>6. \A d \in Session, n \in 1 .. 5 : [q EXCEPT !.copy = d, !.at = n] \in Process
  BY DEF Process
<1>7. [q EXCEPT !.copy = [q.copy EXCEPT ![f] = s[f]], !.at = q.at + 1] \in Process
  BY <1>3, <1>4, <1>6
<1> QED
  BY <1>5, <1>7

\* One file of a save leaves a session on disk.
LEMMA FileWritten ==
    ASSUME NEW q \in Process, q.at \in 1 .. 4, NEW s \in Session
    PROVE  [s EXCEPT ![FileAt[q.at]] = q.copy[FileAt[q.at]]] \in Session
<1> DEFINE f == FileAt[q.at]
<1>1. f \in {"user", "token", "refresh", "serial"}
  BY DEF FileAt
<1>2. CASE f = "user"
  BY <1>2 DEF Process, Session
<1>3. CASE f = "token"
  BY <1>3 DEF Process, Session
<1>4. CASE f = "refresh"
  BY <1>4 DEF Process, Session
<1>5. CASE f = "serial"
  BY <1>5 DEF Process, Session
<1> QED
  BY <1>1, <1>2, <1>3, <1>4, <1>5

-----------------------------------------------------------------------------
\* What a thread goes on to is a thread.

LEMMA SavingProcess ==
    ASSUME NEW q \in Process, NEW s \in Session
    PROVE  Saving(q, s) \in Process
<1> DEFINE phase == "save"  at == 1
<1>1. phase \in {"idle", "load", "net", "save", "done"} /\ at \in 1 .. 5
  OBVIOUS
<1> HIDE DEF phase, at
<1>2. [q EXCEPT !.phase = phase, !.at = at, !.copy = s] \in Process
  BY <1>1 DEF Process
<1> QED
  BY <1>2 DEF Saving, phase, at

LEMMA RequestingProcess ==
    ASSUME NEW q \in Process, NEW c \in Creds
    PROVE  Requesting(q, c) \in Process
<1> DEFINE phase == "net"  at == 1
<1>1. phase \in {"idle", "load", "net", "save", "done"} /\ at \in 1 .. 5
  OBVIOUS
<1> HIDE DEF phase, at
<1>2. [q EXCEPT !.phase = phase, !.at = at, !.api = c] \in Process
  BY <1>1 DEF Process
<1> QED
  BY <1>2 DEF Requesting, phase, at

LEMMA LoadingProcess ==
    ASSUME NEW q \in Process, NEW c \in Creds, NEW k \in BOOLEAN
    PROVE  Loading(q, c, k) \in Process
<1> DEFINE phase == "load"  at == 1
<1>1. phase \in {"idle", "load", "net", "save", "done"} /\ at \in 1 .. 5
  OBVIOUS
<1> HIDE DEF phase, at
<1>2. [q EXCEPT !.phase = phase, !.at = at, !.api = c, !.ok = k] \in Process
  BY <1>1 DEF Process
<1> QED
  BY <1>2 DEF Loading, phase, at

LEMMA HaltedProcess ==
    ASSUME NEW q \in Process
    PROVE  Halted(q) \in Process
<1> DEFINE at == 5  ok == q.ok /\ q.kind # "login"
<1>1. at \in 1 .. 5 /\ ok \in BOOLEAN
  OBVIOUS
<1> HIDE DEF at, ok
<1>2. [q EXCEPT !.at = at, !.ok = ok] \in Process
  BY <1>1 DEF Process
<1>3. [q EXCEPT !.at = 5, !.ok = @ /\ q.kind # "login"]
        = [q EXCEPT !.at = at, !.ok = ok]
  BY DEF at, ok, Process
<1> QED
  BY <1>2, <1>3 DEF Halted

LEMMA RefreshedProcess ==
    ASSUME NEW q \in Process, NEW c \in Creds
    PROVE  Refreshed(q, c) \in Process
<1>1. [q EXCEPT !.api = c] \in Process
  BY DEF Process
<1>2. [q.copy EXCEPT !.token = c.token, !.refresh = c.refresh] \in Session
  BY DEF Process, Session, Creds
<1> QED
  BY <1>1, <1>2, SavingProcess DEF Refreshed

LEMMA DoneProcess ==
    ASSUME NEW q \in Process
    PROVE  Done(q) \in Process
<1> DEFINE b == Begin(q.kind, "done")
<1>1. b \in Process /\ q.api \in Creds
  BY FreshProcess DEF Process
<1> HIDE DEF b
<1>2. [b EXCEPT !.api = q.api] \in Process
  BY <1>1 DEF Process
<1> QED
  BY <1>2 DEF Done, b

LEMMA LoginProcess ==
    ASSUME NEW a \in Accounts
    PROVE  LoginAs(a) \in Process
<1> DEFINE b == Begin("login", "net")
<1>1. b \in Process
  BY FreshProcess
<1>2. [NoCreds EXCEPT !.user = a] \in Creds
  BY DEF NoCreds, Creds
<1> HIDE DEF b
<1>3. \A c \in Creds : [b EXCEPT !.api = c] \in Process
  BY <1>1 DEF Process
<1>4. [b EXCEPT !.api = [NoCreds EXCEPT !.user = a]] \in Process
  BY <1>2, <1>3
<1> QED
  BY <1>4 DEF LoginAs, b

LEMMA CameraProcess ==
    ASSUME NEW job \in Session
    PROVE  CameraFor(job) \in Process
<1> DEFINE b == Begin("camera", "net")
<1>1. b \in Process /\ CredsOf(job) \in Creds
  BY FreshProcess, CredsOfSession
<1> HIDE DEF b
<1>2. \A c \in Creds : [b EXCEPT !.job = job, !.api = c] \in Process
  BY <1>1 DEF Process
<1>3. [b EXCEPT !.job = job, !.api = CredsOf(job)] \in Process
  BY <1>1, <1>2
<1> QED
  BY <1>3 DEF CameraFor, b

\* A thread is the record of its fields.
LEMMA FieldsOf ==
    ASSUME NEW q \in Process
    PROVE  /\ q = [kind |-> q.kind, phase |-> q.phase, at |-> q.at, copy |-> q.copy,
                   api |-> q.api, job |-> q.job, ok |-> q.ok]
           /\ q.kind \in {"idle", "apply", "account", "snapshot", "devices",
                           "send", "login", "camera"}
           /\ q.phase \in {"idle", "load", "net", "save", "done"}
           /\ q.at \in 1 .. 5 /\ q.copy \in Session
           /\ q.api \in Creds /\ q.job \in Session /\ q.ok \in BOOLEAN
BY DEF Process

\* The threads stay threads if one goes on as a thread.
LEMMA OneProcess ==
    ASSUME TypeOK, NEW p \in Procs, NEW q \in Process, GoOn(p, q)
    PROVE  proc' \in [Procs -> Process]
BY DEF TypeOK, GoOn

\* The state is typed as the application comes up.
LEMMA TypeInit == Init => TypeOK
<1> SUFFICES ASSUME Init PROVE TypeOK
  OBVIOUS
<1>1. disk \in Session
  BY StoredAssumption DEF Init
<1>2. proc \in [Procs -> Process]
  BY FreshProcess DEF Init
<1>3. issued \in 0 .. MaxTokens
  BY TokensAssumption DEF Init
<1> QED
  BY <1>1, <1>2, <1>3 DEF Init, TypeOK

\* Every step keeps the types.
LEMMA TypeStep == TypeOK /\ LoginNamed /\ [Next]_vars => TypeOK'
<1> SUFFICES ASSUME TypeOK, LoginNamed, [Next]_vars PROVE TypeOK'
  OBVIOUS
<1> USE DEF Procs
<1>proc. \A p \in Procs : proc[p] \in Process
  BY DEF TypeOK
<1>copy. \A p \in Procs : /\ proc[p].copy \in Session
                          /\ proc[p].api \in Creds
                          /\ proc[p].job \in Session
  BY <1>proc, FieldsOf
<1>1. ASSUME NEW p \in Procs, ReadFile(p) PROVE TypeOK'
  <2> DEFINE f == FileAt[proc[p].at]
             q == [proc[p] EXCEPT !.copy[f] = disk[f], !.at = @ + 1]
  <2>1. q \in Process
    BY <1>1, <1>proc, FileRead DEF ReadFile, TypeOK
  <2>2. GoOn(p, q)
    BY <1>1, <1>proc DEF ReadFile, TypeOK, GoOn
  <2>3. proc' \in [Procs -> Process]
    BY <2>1, <2>2, OneProcess
  <2> QED
    BY <1>1, <2>3 DEF ReadFile, TypeOK, app, cameras
<1>2. ASSUME NEW p \in Procs, WriteFile(p) PROVE TypeOK'
  <2>1. proc[p].at \in 1 .. 4 /\ proc[p].at + 1 \in 1 .. 5
    BY <1>2, <1>proc, FieldsOf DEF WriteFile
  <2>2. [proc[p] EXCEPT !.at = @ + 1] \in Process
    BY <1>proc, <2>1 DEF Process
  <2>3. GoOn(p, [proc[p] EXCEPT !.at = @ + 1])
    BY <1>2 DEF WriteFile, TypeOK, GoOn
  <2>4. proc' \in [Procs -> Process]
    BY <2>2, <2>3, OneProcess
  <2>5. disk' \in Session
    BY <1>2, <1>proc, <2>1, FileWritten DEF WriteFile, TypeOK
  <2> QED
    BY <1>2, <2>4, <2>5 DEF WriteFile, TypeOK, app, cameras
<1>3. ASSUME NEW p \in Procs, SaveFails(p) PROVE TypeOK'
  <2>1. proc' \in [Procs -> Process]
    BY <1>3, <1>proc, HaltedProcess, OneProcess DEF SaveFails
  <2> QED
    BY <1>3, <2>1 DEF SaveFails, TypeOK, app, cameras
<1>4. ASSUME NEW d \in Devices, PickDevice(d) PROVE TypeOK'
  <2>1. proc' \in [Procs -> Process]
    BY <1>4, FreshProcess, OneProcess DEF PickDevice
  <2> QED
    BY <1>4, <2>1 DEF PickDevice, ApplyDevice, StartLiveSync, TypeOK
<1>5. ASSUME NEW d \in Devices \cup {None}, TypeSerial(d) PROVE TypeOK'
  BY <1>5 DEF TypeSerial, TypeOK, cameras
<1>6. CASE ApplyLoaded
  <2> DEFINE s == [proc[UI].copy EXCEPT !.serial = serial]
  <2>1. s \in Session
    BY <1>copy DEF TypeOK, Session
  <2>2. proc' \in [Procs -> Process]
    BY <1>6, <1>proc, <2>1, SavingProcess, OneProcess DEF ApplyLoaded, Save
  <2> QED
    BY <1>6, <2>2 DEF ApplyLoaded, TypeOK, app, cameras
<1>7. CASE ApplySaved
  <2>1. proc' \in [Procs -> Process]
    BY <1>7, FreshProcess, OneProcess DEF ApplySaved, Finish
  <2> QED
    BY <1>7, <2>1 DEF ApplySaved, TypeOK, app, cameras
<1>8. CASE AccountLoaded
  <2>1. proc' \in [Procs -> Process]
    BY <1>8, FreshProcess, OneProcess DEF AccountLoaded, Finish
  <2>2. /\ serial' \in Devices \cup {None}
        /\ cloud_user' \in Accounts \cup {None}
        /\ has_bearer' \in BOOLEAN
    BY <1>8, <1>copy DEF AccountLoaded, TypeOK, Session
  <2> QED
    BY <1>8, <2>1, <2>2 DEF AccountLoaded, TypeOK, cameras
<1>9. CASE RefreshDevices \/ RefreshDue \/ Send
  <2>1. proc' \in [Procs -> Process]
    BY <1>9, FreshProcess, OneProcess DEF RefreshDevices, RefreshDue, Send, Free
  <2> QED
    BY <1>9, <2>1 DEF RefreshDevices, RefreshDue, Send, TypeOK, app, cameras
<1>10. ASSUME NEW a \in Accounts, CloudLogin(a) PROVE TypeOK'
  <2>1. proc' \in [Procs -> Process]
    BY <1>10, LoginProcess, OneProcess DEF CloudLogin, Free
  <2> QED
    BY <1>10, <2>1 DEF CloudLogin, TypeOK, app, cameras
<1>11. ASSUME NEW w \in Workers, DevicesLoaded(w) PROVE TypeOK'
  <2>1. CASE Finish(w) /\ UNCHANGED <<app, cameras>>
    <3>1. proc' \in [Procs -> Process]
      BY <2>1, FreshProcess, OneProcess DEF Finish
    <3> QED
      BY <1>11, <2>1, <3>1 DEF DevicesLoaded, TypeOK, app, cameras
  <2>2. ASSUME NEW d \in Devices, ApplyDevice(d), StartLiveSync,
               proc' = [proc EXCEPT ![w] = Idle, ![UI] = Begin("apply", "load")]
        PROVE  TypeOK'
    <3>1. proc' \in [Procs -> Process]
      BY <2>2, FreshProcess DEF TypeOK
    <3> QED
      BY <1>11, <2>2, <3>1 DEF DevicesLoaded, ApplyDevice, StartLiveSync, TypeOK
  <2> QED
    BY <1>11, <2>1, <2>2 DEF DevicesLoaded
<1>12. ASSUME NEW w \in Workers, CloudLogged(w) PROVE TypeOK'
  <2>1. proc' \in [Procs -> Process]
    BY <1>12, FreshProcess DEF CloudLogged, TypeOK
  <2> QED
    BY <1>12, <2>1 DEF CloudLogged, TypeOK, app, cameras
<1>13. CASE CameraPlay
  <2>1. proc' \in [Procs -> Process]
    BY <1>13, FreshProcess, OneProcess DEF CameraPlay, TypeOK
  <2> QED
    BY <1>13, <2>1 DEF CameraPlay, StartLiveSync, ApplyDevice, TypeOK, app
<1>14. CASE CameraStop
  BY <1>14 DEF CameraStop, TypeOK, app
<1>15. CASE Subscription
  <2>1. proc' \in [Procs -> Process]
    BY <1>15, FreshProcess, OneProcess DEF Subscription, TypeOK
  <2> QED
    BY <1>15, <2>1 DEF Subscription, TypeOK, app
<1>16. CASE SnapshotLoaded
  <2> DEFINE job == CameraJob(proc[UI].copy)
  <2>1. job \in Session
    <3>1. proc[UI].copy.token # None => proc[UI].copy.token.acct \in Accounts
      BY <1>copy DEF Session, Tokens
    <3> QED
      BY <1>copy, <3>1 DEF CameraJob, Session, TypeOK
  <2>2. CameraFor(job) \in Process
    BY <2>1, CameraProcess
  <2>3. CASE Finish(UI) /\ UNCHANGED camera
    <3>1. proc' \in [Procs -> Process]
      BY <2>3, FreshProcess, OneProcess DEF Finish
    <3> QED
      BY <1>16, <2>3, <3>1 DEF SnapshotLoaded, TypeOK, app
  <2>4. ASSUME NEW w \in Free, camera' = w,
               proc' = [proc EXCEPT ![UI] = Idle, ![w] = CameraFor(job)]
        PROVE  TypeOK'
    <3>1. proc' \in [Procs -> Process]
      BY <2>2, <2>4, FreshProcess DEF Free, TypeOK
    <3> QED
      BY <1>16, <2>4, <3>1 DEF SnapshotLoaded, TypeOK, app, Free
  <2> QED
    BY <1>16, <2>3, <2>4 DEF SnapshotLoaded
<1>17. ASSUME NEW w \in Workers, JobLoaded(w) PROVE TypeOK'
  <2>1. Requesting(proc[w], CredsOf(proc[w].copy)) \in Process
    BY <1>proc, <1>copy, CredsOfSession, RequestingProcess
  <2>2. proc' \in [Procs -> Process]
    BY <1>17, <2>1, FreshProcess, OneProcess DEF JobLoaded, Finish
  <2> QED
    BY <1>17, <2>2 DEF JobLoaded, TypeOK, app, cameras
<1>18. ASSUME NEW w \in Workers, DevicesListed(w) PROVE TypeOK'
  <2>1. PICK c \in CredsAfter(proc[w].api) :
          /\ WithRetry(proc[w].api, c)
          /\ GoOn(w, IF c.token = proc[w].copy.token THEN Done(proc[w])
                     ELSE Refreshed(proc[w], c))
    BY <1>18 DEF DevicesListed
  <2>2. c \in Creds /\ issued' \in 0 .. MaxTokens
    BY <1>copy, <2>1, RetriedCreds DEF TypeOK
  <2>3. proc' \in [Procs -> Process]
    BY <1>proc, <2>1, <2>2, DoneProcess, RefreshedProcess, OneProcess
  <2> QED
    BY <1>18, <2>2, <2>3 DEF DevicesListed, TypeOK, app, cameras
<1>19. ASSUME NEW w \in Workers, DevicesSaved(w) PROVE TypeOK'
  <2>1. proc' \in [Procs -> Process]
    BY <1>19, <1>proc, DoneProcess, OneProcess DEF DevicesSaved
  <2> QED
    BY <1>19, <2>1 DEF DevicesSaved, TypeOK, app, cameras
<1>20. ASSUME NEW w \in Workers, Uploaded(w) PROVE TypeOK'
  <2>1. PICK c \in CredsAfter(proc[w].api) :
          WithRetry(proc[w].api, c) /\ GoOn(w, Refreshed(proc[w], c))
    BY <1>20 DEF Uploaded
  <2>2. c \in Creds /\ issued' \in 0 .. MaxTokens
    BY <1>copy, <2>1, RetriedCreds DEF TypeOK
  <2>3. proc' \in [Procs -> Process]
    BY <1>proc, <2>1, <2>2, RefreshedProcess, OneProcess
  <2> QED
    BY <1>20, <2>2, <2>3 DEF Uploaded, TypeOK, app, cameras
<1>21. ASSUME NEW w \in Workers, Published(w) \/ RequestFails(w) PROVE TypeOK'
  <2>1. proc' \in [Procs -> Process]
    BY <1>21, FreshProcess, OneProcess DEF Published, RequestFails, Finish
  <2> QED
    BY <1>21, <2>1 DEF Published, RequestFails, TypeOK, app, cameras
<1>22. ASSUME NEW w \in Workers, LoggedIn(w) PROVE TypeOK'
  <2> DEFINE a == proc[w].api.user
  <2>1. a \in Accounts
    BY <1>22 DEF LoggedIn, LoginNamed
  <2>2. NewToken(a) \in Tokens /\ issued' \in 0 .. MaxTokens
    BY <1>22, <2>1, TokenIssued DEF LoggedIn, TypeOK
  <2>3. PICK r \in {None, NewToken(a)}, u \in {None, a} :
          GoOn(w, Loading(proc[w], [user |-> u, token |-> NewToken(a), refresh |-> r],
                          TRUE))
    BY <1>22 DEF LoggedIn
  <2>4. [user |-> u, token |-> NewToken(a), refresh |-> r] \in Creds
    BY <2>1, <2>2 DEF Creds
  <2>5. proc' \in [Procs -> Process]
    BY <1>proc, <2>3, <2>4, LoadingProcess, OneProcess
  <2> QED
    BY <1>22, <2>2, <2>5 DEF LoggedIn, TypeOK, app, cameras
<1>23. ASSUME NEW w \in Workers, LoginLoaded(w) \/ CameraLoaded(w) PROVE TypeOK'
  <2>1. WithCreds(proc[w].copy, proc[w].api) \in Session
    BY <1>copy, SessionWithCreds
  <2>2. proc' \in [Procs -> Process]
    BY <1>23, <1>proc, <2>1, SavingProcess, OneProcess
    DEF LoginLoaded, CameraLoaded, Save
  <2> QED
    BY <1>23, <2>2 DEF LoginLoaded, CameraLoaded, TypeOK, app, cameras
<1>24. ASSUME NEW w \in Workers, LoginSaved(w) PROVE TypeOK'
  <2>1. proc' \in [Procs -> Process]
    BY <1>24, <1>proc, DoneProcess, FreshProcess, OneProcess DEF LoginSaved
  <2> QED
    BY <1>24, <2>1 DEF LoginSaved, TypeOK, app, cameras
<1>25. ASSUME NEW w \in Workers, CameraStreamed(w) PROVE TypeOK'
  <2>1. PICK c \in CredsAfter(proc[w].api), ok \in BOOLEAN :
          WithRetry(proc[w].api, c) /\ GoOn(w, Loading(proc[w], c, ok))
    BY <1>25 DEF CameraStreamed
  <2>2. c \in Creds /\ issued' \in 0 .. MaxTokens
    BY <1>copy, <2>1, RetriedCreds DEF TypeOK
  <2>3. proc' \in [Procs -> Process]
    BY <1>proc, <2>1, <2>2, LoadingProcess, OneProcess
  <2> QED
    BY <1>25, <2>2, <2>3 DEF CameraStreamed, TypeOK, app, cameras
<1>26. ASSUME NEW w \in Workers, NEW ok \in BOOLEAN, CameraSaved(w, ok) PROVE TypeOK'
  <2>1. CameraFor(proc[w].job) \in Process
    BY <1>copy, CameraProcess
  <2>2. proc' \in [Procs -> Process]
    BY <1>26, <2>1, FreshProcess, OneProcess DEF CameraSaved
  <2> QED
    BY <1>26, <2>2 DEF CameraSaved, TypeOK, app, cameras
<1>27. CASE Restart
  BY <1>27, FreshProcess DEF Restart, TypeOK
<1>28. CASE UNCHANGED vars
  BY <1>28 DEF vars, TypeOK, app, cameras
<1> QED
  BY <1>1, <1>2, <1>3, <1>4, <1>5, <1>6, <1>7, <1>8, <1>9, <1>10, <1>11, <1>12,
     <1>13, <1>14, <1>15, <1>16, <1>17, <1>18, <1>19, <1>20, <1>21, <1>22, <1>23,
     <1>24, <1>25, <1>26, <1>27, <1>28
  DEF Next, Requests, Background, Streams

-----------------------------------------------------------------------------
\* The fields of what a thread goes on to.
LEMMA Heads ==
    ASSUME NEW q \in Process, NEW s, NEW c, NEW k, NEW kind, NEW phase
    PROVE  /\ Idle.kind = "idle" /\ Idle.phase = "idle"
           /\ Begin(kind, phase).kind = kind /\ Begin(kind, phase).phase = phase
           /\ Saving(q, s).kind = q.kind /\ Saving(q, s).phase = "save"
           /\ Saving(q, s).copy = s /\ Saving(q, s).at = 1
           /\ Requesting(q, c).kind = q.kind
           /\ Loading(q, c, k).phase = "load"
           /\ Halted(q).kind = q.kind /\ Halted(q).phase = q.phase
           /\ Halted(q).api = q.api /\ Halted(q).copy = q.copy
           /\ Refreshed(q, c).phase = "save"
           /\ Done(q).phase = "done"
           /\ LoginAs(c).api.user = c
           /\ CameraFor(s).kind = "camera"
<1>1. Idle.kind = "idle" /\ Idle.phase = "idle"
  BY DEF Idle
<1>2. Begin(kind, phase).kind = kind /\ Begin(kind, phase).phase = phase
  BY DEF Begin, Idle
<1>3. /\ Saving(q, s).kind = q.kind /\ Saving(q, s).phase = "save"
      /\ Saving(q, s).copy = s /\ Saving(q, s).at = 1
  BY DEF Saving, Process
<1>4. Requesting(q, c).kind = q.kind
  BY DEF Requesting, Process
<1>5. Loading(q, c, k).phase = "load"
  BY DEF Loading, Process
<1>6. /\ Halted(q).kind = q.kind /\ Halted(q).phase = q.phase
      /\ Halted(q).api = q.api /\ Halted(q).copy = q.copy
  BY DEF Halted, Process
<1>7. Refreshed(q, c).phase = "save"
  BY DEF Refreshed, Saving, Process
<1>8. Done(q).phase = "done"
  BY DEF Done, Begin, Idle
<1>9. LoginAs(c).api.user = c
  BY DEF LoginAs, Begin, Idle, NoCreds
<1>10. CameraFor(s).kind = "camera"
  BY DEF CameraFor, Begin, Idle
<1> QED
  BY <1>1, <1>2, <1>3, <1>4, <1>5, <1>6, <1>7, <1>8, <1>9, <1>10

\* The steps of a background thread.
Worker(w) ==
    \/ JobLoaded(w) \/ DevicesListed(w) \/ DevicesSaved(w) \/ Uploaded(w)
    \/ Published(w) \/ LoggedIn(w) \/ LoginLoaded(w) \/ LoginSaved(w)
    \/ RequestFails(w) \/ CameraStreamed(w) \/ CameraLoaded(w)
    \/ \E ok \in BOOLEAN : CameraSaved(w, ok)

\* They leave the files and what the UI shows alone, and none of them turns
\* into a login's request.
LEMMA WorkerStep ==
    ASSUME TypeOK, NEW w \in Workers, Worker(w)
    PROVE  /\ UNCHANGED <<disk, app>>
           /\ \E q : GoOn(w, q) /\ ~(q.kind = "login" /\ q.phase = "net")
<1>1. proc[w] \in Process
  BY DEF TypeOK, Procs
<1>2. CASE JobLoaded(w)
  <2> DEFINE q == Requesting(proc[w], CredsOf(proc[w].copy))
  <2>1. proc[w].kind # "login" /\ q.kind = proc[w].kind
    BY <1>1, <1>2, Heads DEF JobLoaded, Loaded, Running
  <2>2. Idle.kind # "login"
    BY DEF Idle
  <2>3. GoOn(w, Idle) \/ GoOn(w, q)
    BY <1>2 DEF JobLoaded, Finish
  <2> HIDE DEF q
  <2> QED
    BY <1>2, <2>1, <2>2, <2>3 DEF JobLoaded
<1>3. CASE DevicesListed(w)
  <2>1. PICK c : GoOn(w, IF c.token = proc[w].copy.token THEN Done(proc[w])
                         ELSE Refreshed(proc[w], c))
    BY <1>3 DEF DevicesListed
  <2>2. Done(proc[w]).phase # "net" /\ Refreshed(proc[w], c).phase # "net"
    BY <1>1, Heads
  <2> QED
    BY <1>3, <2>1, <2>2 DEF DevicesListed
<1>4. CASE DevicesSaved(w)
  BY <1>1, <1>4, Heads DEF DevicesSaved
<1>5. CASE Uploaded(w)
  BY <1>1, <1>5, Heads DEF Uploaded
<1>6. CASE Published(w) \/ RequestFails(w)
  BY <1>1, <1>6, Heads DEF Published, RequestFails, Finish
<1>7. CASE LoggedIn(w)
  <2>1. PICK c : GoOn(w, Loading(proc[w], c, TRUE))
    BY <1>7 DEF LoggedIn
  <2>2. Loading(proc[w], c, TRUE).phase # "net"
    BY <1>1, Heads
  <2> QED
    BY <1>7, <2>1, <2>2 DEF LoggedIn
<1>8. CASE LoginLoaded(w) \/ CameraLoaded(w)
  BY <1>1, <1>8, Heads DEF LoginLoaded, CameraLoaded, Save
<1>9. CASE LoginSaved(w)
  BY <1>1, <1>9, Heads DEF LoginSaved
<1>10. CASE CameraStreamed(w)
  <2>1. PICK c, k : GoOn(w, Loading(proc[w], c, k))
    BY <1>10 DEF CameraStreamed
  <2>2. Loading(proc[w], c, k).phase # "net"
    BY <1>1, Heads
  <2> QED
    BY <1>10, <2>1, <2>2 DEF CameraStreamed
<1>11. ASSUME NEW ok \in BOOLEAN, CameraSaved(w, ok)
       PROVE  /\ UNCHANGED <<disk, app>>
              /\ \E q : GoOn(w, q) /\ ~(q.kind = "login" /\ q.phase = "net")
  BY <1>1, <1>11, Heads DEF CameraSaved
<1> QED
  BY <1>2, <1>3, <1>4, <1>5, <1>6, <1>7, <1>8, <1>9, <1>10, <1>11 DEF Worker

\* A login's request stays that of an account.
LEMMA LoginStep == TypeOK /\ LoginNamed /\ [Next]_vars => LoginNamed'
<1> SUFFICES ASSUME TypeOK, LoginNamed, [Next]_vars PROVE LoginNamed'
  OBVIOUS
<1> USE DEF Procs
<1>proc. \A p \in Procs : proc[p] \in Process
  BY DEF TypeOK
<1>one. ASSUME NEW p \in Procs, NEW q, GoOn(p, q),
               q.kind = "login" /\ q.phase = "net" => q.api.user \in Accounts
        PROVE  LoginNamed'
  BY <1>one, <1>proc DEF LoginNamed, Running, GoOn, TypeOK
<1>1. ASSUME NEW p \in Procs, ReadFile(p) \/ WriteFile(p) \/ SaveFails(p)
      PROVE  LoginNamed'
  <2>1. CASE ReadFile(p)
    BY <2>1, <1>proc DEF ReadFile, LoginNamed, Running, TypeOK
  <2>2. CASE WriteFile(p)
    BY <2>2, <1>proc DEF WriteFile, LoginNamed, Running, TypeOK
  <2>3. CASE SaveFails(p)
    BY <2>3, <1>proc, <1>one, Heads DEF SaveFails
  <2> QED
    BY <1>1, <2>1, <2>2, <2>3
<1>2. ASSUME NEW w \in Workers, Worker(w) PROVE LoginNamed'
  BY <1>2, <1>one, WorkerStep
<1>3. ASSUME NEW a \in Accounts, CloudLogin(a) PROVE LoginNamed'
  BY <1>3, <1>one, <1>proc, Heads DEF CloudLogin, Free
<1>4. CASE RefreshDevices \/ RefreshDue \/ Send
  BY <1>4, <1>one, <1>proc, Heads DEF RefreshDevices, RefreshDue, Send, Free
<1>5. CASE ApplyLoaded \/ ApplySaved \/ AccountLoaded \/ Subscription \/ CameraPlay
  BY <1>5, <1>one, <1>proc, Heads, UIAssumption
  DEF ApplyLoaded, ApplySaved, AccountLoaded, Subscription, CameraPlay, Save, Finish,
      GoOn, LoginNamed, Running, TypeOK
<1>6. ASSUME NEW d \in Devices \cup {None}, PickDevice(d) \/ TypeSerial(d)
      PROVE  LoginNamed'
  BY <1>6, <1>one, <1>proc, Heads DEF PickDevice, TypeSerial, LoginNamed, Running
<1>7. ASSUME NEW w \in Workers, DevicesLoaded(w) \/ CloudLogged(w) PROVE LoginNamed'
  BY <1>7, <1>proc, Heads, UIAssumption
  DEF DevicesLoaded, CloudLogged, Finish, GoOn, LoginNamed, Running, TypeOK
<1>8. CASE SnapshotLoaded
  BY <1>8, <1>proc, Heads, UIAssumption
  DEF SnapshotLoaded, Finish, GoOn, Free, LoginNamed, Running, TypeOK
<1>9. CASE Restart
  BY <1>9, <1>proc, Heads, UIAssumption DEF Restart, LoginNamed, Running
<1>10. CASE CameraStop \/ UNCHANGED vars
  BY <1>10 DEF CameraStop, vars, LoginNamed, Running
<1> QED
  BY <1>1, <1>2, <1>3, <1>4, <1>5, <1>6, <1>7, <1>8, <1>9, <1>10
  DEF Next, Requests, Background, Streams, Worker

\* Every state variable stays in its type, whatever the threads do.
THEOREM TypeCorrect == Spec => []TypeOK
<1>1. Init => LoginNamed
  <2> SUFFICES ASSUME Init, NEW w \in Workers, Running(w, "login", "net") PROVE FALSE
    BY DEF LoginNamed
  <2>1. proc[w] = Idle
    BY UIAssumption DEF Init, Procs
  <2> QED
    BY <2>1 DEF Running, Idle
<1>2. Init => TypeOK /\ LoginNamed
  BY <1>1, TypeInit
<1>3. TypeOK /\ LoginNamed /\ [Next]_vars => TypeOK' /\ LoginNamed'
  BY TypeStep, LoginStep
<1> QED
  BY <1>2, <1>3, PTL DEF Spec

-----------------------------------------------------------------------------
\* While the UI thread applies a device, nothing else touches what it shows,
\* and its save carries the device chosen.
LEMMA ApplyStep == TypeOK /\ ApplyKept /\ [Next]_vars => ApplyKept'
<1> SUFFICES ASSUME TypeOK, ApplyKept, [Next]_vars PROVE ApplyKept'
  OBVIOUS
<1> USE DEF Procs
<1>proc. proc[UI] \in Process /\ DOMAIN proc = Procs
  BY DEF TypeOK
<1>other. ASSUME NEW p \in Workers, NEW q, GoOn(p, q), UNCHANGED <<serial, selected>>
          PROVE  ApplyKept'
  BY <1>other, UIAssumption DEF GoOn, ApplyKept, TypeOK
<1>ui. ASSUME NEW q, proc'[UI] = q, q.kind # "apply", q.phase # "save"
       PROVE  ApplyKept'
  BY <1>ui DEF ApplyKept
<1>begun. ASSUME proc'[UI] = Begin("apply", "load"), serial' = selected', serial' # None
          PROVE  ApplyKept'
  BY <1>begun, <1>proc, Heads DEF ApplyKept
<1>idle. ASSUME proc'[UI] = Idle PROVE ApplyKept'
  BY <1>idle, <1>ui, <1>proc, Heads
<1>1. ASSUME NEW p \in Procs, ReadFile(p) PROVE ApplyKept'
  BY <1>1, <1>proc DEF ReadFile, ApplyKept, app, TypeOK, Process
<1>2. ASSUME NEW p \in Procs, WriteFile(p) PROVE ApplyKept'
  BY <1>2, <1>proc DEF WriteFile, ApplyKept, app, TypeOK, Process
<1>3. ASSUME NEW p \in Procs, SaveFails(p) PROVE ApplyKept'
  BY <1>3, <1>proc, <1>other, Heads DEF SaveFails, GoOn, ApplyKept, app, TypeOK
<1>4. ASSUME NEW w \in Workers, Worker(w) PROVE ApplyKept'
  BY <1>4, <1>other, WorkerStep DEF app
<1>5. ASSUME NEW d \in Devices, PickDevice(d) PROVE ApplyKept'
  BY <1>5, <1>proc, <1>begun, NoneAssumption DEF PickDevice, ApplyDevice, GoOn, TypeOK
<1>6. ASSUME NEW d \in Devices \cup {None}, TypeSerial(d) PROVE ApplyKept'
  <2>1. proc'[UI] = Idle
    BY <1>6 DEF TypeSerial, UIIdle
  <2> QED
    BY <2>1, <1>idle
<1>7. CASE ApplyLoaded
  <2> DEFINE s == [proc[UI].copy EXCEPT !.serial = serial]
  <2>1. proc'[UI] = Saving(proc[UI], s) /\ UNCHANGED <<serial, selected>>
    BY <1>7, <1>proc DEF ApplyLoaded, Save, GoOn, TypeOK, app
  <2>2. s.serial = serial
    BY <1>proc DEF Process, Session
  <2>3. proc[UI].kind = "apply"
    BY <1>7 DEF ApplyLoaded, Loaded, Running
  <2>4. /\ proc'[UI].kind = "apply" /\ proc'[UI].copy = s
    BY <1>proc, <2>1, <2>3, Heads
  <2> QED
    BY <2>1, <2>2, <2>3, <2>4 DEF ApplyKept
<1>8. CASE ApplySaved
  BY <1>8, <1>proc, <1>idle DEF ApplySaved, Finish, GoOn, TypeOK
<1>9. CASE AccountLoaded
  BY <1>9, <1>proc, <1>idle, <1>begun DEF AccountLoaded, Finish, GoOn, TypeOK
<1>10. CASE RefreshDevices \/ RefreshDue \/ Send
  BY <1>10, <1>other DEF RefreshDevices, RefreshDue, Send, Free, app
<1>11. ASSUME NEW a \in Accounts, CloudLogin(a) PROVE ApplyKept'
  BY <1>11, <1>other DEF CloudLogin, Free, app
<1>12. ASSUME NEW w \in Workers, DevicesLoaded(w) PROVE ApplyKept'
  <2>1. CASE Finish(w) /\ UNCHANGED <<app, cameras>>
    BY <2>1, <1>other DEF Finish, app
  <2>2. ASSUME NEW d \in Devices, ApplyDevice(d),
               proc' = [proc EXCEPT ![w] = Idle, ![UI] = Begin("apply", "load")]
        PROVE  ApplyKept'
    BY <2>2, <1>proc, <1>begun, NoneAssumption DEF ApplyDevice
  <2> QED
    BY <1>12, <2>1, <2>2 DEF DevicesLoaded
<1>13. ASSUME NEW w \in Workers, CloudLogged(w) PROVE ApplyKept'
  <2>1. proc'[UI] = Begin("account", "load")
    BY <1>13, <1>proc DEF CloudLogged
  <2> QED
    BY <2>1, <1>ui, <1>proc, Heads
<1>14. CASE CameraPlay
  <2>1. CASE UNCHANGED <<app, proc>>
    BY <2>1 DEF app, ApplyKept
  <2>2. CASE ApplyDevice(serial) /\ GoOn(UI, Begin("apply", "load"))
    BY <1>14, <2>2, <1>proc, <1>begun DEF CameraPlay, ApplyDevice, GoOn, TypeOK
  <2> QED
    BY <1>14, <2>1, <2>2 DEF CameraPlay
<1>15. CASE Subscription
  <2>1. CASE GoOn(UI, Begin("snapshot", "load"))
    <3>1. proc'[UI] = Begin("snapshot", "load")
      BY <2>1, <1>proc DEF GoOn
    <3> QED
      BY <3>1, <1>ui, <1>proc, Heads
  <2>2. CASE UNCHANGED proc
    BY <1>15, <2>2 DEF Subscription, ApplyKept, app
  <2> QED
    BY <1>15, <2>1, <2>2 DEF Subscription
<1>16. CASE SnapshotLoaded
  <2>1. proc'[UI] = Idle
    BY <1>16, <1>proc, UIAssumption DEF SnapshotLoaded, Finish, GoOn, Free, TypeOK
  <2> QED
    BY <2>1, <1>idle
<1>17. CASE Restart
  <2>1. proc'[UI] = Begin("account", "load")
    BY <1>17 DEF Restart
  <2> QED
    BY <2>1, <1>ui, <1>proc, Heads
<1>18. CASE CameraStop \/ UNCHANGED vars
  BY <1>18 DEF CameraStop, vars, app, ApplyKept
<1> QED
  BY <1>1, <1>2, <1>3, <1>4, <1>5, <1>6, <1>7, <1>8, <1>9, <1>10, <1>11, <1>12,
     <1>13, <1>14, <1>15, <1>16, <1>17, <1>18
  DEF Next, Requests, Background, Streams, Worker

\* The only steps that part the stored serial from the device last chosen.
SerialLost ==
    SerialStored /\ ~SerialStored'
        => \/ SaveFails(UI) /\ ~WriteFile(UI)
           \/ \E w \in Workers : WriteFile(w)

LEMMA SerialStep == TypeOK /\ ApplyKept /\ [Next]_vars => SerialLost
<1> SUFFICES ASSUME TypeOK, ApplyKept, [Next]_vars, SerialStored,
                    SaveFails(UI) => WriteFile(UI),
                    \A w \in Workers : ~WriteFile(w)
             PROVE  SerialStored'
  BY DEF SerialLost
<1> USE DEF Procs
<1>proc. proc[UI] \in Process /\ DOMAIN proc = Procs
  BY DEF TypeOK
<1>other. ASSUME NEW p \in Workers, NEW q, GoOn(p, q), UNCHANGED <<disk, selected>>
          PROVE  SerialStored'
  BY <1>other, UIAssumption DEF GoOn, SerialStored, Saved, Running, TypeOK
<1>begun. ASSUME proc'[UI] = Begin("apply", "load")
          PROVE  SerialStored'
  BY <1>begun, <1>proc, Heads DEF SerialStored, Saved, Running
<1>ended. ASSUME proc[UI].kind # "apply", UNCHANGED <<disk, selected>>
          PROVE  SerialStored'
  BY <1>ended DEF SerialStored
<1>1. ASSUME NEW p \in Procs, ReadFile(p) PROVE SerialStored'
  <2>1. CASE p = UI
    <3>1. proc'[UI].kind = proc[UI].kind /\ proc'[UI].phase = "load"
      BY <1>1, <2>1, <1>proc DEF ReadFile, Process
    <3> QED
      BY <1>1, <3>1 DEF ReadFile, SerialStored, Saved, Running, app
  <2>2. CASE p # UI
    BY <1>1, <2>2, <1>proc DEF ReadFile, SerialStored, Saved, Running, app
  <2> QED
    BY <2>1, <2>2
<1>2. ASSUME WriteFile(UI) PROVE SerialStored'
  <2>1. /\ proc[UI].phase = "save" /\ proc[UI].kind = "apply"
        /\ proc[UI].at \in 1 .. 4 /\ proc[UI].copy.serial = selected
    BY <1>2, <1>proc DEF WriteFile, ApplyKept, Process
  <2>2. /\ proc'[UI].kind = "apply" /\ proc'[UI].at = proc[UI].at + 1
        /\ UNCHANGED selected
    BY <1>2, <1>proc, <2>1 DEF WriteFile, Process, app
  <2>3. CASE proc[UI].at = 4
    <3>1. FileAt[proc[UI].at] = "serial"
      BY <2>3 DEF FileAt
    <3>2. selected # None => disk'.serial = selected
      BY <1>2, <2>1, <3>1 DEF WriteFile, TypeOK, Session
    <3> QED
      BY <2>2, <3>2 DEF SerialStored
  <2>4. CASE proc[UI].at # 4
    BY <2>1, <2>2, <2>4 DEF SerialStored, Saved, Running
  <2> QED
    BY <2>3, <2>4
<1>3. ASSUME NEW w \in Workers, SaveFails(w) PROVE SerialStored'
  BY <1>3, <1>other DEF SaveFails, app
<1>4. ASSUME NEW w \in Workers, Worker(w) PROVE SerialStored'
  BY <1>4, <1>other, WorkerStep DEF app
<1>5. ASSUME NEW d \in Devices, PickDevice(d) PROVE SerialStored'
  BY <1>5, <1>proc, <1>begun DEF PickDevice, GoOn
<1>6. ASSUME NEW d \in Devices \cup {None}, TypeSerial(d) PROVE SerialStored'
  BY <1>6 DEF TypeSerial, SerialStored, Saved, Running
<1>7. CASE ApplyLoaded
  <2> DEFINE s == [proc[UI].copy EXCEPT !.serial = serial]
  <2>1. proc'[UI] = Saving(proc[UI], s) /\ proc[UI].kind = "apply"
    BY <1>7, <1>proc DEF ApplyLoaded, Save, GoOn, Loaded, Running
  <2>2. proc'[UI].kind = "apply" /\ proc'[UI].at = 1
    BY <1>proc, <2>1, Heads
  <2> QED
    BY <2>2 DEF SerialStored, Saved, Running
<1>8. CASE ApplySaved
  BY <1>8 DEF ApplySaved, SerialStored, app
<1>9. CASE AccountLoaded
  <2>1. CASE UNCHANGED selected
    BY <1>9, <2>1, <1>ended DEF AccountLoaded, Loaded, Running
  <2>2. CASE proc' = [proc EXCEPT ![UI] = Begin("apply", "load")]
    BY <2>2, <1>proc, <1>begun
  <2> QED
    BY <1>9, <2>1, <2>2 DEF AccountLoaded, GoOn
<1>10. CASE RefreshDevices \/ RefreshDue \/ Send
  BY <1>10, <1>other DEF RefreshDevices, RefreshDue, Send, Free, app
<1>11. ASSUME NEW a \in Accounts, CloudLogin(a) PROVE SerialStored'
  BY <1>11, <1>other DEF CloudLogin, Free, app
<1>12. ASSUME NEW w \in Workers, DevicesLoaded(w) PROVE SerialStored'
  <2>1. CASE Finish(w) /\ UNCHANGED <<app, cameras>>
    BY <1>12, <2>1, <1>other DEF DevicesLoaded, Finish, app
  <2>2. CASE proc' = [proc EXCEPT ![w] = Idle, ![UI] = Begin("apply", "load")]
    BY <2>2, <1>proc, <1>begun
  <2> QED
    BY <1>12, <2>1, <2>2 DEF DevicesLoaded
<1>13. CASE UIIdle /\ UNCHANGED <<disk, selected>>
  BY <1>13, <1>ended DEF UIIdle, Idle
<1>14. ASSUME NEW w \in Workers, CloudLogged(w) PROVE SerialStored'
  BY <1>13, <1>14 DEF CloudLogged, app
<1>15. CASE CameraPlay
  <2>1. CASE UNCHANGED <<app, proc>>
    BY <1>13, <1>15, <2>1 DEF CameraPlay, app
  <2>2. CASE GoOn(UI, Begin("apply", "load"))
    BY <2>2, <1>proc, <1>begun DEF GoOn
  <2> QED
    BY <1>15, <2>1, <2>2 DEF CameraPlay
<1>16. CASE Subscription \/ CameraStop
  BY <1>13, <1>16 DEF Subscription, CameraStop, app
<1>17. CASE SnapshotLoaded
  BY <1>17, <1>ended DEF SnapshotLoaded, Loaded, Running, app
<1>18. CASE Restart
  BY <1>18 DEF Restart, SerialStored
<1>19. CASE UNCHANGED vars
  BY <1>19 DEF vars, app, SerialStored, Saved, Running
<1> QED
  BY <1>1, <1>2, <1>3, <1>4, <1>5, <1>6, <1>7, <1>8, <1>9, <1>10, <1>11, <1>12,
     <1>14, <1>15, <1>16, <1>17, <1>18, <1>19
  DEF Next, Requests, Background, Streams, Worker

\* The UI's own steps never part the stored serial from the device last chosen:
\* only a background thread's write, or a failed write of the UI, does.
THEOREM StoredSerial == Spec => SerialLostOnlyByWriteBack
<1>1. Init => ApplyKept
  BY Heads, FreshProcess DEF Init, ApplyKept, Procs
<1>2. TypeOK /\ ApplyKept /\ [Next]_vars => ApplyKept'
  BY ApplyStep
<1>3. TypeOK /\ ApplyKept /\ [Next]_vars =>
        [SerialStored /\ ~SerialStored'
            => \/ SaveFails(UI) /\ ~WriteFile(UI)
               \/ \E w \in Workers : WriteFile(w)]_vars
  BY SerialStep DEF SerialLost
<1>4. Spec => []TypeOK
  BY TypeCorrect
<1> QED
  BY <1>1, <1>2, <1>3, <1>4, PTL DEF Spec, SerialLostOnlyByWriteBack
-----------------------------------------------------------------------------
\* Threads that take turns at the files.

Writing(q) == q.phase = "save" /\ q.at < 5

\* A thread carries a token that is nowhere else yet.
Carries(q) ==
    /\ q.phase = "load"
    /\ q.kind = "login" \/ (q.kind = "camera" /\ q.api.token # q.job.token)

\* With `d` on disk and `e` expected: what a thread has read is on disk, and
\* what it has still to write is what is expected.
Faithful(q, d, e) ==
    /\ q.phase = "load" =>
          \A k \in 1 .. 4 : k < q.at => q.copy[FileAt[k]] = d[FileAt[k]]
    /\ q.kind \in {"devices", "send"} /\ q.phase = "net" =>
          q.copy = d /\ q.api = CredsOf(d)
    /\ Writing(q) =>
          \A k \in 1 .. 4 :
              e[FileAt[k]] = IF k >= q.at /\ q.copy[FileAt[k]] # None
                             THEN q.copy[FileAt[k]] ELSE d[FileAt[k]]

\* The job of a camera has the refresh token that came with its token.
JobKept(q, e) ==
    q.kind = "camera" =>
        /\ q.job.token = e.token => q.job.refresh = e.refresh
        /\ q.phase = "net" => q.api = CredsOf(q.job)
        /\ q.phase = "load" /\ q.api.token = q.job.token => q.api = CredsOf(q.job)

Apart(q, ps, e) ==
    Carries(q) =>
        /\ q.api.token \notin {None, e.token}
        /\ \A p \in Procs : ps[p].kind = "camera" => ps[p].job.token # q.api.token

OneHolds(ps) == \A p, q \in Procs : Holds(ps[p]) /\ Holds(ps[q]) => p = q

Sequential ==
    /\ OneHolds(proc)
    /\ (\A p \in Procs : ~Writing(proc[p])) => disk = expected
    /\ \A p \in Procs : /\ Faithful(proc[p], disk, expected)
                        /\ JobKept(proc[p], expected)
                        /\ Apart(proc[p], proc, expected)

\* The tokens issued so far.
Known == {None} \cup {t \in Tokens : t.n <= issued}

Knows(q, tokens) == {q.copy.token, q.api.token, q.job.token} \subseteq tokens

TokensKnown ==
    /\ disk.token \in Known /\ expected.token \in Known
    /\ \A p \in Procs : Knows(proc[p], Known)

-----------------------------------------------------------------------------
\* What a thread goes on to if it neither reads nor writes files and carries
\* nothing on.
Plain(q, new) ==
    /\ new.kind # "camera" /\ new.phase # "save"
    /\ new.phase = "load" => new.at = 1 /\ new.kind # "login"
    /\ new.phase = "net" => new.kind = "login"
    /\ new.copy = NoSession /\ new.job = NoSession
    /\ new.api.token \in {None, q.api.token}

PlainStep ==
    /\ disk' = disk /\ issued' \in {issued, issued + 1}
    /\ \A p \in Procs : \/ proc'[p] = proc[p]
                        \/ Plain(proc[p], proc'[p]) /\ (~Writing(proc[p]) \/ Restart)

\* The fields of threads that start or are done.
LEMMA PlainHeads ==
    ASSUME NEW q \in Process
    PROVE  /\ Plain(q, Idle)
           /\ \A kind \in {"apply", "account", "snapshot", "devices", "send"} :
                  Plain(q, Begin(kind, "load"))
           /\ q.kind # "camera" => Plain(q, Done(q))
           /\ \A a : Plain(q, LoginAs(a))
<1>1. Plain(q, Idle)
  BY DEF Plain, Idle, NoCreds
<1>2. \A kind \in {"apply", "account", "snapshot", "devices", "send"} :
          Plain(q, Begin(kind, "load"))
  BY DEF Plain, Begin, Idle, NoCreds
<1>3. q.kind # "camera" => Plain(q, Done(q))
  BY DEF Plain, Done, Begin, Idle, NoCreds
<1>4. \A a : Plain(q, LoginAs(a))
  BY DEF Plain, LoginAs, Begin, Idle, NoCreds
<1> QED
  BY <1>1, <1>2, <1>3, <1>4

\* One thread goes on plainly.
LEMMA OnePlain ==
    ASSUME TypeOK, NEW p \in Procs, NEW q, GoOn(p, q), Plain(proc[p], q),
           ~Writing(proc[p]), disk' = disk, issued' \in {issued, issued + 1}
    PROVE  PlainStep
BY DEF PlainStep, GoOn, TypeOK

\* Two threads go on plainly.
LEMMA TwoPlain ==
    ASSUME TypeOK, NEW p \in Procs, NEW q \in Procs, NEW new, NEW other,
           proc' = [proc EXCEPT ![p] = new, ![q] = other],
           Plain(proc[p], new), Plain(proc[q], other),
           ~Writing(proc[p]), ~Writing(proc[q]), UNCHANGED <<disk, issued>>
    PROVE  PlainStep
BY DEF PlainStep, TypeOK

\* The steps of a worker that are not plain: it begins to save, or keeps what
\* it has in memory.
RefreshSaves(w) ==
    \E c \in CredsAfter(proc[w].api) :
       /\ proc[w].kind \in {"devices", "send"} /\ proc[w].phase = "net"
       /\ WithRetry(proc[w].api, c)
       /\ GoOn(w, Refreshed(proc[w], c))

WorkerKeeps(w) ==
    \/ /\ Loaded(w, "devices") \/ Loaded(w, "send")
       /\ UNCHANGED issued
       /\ GoOn(w, Requesting(proc[w], CredsOf(proc[w].copy)))
    \/ LoggedIn(w)
    \/ CameraStreamed(w)
    \/ /\ Saved(w, "camera")
       /\ UNCHANGED issued
       /\ GoOn(w, CameraFor(proc[w].job))

WorkerMoves(w) ==
    RefreshSaves(w) \/ LoginLoaded(w) \/ CameraLoaded(w) \/ WorkerKeeps(w)

LEMMA WorkerPlain ==
    ASSUME TypeOK, NEW w \in Workers, Worker(w)
    PROVE  disk' = disk /\ (PlainStep \/ WorkerMoves(w))
<1> USE DEF Procs
<1>disk. disk' = disk
  BY WorkerStep
<1>proc. w \in Procs /\ proc[w] \in Process
  BY DEF TypeOK
<1>idle. GoOn(w, Idle) /\ ~Writing(proc[w]) /\ UNCHANGED <<disk, issued>> => PlainStep
  BY <1>proc, OnePlain, PlainHeads
<1>1. CASE JobLoaded(w)
  BY <1>1, <1>idle, <1>disk
  DEF JobLoaded, Finish, Loaded, Running, Writing, WorkerMoves, WorkerKeeps
<1>2. CASE DevicesListed(w)
  <2>1. PICK c \in CredsAfter(proc[w].api) :
          /\ Running(w, "devices", "net") /\ WithRetry(proc[w].api, c)
          /\ GoOn(w, IF c.token = proc[w].copy.token THEN Done(proc[w])
                     ELSE Refreshed(proc[w], c))
    BY <1>2 DEF DevicesListed
  <2>2. CASE c.token = proc[w].copy.token
    <3>1. Plain(proc[w], Done(proc[w])) /\ ~Writing(proc[w])
      BY <1>proc, <2>1, PlainHeads DEF Running, Writing
    <3>2. issued' \in {issued, issued + 1}
      BY <2>1 DEF WithRetry
    <3> QED
      BY <1>proc, <1>disk, <2>1, <2>2, <3>1, <3>2, OnePlain
  <2>3. CASE c.token # proc[w].copy.token
    BY <1>disk, <2>1, <2>3 DEF WorkerMoves, RefreshSaves, Running
  <2> QED
    BY <2>2, <2>3
<1>3. CASE DevicesSaved(w)
  <2>1. Plain(proc[w], Done(proc[w])) /\ ~Writing(proc[w])
    BY <1>3, <1>proc, PlainHeads DEF DevicesSaved, Saved, Running, Writing
  <2> QED
    BY <1>3, <1>proc, <2>1, OnePlain DEF DevicesSaved
<1>4. CASE Uploaded(w)
  BY <1>4, <1>disk DEF Uploaded, WorkerMoves, RefreshSaves, Running
<1>5. CASE Published(w) \/ RequestFails(w)
  BY <1>5, <1>idle, <1>disk
  DEF Published, RequestFails, Finish, Saved, Running, Writing
<1>6. CASE LoggedIn(w) \/ LoginLoaded(w) \/ CameraStreamed(w) \/ CameraLoaded(w)
  BY <1>6, <1>disk DEF WorkerMoves, WorkerKeeps
<1>7. CASE LoginSaved(w)
  <2>1. Plain(proc[w], Done(proc[w])) /\ ~Writing(proc[w])
    BY <1>7, <1>proc, PlainHeads DEF LoginSaved, Saved, Running, Writing
  <2> QED
    BY <1>7, <1>proc, <1>idle, <2>1, OnePlain DEF LoginSaved
<1>8. ASSUME NEW ok \in BOOLEAN, CameraSaved(w, ok)
      PROVE  PlainStep \/ WorkerMoves(w)
  <2>1. ~Writing(proc[w])
    BY <1>8 DEF CameraSaved, Saved, Running, Writing
  <2> QED
    BY <1>8, <1>idle, <2>1 DEF CameraSaved, WorkerMoves, WorkerKeeps
<1> QED
  BY <1>disk, <1>1, <1>2, <1>3, <1>4, <1>5, <1>6, <1>7, <1>8 DEF Worker

\* A camera job of the session just read goes to a new worker.
CameraStarts ==
    /\ Loaded(UI, "snapshot") /\ UNCHANGED <<disk, issued>>
    /\ \E w \in Free :
          proc' = [proc EXCEPT ![UI] = Idle, ![w] = CameraFor(CameraJob(proc[UI].copy))]

FileStep(p) == ReadFile(p) \/ WriteFile(p) \/ SaveFails(p)

\* Every step is plain, or is one of these.
LEMMA Moves ==
    ASSUME TypeOK, [Next]_vars
    PROVE  \/ PlainStep
           \/ \E p \in Procs : FileStep(p)
           \/ \E w \in Workers : disk' = disk /\ WorkerMoves(w)
           \/ ApplyLoaded
           \/ CameraStarts
<1> USE DEF Procs
<1>proc. /\ \A p \in Procs : proc[p] \in Process
         /\ DOMAIN proc = Procs /\ UI \in Procs
  BY DEF TypeOK
<1>free. ASSUME NEW p \in Procs, NEW q, proc[p] = Idle, GoOn(p, q), Plain(proc[p], q),
                UNCHANGED <<disk, issued>>
         PROVE  PlainStep
  <2>1. ~Writing(proc[p])
    BY <1>free DEF Writing, Idle
  <2> QED
    BY <1>free, <2>1, OnePlain
<1>same. ASSUME UNCHANGED <<disk, issued, proc>> PROVE PlainStep
  BY <1>same DEF PlainStep
<1>begin. \A p \in Procs, kind \in {"apply", "account", "snapshot", "devices", "send"} :
             Plain(proc[p], Begin(kind, "load"))
  BY <1>proc, PlainHeads
<1>1. ASSUME NEW d \in Devices, PickDevice(d) PROVE PlainStep
  BY <1>1, <1>proc, <1>free, <1>begin DEF PickDevice, UIIdle
<1>2. ASSUME NEW d \in Devices \cup {None}, TypeSerial(d) PROVE PlainStep
  BY <1>2, <1>same DEF TypeSerial
<1>3. CASE ApplySaved
  <2>1. ~Writing(proc[UI]) /\ Plain(proc[UI], Idle)
    BY <1>3, <1>proc, PlainHeads DEF ApplySaved, Saved, Running, Writing
  <2> QED
    BY <1>3, <1>proc, <2>1, OnePlain DEF ApplySaved, Finish
<1>4. CASE AccountLoaded
  <2>1. ~Writing(proc[UI]) /\ Plain(proc[UI], Idle)
    BY <1>4, <1>proc, PlainHeads DEF AccountLoaded, Loaded, Running, Writing
  <2>2. UNCHANGED <<disk, issued>>
    BY <1>4 DEF AccountLoaded
  <2>3. GoOn(UI, Idle) \/ GoOn(UI, Begin("apply", "load"))
    BY <1>4 DEF AccountLoaded, Finish
  <2> QED
    BY <1>proc, <1>begin, <2>1, <2>2, <2>3, OnePlain
<1>5. CASE RefreshDevices \/ RefreshDue \/ Send
  BY <1>5, <1>proc, <1>free, <1>begin DEF RefreshDevices, RefreshDue, Send, Free
<1>6. ASSUME NEW a \in Accounts, CloudLogin(a) PROVE PlainStep
  BY <1>6, <1>proc, <1>free, PlainHeads DEF CloudLogin, Free
<1>7. ASSUME NEW w \in Workers, DevicesLoaded(w) PROVE PlainStep
  <2>0. Plain(proc[w], Idle) /\ Idle.phase = "idle"
    BY <1>proc, PlainHeads, Heads
  <2>1. /\ proc[UI] = Idle /\ ~Writing(proc[UI]) /\ ~Writing(proc[w])
        /\ Plain(proc[w], Idle) /\ UNCHANGED <<disk, issued>>
    BY <1>7, <1>proc, <2>0 DEF DevicesLoaded, UIIdle, Running, Writing
  <2>2. \/ GoOn(w, Idle)
        \/ proc' = [proc EXCEPT ![w] = Idle, ![UI] = Begin("apply", "load")]
    BY <1>7 DEF DevicesLoaded, Finish
  <2> QED
    BY <1>proc, <1>begin, <2>1, <2>2, OnePlain, TwoPlain
<1>8. ASSUME NEW w \in Workers, CloudLogged(w) PROVE PlainStep
  <2>0. Plain(proc[w], Idle) /\ Idle.phase = "idle"
    BY <1>proc, PlainHeads, Heads
  <2>1. /\ ~Writing(proc[UI]) /\ ~Writing(proc[w])
        /\ Plain(proc[w], Idle) /\ UNCHANGED <<disk, issued>>
    BY <1>8, <1>proc, <2>0 DEF CloudLogged, UIIdle, Running, Writing
  <2> QED
    BY <1>8, <1>proc, <1>begin, <2>1, TwoPlain DEF CloudLogged
<1>9. CASE CameraPlay
  BY <1>9, <1>proc, <1>free, <1>begin, <1>same DEF CameraPlay, UIIdle
<1>10. CASE CameraStop \/ UNCHANGED vars
  BY <1>10, <1>same DEF CameraStop, vars
<1>11. CASE Subscription
  BY <1>11, <1>proc, <1>free, <1>begin, <1>same DEF Subscription, UIIdle
<1>12. CASE SnapshotLoaded
  <2>1. CASE Finish(UI)
    <3>1. ~Writing(proc[UI]) /\ Plain(proc[UI], Idle)
      BY <1>12, <1>proc, PlainHeads DEF SnapshotLoaded, Loaded, Running, Writing
    <3> QED
      BY <1>12, <1>proc, <2>1, <3>1, OnePlain DEF SnapshotLoaded, Finish
  <2>2. CASE ~Finish(UI)
    BY <1>12, <2>2 DEF SnapshotLoaded, CameraStarts
  <2> QED
    BY <2>1, <2>2
<1>13. CASE Restart
  BY <1>13, <1>proc, <1>begin, PlainHeads DEF Restart, PlainStep
<1>14. ASSUME NEW w \in Workers, Worker(w)
       PROVE  disk' = disk /\ (PlainStep \/ WorkerMoves(w))
  BY <1>14, WorkerPlain
<1> QED
  BY <1>1, <1>2, <1>3, <1>4, <1>5, <1>6, <1>7, <1>8, <1>9, <1>10, <1>11, <1>12,
     <1>13, <1>14
  DEF Next, Requests, Background, Streams, Worker, FileStep

-----------------------------------------------------------------------------
\* The fields of a thread that goes on.
LEMMA SavingFields ==
    ASSUME NEW q \in Process, NEW s
    PROVE  /\ Saving(q, s).kind = q.kind /\ Saving(q, s).phase = "save"
           /\ Saving(q, s).at = 1 /\ Saving(q, s).copy = s
           /\ Saving(q, s).api = q.api /\ Saving(q, s).job = q.job
BY DEF Saving, Process

LEMMA RequestingFields ==
    ASSUME NEW q \in Process, NEW c
    PROVE  /\ Requesting(q, c).kind = q.kind /\ Requesting(q, c).phase = "net"
           /\ Requesting(q, c).copy = q.copy /\ Requesting(q, c).api = c
           /\ Requesting(q, c).job = q.job
BY DEF Requesting, Process

LEMMA LoadingFields ==
    ASSUME NEW q \in Process, NEW c, NEW k
    PROVE  /\ Loading(q, c, k).kind = q.kind /\ Loading(q, c, k).phase = "load"
           /\ Loading(q, c, k).at = 1 /\ Loading(q, c, k).copy = q.copy
           /\ Loading(q, c, k).api = c /\ Loading(q, c, k).job = q.job
BY DEF Loading, Process

LEMMA HaltedFields ==
    ASSUME NEW q \in Process
    PROVE  /\ Halted(q).at = 5 /\ Halted(q).phase = q.phase
           /\ Halted(q).copy = q.copy /\ Halted(q).api = q.api /\ Halted(q).job = q.job
BY DEF Halted, Process

LEMMA RefreshedFields ==
    ASSUME NEW q \in Process, NEW c
    PROVE  /\ Refreshed(q, c).kind = q.kind /\ Refreshed(q, c).phase = "save"
           /\ Refreshed(q, c).at = 1 /\ Refreshed(q, c).api = c
           /\ Refreshed(q, c).job = q.job
           /\ Refreshed(q, c).copy =
                  [q.copy EXCEPT !.token = c.token, !.refresh = c.refresh]
BY DEF Refreshed, Saving, Process

LEMMA CameraFields ==
    ASSUME NEW s
    PROVE  /\ CameraFor(s).kind = "camera" /\ CameraFor(s).phase = "net"
           /\ CameraFor(s).copy = NoSession /\ CameraFor(s).api = CredsOf(s)
           /\ CameraFor(s).job = s
BY DEF CameraFor, Begin, Idle

\* A file written changes the field on disk and moves the thread on; a file
\* read changes the thread's copy.
LEMMA WriteFields ==
    ASSUME TypeOK, NEW p \in Procs, WriteFile(p)
    PROVE  /\ Writing(proc[p]) /\ proc[p].at \in 1 .. 4
           /\ proc' = [proc EXCEPT ![p] = proc'[p]]
           /\ proc'[p].kind = proc[p].kind /\ proc'[p].phase = "save"
           /\ proc'[p].at = proc[p].at + 1 /\ proc'[p].copy = proc[p].copy
           /\ proc'[p].api = proc[p].api /\ proc'[p].job = proc[p].job
<1>1. proc[p] \in Process /\ DOMAIN proc = Procs
  BY DEF TypeOK
<1>2. proc'[p] = [proc[p] EXCEPT !.at = @ + 1]
  BY <1>1 DEF WriteFile
<1>3. Writing(proc[p]) /\ proc[p].at \in 1 .. 4
  BY <1>1 DEF WriteFile, Writing, Process
<1> QED
  BY <1>1, <1>2, <1>3 DEF WriteFile, TypeOK, Process

LEMMA ReadFields ==
    ASSUME TypeOK, NEW p \in Procs, ReadFile(p)
    PROVE  /\ proc[p].phase = "load" /\ proc[p].at \in 1 .. 4
           /\ proc' = [proc EXCEPT ![p] = proc'[p]]
           /\ proc'[p].kind = proc[p].kind /\ proc'[p].phase = "load"
           /\ proc'[p].at = proc[p].at + 1
           /\ proc'[p].copy =
                  [proc[p].copy EXCEPT ![FileAt[proc[p].at]] = disk[FileAt[proc[p].at]]]
           /\ proc'[p].api = proc[p].api /\ proc'[p].job = proc[p].job
<1>1. proc[p] \in Process /\ DOMAIN proc = Procs
  BY DEF TypeOK
<1>2. proc[p].phase = "load" /\ proc[p].at \in 1 .. 4
  BY <1>1 DEF ReadFile, Process
<1> DEFINE f == FileAt[proc[p].at]
<1>3. proc'[p] = [proc[p] EXCEPT !.copy[f] = disk[f], !.at = @ + 1]
  BY <1>1 DEF ReadFile
<1> QED
  BY <1>1, <1>2, <1>3 DEF ReadFile, TypeOK, Process

\* Tokens issued stay issued; one issued now is new.
LEMMA KnownGrows ==
    ASSUME TypeOK, issued' \in {issued, issued + 1}
    PROVE  Known \subseteq Known'
<1> DEFINE n == issued  m == issued'
<1>1. n \in Nat /\ m \in Nat /\ n <= m
  BY TokensAssumption DEF TypeOK
<1>2. \A t \in Tokens : t.n \in Nat
  BY TokensAssumption DEF Tokens
<1> HIDE DEF n, m
<1>3. \A t \in Tokens : t.n <= n => t.n <= m
  BY <1>1, <1>2
<1> QED
  BY <1>3 DEF Known, n, m

LEMMA TokenIsNew ==
    ASSUME TypeOK, NEW a \in Accounts, issued < MaxTokens, issued' = issued + 1
    PROVE  NewToken(a) \in Tokens /\ NewToken(a) \in Known' /\ NewToken(a) \notin Known
<1> DEFINE n == issued  t == NewToken(a)
<1>1. t \in Tokens /\ n \in Nat
  BY TokenIssued, TokensAssumption DEF TypeOK
<1>2. t.n = n + 1
  BY DEF NewToken
<1>3. t # None
  BY <1>1, NoneAssumption
<1>4. issued' = n + 1
  OBVIOUS
<1> HIDE DEF n, t
<1>5. t.n <= n + 1 /\ ~(t.n <= n)
  BY <1>1, <1>2
<1> QED
  BY <1>1, <1>3, <1>4, <1>5 DEF Known, n, t

\* with_retry leaves the credentials or a token nobody has.
LEMMA Retried ==
    ASSUME TypeOK, NEW c \in Creds, NEW after, WithRetry(c, after)
    PROVE  /\ issued' \in {issued, issued + 1}
           /\ \/ after = c
              \/ /\ after.token \in Known' /\ after.token \notin Known
                 /\ after.token # None /\ after.refresh # None
                 /\ after.user = c.user
<1>1. issued' \in {issued, issued + 1}
  BY DEF WithRetry
<1>2. ASSUME after # c
      PROVE  /\ after.token \in Known' /\ after.token \notin Known
             /\ after.token # None /\ after.refresh # None
             /\ after.user = c.user
  <2> DEFINE t == NewToken(c.refresh.acct)
  <2>1. PICK r \in IF c.refresh = None \/ issued = MaxTokens THEN {}
                   ELSE {c.refresh, t} :
          after = [c EXCEPT !.token = t, !.refresh = r]
    BY <1>2 DEF WithRetry, CredsAfter
  <2>2. c.refresh # None /\ issued # MaxTokens
    BY <2>1
  <2>3. c.refresh.acct \in Accounts
    BY <2>2 DEF Creds, Tokens
  <2>4. issued < MaxTokens
    BY <2>2, TokensAssumption DEF TypeOK
  <2>5. issued' = issued + 1
    BY <1>2 DEF WithRetry
  <2>6. t \in Tokens /\ t \in Known' /\ t \notin Known
    BY <2>3, <2>4, <2>5, TokenIsNew
  <2> HIDE DEF t
  <2>7. t # None /\ r # None
    BY <2>1, <2>2, <2>6, NoneAssumption
  <2>8. after.token = t /\ after.refresh = r /\ after.user = c.user
    BY <2>1 DEF Creds
  <2> QED
    BY <2>6, <2>7, <2>8
<1> QED
  BY <1>1, <1>2

\* A save that begins changes the expected session as it is meant to.
LEMMA Expecting ==
    ASSUME Ghosts
    PROVE  \/ expected' = expected /\ \A p \in Procs : ~Starts(p)
           \/ \E p \in Procs : Starts(p) /\ expected' = Meant(proc[p], proc'[p])
<1>1. CASE \E p \in Procs : Starts(p)
  <2> DEFINE p == CHOOSE q \in Procs : Starts(q)
  <2>1. p \in Procs /\ Starts(p)
    BY <1>1
  <2>2. expected' = Meant(proc[p], proc'[p])
    BY <1>1 DEF Ghosts
  <2> QED
    BY <2>1, <2>2
<1>2. CASE ~\E p \in Procs : Starts(p)
  BY <1>2 DEF Ghosts
<1> QED
  BY <1>1, <1>2

\* What is meant is a session with a token that is expected or the thread's.
LEMMA MeantSession ==
    ASSUME TypeOK, expected \in Session, NEW old, NEW new \in Process
    PROVE  /\ Meant(old, new) \in Session
           /\ Meant(old, new).token \in {expected.token, new.api.token}
<1>1. new.api \in Creds /\ serial \in Devices \cup {None}
  BY DEF Process, TypeOK
<1>2. [expected EXCEPT !.serial = serial] \in Session
  BY <1>1 DEF Session
<1>3. [expected EXCEPT !.serial = serial].token = expected.token
  BY DEF Session
<1>4. [new.api EXCEPT !.user = None] \in Creds /\ [new.api EXCEPT !.user = None].token = new.api.token
  BY <1>1 DEF Creds
<1>5. \A c \in Creds : WithCreds(expected, c) \in Session /\ WithCreds(expected, c).token = c.token
  <2> TAKE c \in Creds
  <2>1. WithCreds(expected, c) \in Session
    BY SessionWithCreds
  <2>2. WithCreds(expected, c).token = c.token
    BY DEF WithCreds, Session
  <2> QED
    BY <2>1, <2>2
<1> DEFINE a == [expected EXCEPT !.serial = serial]  b == WithCreds(expected, new.api)
           c == WithCreds(expected, [new.api EXCEPT !.user = None])
<1>6. /\ a \in Session /\ a.token = expected.token
      /\ b \in Session /\ b.token = new.api.token
      /\ c \in Session /\ c.token = new.api.token
  BY <1>1, <1>2, <1>3, <1>4, <1>5
<1>7. Meant(old, new) \in {a, b, c, expected}
  BY DEF Meant
<1> HIDE DEF a, b, c
<1> QED
  BY <1>6, <1>7

-----------------------------------------------------------------------------
\* Nobody has a token that was not issued.
LEMMA TokensStep ==
    ASSUME TypeOK, TypeOK', LoginNamed, TokensKnown, expected \in Session,
           [Next]_vars, Ghosts
    PROVE  TokensKnown' /\ expected' \in Session
<1> USE DEF Procs
<1>proc. /\ \A p \in Procs : proc[p] \in Process /\ proc[p].api \in Creds /\ proc[p].copy \in Session
         /\ DOMAIN proc = Procs /\ UI \in Procs
  BY FieldsOf DEF TypeOK
<1>new. \A p \in Procs : proc'[p] \in Process
  BY DEF TypeOK
<1>none. None \in Known /\ None \in Known'
  BY DEF Known
<1> DEFINE Kept == /\ Known \subseteq Known' /\ disk'.token \in Known'
                   /\ \A p \in Procs : Knows(proc'[p], Known')
<1>same. ASSUME issued' = issued PROVE Known' = Known
  BY <1>same DEF Known
<1> HIDE DEF Kept
<1>one. ASSUME NEW p \in Procs, NEW q, GoOn(p, q), Knows(q, Known'), disk' = disk,
               issued' \in {issued, issued + 1}
        PROVE  Kept
  <2>1. Known \subseteq Known'
    BY <1>one, KnownGrows
  <2>2. \A r \in Procs : proc'[r] = IF r = p THEN q ELSE proc[r]
    BY <1>one, <1>proc DEF GoOn
  <2> QED
    BY <1>one, <2>1, <2>2 DEF TokensKnown, Knows, Kept
<1>1. ASSUME PlainStep PROVE Kept
  <2>1. Known \subseteq Known'
    BY <1>1, KnownGrows DEF PlainStep
  <2>2. NoSession.token = None
    BY DEF NoSession
  <2>3. ASSUME NEW p \in Procs PROVE Knows(proc'[p], Known')
    <3>1. Knows(proc[p], Known)
      BY DEF TokensKnown
    <3>2. CASE proc'[p] = proc[p]
      BY <2>1, <3>1, <3>2 DEF Knows
    <3>3. CASE Plain(proc[p], proc'[p])
      BY <1>none, <2>1, <2>2, <3>1, <3>3 DEF Knows, Plain
    <3> QED
      BY <1>1, <3>2, <3>3 DEF PlainStep
  <2>4. disk' = disk
    BY <1>1 DEF PlainStep
  <2> QED
    BY <2>1, <2>3, <2>4 DEF TokensKnown, Kept
<1>2. ASSUME NEW p \in Procs, ReadFile(p) PROVE Kept
  <2>1. UNCHANGED <<disk, issued>>
    BY <1>2 DEF ReadFile
  <2> DEFINE f == FileAt[proc[p].at]
  <2>2. [proc[p].copy EXCEPT ![f] = disk[f]].token \in {proc[p].copy.token, disk.token}
    <3>1. f \in {"user", "token", "refresh", "serial"}
      <4>1. proc[p].at \in 1 .. 4
        BY <1>2, ReadFields
      <4> QED
        BY <4>1 DEF FileAt
    <3>2. CASE f = "token"
      BY <1>proc, <3>2 DEF Session
    <3>3. CASE f # "token"
      BY <1>proc, <3>1, <3>3 DEF Session
    <3> QED
      BY <3>2, <3>3
  <2>3. Knows(proc'[p], Known')
    <3>1. Knows(proc[p], Known) /\ disk.token \in Known /\ Known' = Known
      BY <1>same, <2>1 DEF TokensKnown
    <3>2. /\ proc'[p].copy = [proc[p].copy EXCEPT ![f] = disk[f]]
          /\ proc'[p].api = proc[p].api /\ proc'[p].job = proc[p].job
      BY <1>2, ReadFields
    <3> QED
      BY <2>2, <3>1, <3>2 DEF Knows
  <2> QED
    BY <1>2, <1>one, <2>1, <2>3, ReadFields DEF GoOn
<1>3. ASSUME NEW p \in Procs, WriteFile(p) PROVE Kept
  <2>1. Known' = Known
    BY <1>3, <1>same DEF WriteFile
  <2>2. disk'.token \in {proc[p].copy.token, disk.token}
    BY <1>3, <1>proc DEF WriteFile, TypeOK, Session
  <2>3. \A r \in Procs : r # p => proc'[r] = proc[r]
    BY <1>3, <1>proc DEF WriteFile
  <2>4. Knows(proc'[p], Known')
    BY <1>3, <2>1, WriteFields DEF TokensKnown, Knows
  <2>5. \A r \in Procs : Knows(proc'[r], Known')
    BY <2>1, <2>3, <2>4 DEF TokensKnown
  <2>6. disk'.token \in Known'
    BY <2>1, <2>2 DEF TokensKnown, Knows
  <2> QED
    BY <2>1, <2>5, <2>6 DEF Kept
<1>4. ASSUME NEW p \in Procs, SaveFails(p) PROVE Kept
  <2>1. Knows(Halted(proc[p]), Known')
    BY <1>4, <1>proc, <1>same, HaltedFields DEF SaveFails, TokensKnown, Knows
  <2> QED
    BY <1>4, <1>one, <2>1 DEF SaveFails
<1>5. ASSUME NEW w \in Workers, disk' = disk, WorkerMoves(w) PROVE Kept
  <2>p. proc[w] \in Process
    BY <1>proc
  <2>1. Knows(proc[w], Known)
    BY DEF TokensKnown
  <2>2. ASSUME NEW c, WithRetry(proc[w].api, c)
        PROVE  issued' \in {issued, issued + 1} /\ c.token \in Known' /\ Known \subseteq Known'
    <3>1. issued' \in {issued, issued + 1} /\ (c = proc[w].api \/ c.token \in Known')
      BY <1>proc, <2>2, Retried
    <3>2. Known \subseteq Known'
      BY <3>1, KnownGrows
    <3> QED
      BY <2>1, <3>1, <3>2 DEF Knows
  <2>3. ASSUME NEW c, WithRetry(proc[w].api, c), GoOn(w, Refreshed(proc[w], c))
        PROVE  Kept
    <3>1. [proc[w].copy EXCEPT !.token = c.token, !.refresh = c.refresh].token = c.token
      BY <1>proc DEF Session
    <3>2. c.token \in Known' /\ Known \subseteq Known' /\ issued' \in {issued, issued + 1}
      BY <2>2, <2>3
    <3>3. /\ Refreshed(proc[w], c).copy
                = [proc[w].copy EXCEPT !.token = c.token, !.refresh = c.refresh]
          /\ Refreshed(proc[w], c).api = c /\ Refreshed(proc[w], c).job = proc[w].job
      BY <2>p DEF Refreshed, Saving, Process
    <3>4. Knows(Refreshed(proc[w], c), Known')
      BY <2>1, <3>1, <3>2, <3>3 DEF Knows
    <3> QED
      BY <1>5, <1>one, <2>3, <3>2, <3>4
  <2>4. ASSUME UNCHANGED issued, GoOn(w, Requesting(proc[w], CredsOf(proc[w].copy)))
        PROVE  Kept
    <3>1. CredsOf(proc[w].copy).token = proc[w].copy.token
      BY DEF CredsOf
    <3>2. Knows(Requesting(proc[w], CredsOf(proc[w].copy)), Known')
      BY <1>proc, <1>same, <2>1, <2>4, <3>1, RequestingFields DEF Knows
    <3> QED
      BY <1>5, <1>one, <2>4, <3>2
  <2>5. CASE LoggedIn(w)
    <3> DEFINE a == proc[w].api.user
    <3>1. a \in Accounts /\ issued < MaxTokens /\ issued' = issued + 1
      BY <2>5 DEF LoggedIn, LoginNamed
    <3>2. NewToken(a) \in Known' /\ Known \subseteq Known'
      BY <3>1, TokenIsNew, KnownGrows
    <3>3. PICK c : c.token = NewToken(a) /\ GoOn(w, Loading(proc[w], c, TRUE))
      BY <2>5 DEF LoggedIn
    <3> DEFINE q == Loading(proc[w], c, TRUE)
    <3>4. q.copy = proc[w].copy /\ q.api = c /\ q.job = proc[w].job
      <4>1. \A k : LET r == Loading(proc[w], c, k)
                   IN r.copy = proc[w].copy /\ r.api = c /\ r.job = proc[w].job
        BY <2>p, LoadingFields
      <4> QED
        BY <4>1
    <3>5. Knows(q, Known')
      BY <2>1, <3>2, <3>3, <3>4 DEF Knows
    <3> QED
      BY <1>5, <1>one, <3>1, <3>3, <3>5
  <2>6. CASE LoginLoaded(w) \/ CameraLoaded(w)
    <3> DEFINE s == WithCreds(proc[w].copy, proc[w].api)
    <3>1. GoOn(w, Saving(proc[w], s)) /\ UNCHANGED issued
      BY <2>6 DEF LoginLoaded, CameraLoaded, Save
    <3>2. s.token = proc[w].api.token
      BY <1>proc DEF WithCreds, Session
    <3>3. Knows(Saving(proc[w], s), Known')
      BY <1>proc, <1>same, <2>1, <3>1, <3>2, SavingFields DEF Knows
    <3> QED
      BY <1>5, <1>one, <3>1, <3>3
  <2>7. CASE CameraStreamed(w)
    <3>1. PICK c, ok : WithRetry(proc[w].api, c) /\ GoOn(w, Loading(proc[w], c, ok))
      BY <2>7 DEF CameraStreamed
    <3>2. Knows(Loading(proc[w], c, ok), Known')
      BY <1>proc, <2>1, <2>2, <3>1, LoadingFields DEF Knows
    <3> QED
      BY <1>5, <1>one, <2>2, <3>1, <3>2
  <2>8. ASSUME UNCHANGED issued, GoOn(w, CameraFor(proc[w].job)) PROVE Kept
    <3>1. /\ CredsOf(proc[w].job).token = proc[w].job.token
          /\ NoSession.token = None
      BY DEF CredsOf, NoSession
    <3>2. Knows(CameraFor(proc[w].job), Known')
      BY <1>none, <1>same, <2>1, <2>8, <3>1, CameraFields DEF Knows
    <3> QED
      BY <1>5, <1>one, <2>8, <3>2
  <2> QED
    BY <1>5, <2>3, <2>4, <2>5, <2>6, <2>7, <2>8 DEF WorkerMoves, WorkerKeeps, RefreshSaves
<1>6. ASSUME ApplyLoaded PROVE Kept
  <2> DEFINE s == [proc[UI].copy EXCEPT !.serial = serial]
  <2>1. GoOn(UI, Saving(proc[UI], s)) /\ UNCHANGED <<disk, issued>>
    BY <1>6 DEF ApplyLoaded, Save
  <2>2. s.token = proc[UI].copy.token
    BY <1>proc DEF Session
  <2> DEFINE q == Saving(proc[UI], s)
  <2>3. q.copy = s /\ q.api = proc[UI].api /\ q.job = proc[UI].job
    BY <1>proc, SavingFields
  <2>4. Knows(proc[UI], Known) /\ Known' = Known
    BY <1>proc, <1>same, <2>1 DEF TokensKnown
  <2> HIDE DEF s
  <2>5. Knows(q, Known')
    BY <2>2, <2>3, <2>4 DEF Knows
  <2> HIDE DEF q
  <2>6. GoOn(UI, q)
    BY <2>1 DEF q
  <2> QED
    BY <1>proc, <1>one, <2>1, <2>5, <2>6
<1>7. ASSUME CameraStarts PROVE Kept
  <2> DEFINE job == CameraJob(proc[UI].copy)
  <2>1. PICK w \in Free : proc' = [proc EXCEPT ![UI] = Idle, ![w] = CameraFor(job)]
    BY <1>7 DEF CameraStarts
  <2>2. UNCHANGED <<disk, issued>> /\ Known' = Known
    BY <1>7, <1>same DEF CameraStarts
  <2>3. job.token = proc[UI].copy.token /\ CredsOf(job).token = job.token
    BY <1>proc DEF CameraJob, CredsOf, Session
  <2>4. NoSession.token = None
    BY DEF NoSession
  <2>5. Knows(CameraFor(job), Known)
    BY <1>proc, <1>none, <2>3, <2>4, CameraFields DEF Knows, TokensKnown
  <2>6. Knows(Idle, Known)
    BY <1>none, <2>4 DEF Knows, Idle, NoCreds
  <2>7. \A p \in Procs : proc'[p] \in {Idle, CameraFor(job), proc[p]}
    BY <2>1, <1>proc
  <2>8. ASSUME NEW p \in Procs PROVE Knows(proc'[p], Known')
    <3>1. Knows(proc[p], Known) /\ proc'[p] \in {Idle, CameraFor(job), proc[p]}
      BY <2>7 DEF TokensKnown
    <3> QED
      BY <2>2, <2>5, <2>6, <3>1
  <2> QED
    BY <2>2, <2>8 DEF TokensKnown, Kept
<1>8. Kept
  <2>1. \/ PlainStep \/ ApplyLoaded \/ CameraStarts
        \/ \E p \in Procs : FileStep(p)
        \/ \E w \in Workers : disk' = disk /\ WorkerMoves(w)
    BY Moves
  <2>2. ASSUME NEW p \in Procs, FileStep(p) PROVE Kept
    BY <1>2, <1>3, <1>4, <2>2 DEF FileStep
  <2> QED
    BY <1>1, <1>5, <1>6, <1>7, <2>1, <2>2
<1>9. expected' \in Session /\ expected'.token \in Known'
  <2>1. CASE expected' = expected
    BY <1>8, <2>1 DEF TokensKnown, Kept
  <2>2. ASSUME NEW p \in Procs, expected' = Meant(proc[p], proc'[p])
        PROVE  expected' \in Session /\ expected'.token \in Known'
    <3>1. /\ expected' \in Session
          /\ expected'.token \in {expected.token, proc'[p].api.token}
      BY <1>new, <2>2, MeantSession
    <3> QED
      BY <1>8, <3>1 DEF TokensKnown, Knows, Kept
  <2> QED
    BY <2>1, <2>2, Expecting
<1> QED
  BY <1>8, <1>9 DEF TokensKnown, Kept

-----------------------------------------------------------------------------
\* The files are four, and the order goes through each once.
LEMMA Files ==
    /\ \A k \in 1 .. 4 : FileAt[k] \in {"user", "token", "refresh", "serial"}
    /\ \A j, k \in 1 .. 4 : FileAt[j] = FileAt[k] => j = k
    /\ FileAt[1] = "user" /\ FileAt[2] = "token"
    /\ FileAt[3] = "refresh" /\ FileAt[4] = "serial"
BY DEF FileAt

\* Only a save that begins changes the expected session.
LEMMA Unstarted ==
    ASSUME Ghosts,
           \A p \in Procs : proc'[p].phase = "save" => proc[p].phase = "save"
    PROVE  expected' = expected
BY DEF Ghosts, Starts

LEMMA Started ==
    ASSUME TypeOK, Ghosts, alone', NEW p \in Procs, NEW q, GoOn(p, q),
           proc[p].phase # "save", q.phase = "save"
    PROVE  expected' = Meant(proc[p], q) /\ ~CameraOutdated(p)
<1>1. proc'[p] = q /\ \A r \in Procs : r # p => proc'[r] = proc[r]
  BY DEF GoOn, TypeOK
<1>2. Starts(p) /\ \A r \in Procs : Starts(r) => r = p
  BY <1>1 DEF Starts
<1>3. ~CameraOutdated(p)
  BY <1>2 DEF Ghosts
<1>4. expected' = Meant(proc[p], proc'[p])
  BY <1>2, Expecting
<1> QED
  BY <1>1, <1>3, <1>4

\* Steps that neither write nor begin to.
LEMMA QuietStep ==
    ASSUME Sequential, OneHolds(proc'), UNCHANGED <<disk, expected>>,
           \A p \in Procs : \/ proc'[p] = proc[p]
                            \/ /\ ~Writing(proc[p]) /\ ~Writing(proc'[p])
                               /\ Faithful(proc'[p], disk, expected)
                               /\ JobKept(proc'[p], expected),
           \A p \in Procs : Apart(proc'[p], proc', expected)
    PROVE  Sequential'
<1>1. (\A p \in Procs : ~Writing(proc'[p])) => disk = expected
  BY DEF Sequential
<1>2. \A p \in Procs : /\ Faithful(proc'[p], disk, expected)
                       /\ JobKept(proc'[p], expected)
  BY DEF Sequential
<1> QED
  BY <1>1, <1>2 DEF Sequential

\* One thread takes such a step.
LEMMA OneQuiet ==
    ASSUME TypeOK, Sequential, OneHolds(proc'), UNCHANGED <<disk, expected>>,
           NEW p \in Procs, NEW q, GoOn(p, q), ~Writing(proc[p]), ~Writing(q),
           Faithful(q, disk, expected), JobKept(q, expected),
           q.kind = "camera" => proc[p].kind = "camera" /\ q.job = proc[p].job,
           Apart(q, proc, expected)
    PROVE  Sequential'
<1>1. proc'[p] = q /\ \A r \in Procs : r # p => proc'[r] = proc[r]
  BY DEF GoOn, TypeOK
<1>2. \A r \in Procs : proc'[r].kind = "camera"
                          => proc[r].kind = "camera" /\ proc'[r].job = proc[r].job
  BY <1>1
<1>3. ASSUME NEW r \in Procs PROVE Apart(proc'[r], proc', expected)
  <2>1. Apart(proc'[r], proc, expected)
    BY <1>1 DEF Sequential
  <2> QED
    BY <1>2, <2>1 DEF Apart
<1> QED
  BY <1>1, <1>3, QuietStep

\* Several threads go on plainly.
LEMMA PlainQuiet ==
    ASSUME TypeOK, Sequential, Ghosts, alone', PlainStep
    PROVE  Sequential'
<1>1. OneHolds(proc') /\ (Restart => \A p \in Procs : proc[p].phase # "save")
  BY DEF Ghosts, OneHolds
<1>2. \A p \in Procs : \/ proc'[p] = proc[p]
                       \/ Plain(proc[p], proc'[p]) /\ ~Writing(proc[p])
  BY <1>1 DEF PlainStep, Writing
<1>3. UNCHANGED <<disk, expected>>
  BY <1>2, Unstarted DEF PlainStep, Plain
<1>4. ASSUME NEW p \in Procs, Plain(proc[p], proc'[p])
      PROVE  /\ ~Writing(proc'[p]) /\ ~Carries(proc'[p])
             /\ Faithful(proc'[p], disk, expected) /\ JobKept(proc'[p], expected)
  BY <1>4 DEF Plain, Writing, Carries, Faithful, JobKept
<1>5. \A p \in Procs : proc'[p].kind = "camera" => proc'[p] = proc[p]
  BY <1>2 DEF Plain
<1>6. ASSUME NEW p \in Procs PROVE Apart(proc'[p], proc', expected)
  <2>1. CASE proc'[p] = proc[p]
    <3>1. Apart(proc[p], proc, expected)
      BY DEF Sequential
    <3> QED
      BY <1>5, <2>1, <3>1 DEF Apart
  <2>2. CASE proc'[p] # proc[p]
    BY <1>2, <1>4, <2>2 DEF Apart
  <2> QED
    BY <2>1, <2>2
<1> QED
  BY <1>1, <1>2, <1>3, <1>4, <1>6, QuietStep

\* While a thread holds a session without writing, the files are as expected,
\* and no other thread reads, writes or is about to.
LEMMA HolderAlone ==
    ASSUME Sequential, NEW p \in Procs, Holds(proc[p]), ~Writing(proc[p])
    PROVE  /\ disk = expected
           /\ \A r \in Procs : r # p => ~Holds(proc[r])
<1>1. \A r \in Procs : r # p => ~Holds(proc[r])
  BY DEF Sequential, OneHolds
<1>2. \A r \in Procs : ~Writing(proc[r])
  BY <1>1 DEF Holds, Writing
<1> QED
  BY <1>1, <1>2 DEF Sequential

\* A save begins.
LEMMA StartStep ==
    ASSUME TypeOK, Sequential, NEW p \in Procs, NEW q, GoOn(p, q),
           Holds(proc[p]), ~Writing(proc[p]), disk' = disk,
           q.phase = "save", q.at = 1, q.kind = proc[p].kind, q.job = proc[p].job,
           Faithful(q, disk, expected'),
           \/ expected'.token = expected.token /\ expected'.refresh = expected.refresh
           \/ \A r \in Procs : proc[r].kind = "camera"
                                  => proc[r].job.token # expected'.token
    PROVE  Sequential'
<1>1. proc'[p] = q /\ \A r \in Procs : r # p => proc'[r] = proc[r]
  BY DEF GoOn, TypeOK
<1>2. \A r \in Procs : r # p => ~Holds(proc[r])
  BY HolderAlone
<1>3. Writing(q) /\ ~Carries(q)
  BY DEF Writing, Carries
<1>4. OneHolds(proc')
  BY <1>1, <1>2 DEF OneHolds
<1>5. ASSUME NEW r \in Procs
      PROVE  /\ Faithful(proc'[r], disk, expected')
             /\ Apart(proc'[r], proc', expected')
  <2>1. CASE r = p
    BY <1>1, <1>3, <2>1 DEF Apart
  <2>2. CASE r # p
    BY <1>1, <1>2, <2>2 DEF Apart, Carries, Holds, Faithful, Writing
  <2> QED
    BY <2>1, <2>2
<1>6. ASSUME NEW r \in Procs PROVE JobKept(proc'[r], expected')
  <2>1. JobKept(proc[r], expected)
    BY DEF Sequential
  <2>2. proc'[r].kind = proc[r].kind /\ proc'[r].job = proc[r].job
    BY <1>1
  <2>3. proc'[r].kind = "camera" /\ proc'[r].job.token = expected'.token
          => proc'[r].job.refresh = expected'.refresh
    BY <2>1, <2>2 DEF JobKept
  <2> QED
    BY <1>1, <2>1, <2>3 DEF JobKept
<1> QED
  BY <1>1, <1>3, <1>4, <1>5, <1>6 DEF Sequential

\* A session is its four files.
LEMMA SameFiles ==
    ASSUME NEW s \in Session, NEW t \in Session,
           \A k \in 1 .. 4 : s[FileAt[k]] = t[FileAt[k]]
    PROVE  s = t
<1>1. s.user = t.user /\ s.token = t.token /\ s.refresh = t.refresh /\ s.serial = t.serial
  BY Files
<1> QED
  BY <1>1 DEF Session

\* Changing one file leaves the others.
LEMMA OneFile ==
    ASSUME NEW s \in Session, NEW k \in 1 .. 4, NEW v
    PROVE  \A j \in 1 .. 4 : [s EXCEPT ![FileAt[k]] = v][FileAt[j]]
                                = IF j = k THEN v ELSE s[FileAt[j]]
<1>1. DOMAIN s = {"user", "token", "refresh", "serial"}
  BY DEF Session
<1>2. \A j \in 1 .. 4 : FileAt[j] \in DOMAIN s /\ (FileAt[j] = FileAt[k] => j = k)
  BY <1>1, Files
<1> QED
  BY <1>2

\* One file of a load.
LEMMA ReadStep ==
    ASSUME TypeOK, Sequential, Ghosts, alone', NEW p \in Procs, ReadFile(p)
    PROVE  Sequential'
<1>1. /\ proc[p].phase = "load" /\ proc[p].at \in 1 .. 4
      /\ proc' = [proc EXCEPT ![p] = proc'[p]]
      /\ proc'[p].kind = proc[p].kind /\ proc'[p].phase = "load"
      /\ proc'[p].at = proc[p].at + 1
      /\ proc'[p].api = proc[p].api /\ proc'[p].job = proc[p].job
  BY ReadFields
<1> DEFINE k == proc[p].at
<1>2. proc'[p].copy = [proc[p].copy EXCEPT ![FileAt[k]] = disk[FileAt[k]]]
  BY ReadFields
<1>3. proc[p].copy \in Session
  BY DEF TypeOK, Process
<1>4. \A r \in Procs : r # p => proc'[r] = proc[r]
  BY <1>1 DEF TypeOK
<1>5. UNCHANGED <<disk, expected>> /\ OneHolds(proc')
  BY <1>1, <1>4, Unstarted DEF ReadFile, Ghosts, OneHolds
<1>6. \A j \in 1 .. 4 : proc'[p].copy[FileAt[j]]
                           = IF j = k THEN disk[FileAt[j]] ELSE proc[p].copy[FileAt[j]]
  BY <1>1, <1>2, <1>3, OneFile
<1>7. /\ Faithful(proc[p], disk, expected) /\ JobKept(proc[p], expected)
      /\ Apart(proc[p], proc, expected)
  BY DEF Sequential
<1>8. \A j \in 1 .. 4 : j < k + 1 => proc'[p].copy[FileAt[j]] = disk[FileAt[j]]
  <2>1. \A j \in 1 .. 4 : j < k => proc[p].copy[FileAt[j]] = disk[FileAt[j]]
    BY <1>1, <1>7 DEF Faithful
  <2> HIDE DEF k
  <2>2. k \in 1 .. 4
    BY <1>1 DEF k
  <2>3. \A j \in 1 .. 4 : j < k + 1 => j < k \/ j = k
    BY <2>2
  <2> QED
    BY <1>6, <2>1, <2>3
<1>9. Faithful(proc'[p], disk, expected)
  BY <1>1, <1>8 DEF Faithful, Writing
<1>10. JobKept(proc'[p], expected) /\ Apart(proc'[p], proc, expected)
  BY <1>1, <1>7 DEF JobKept, Apart, Carries
<1>11. ~Writing(proc[p]) /\ ~Writing(proc'[p])
  BY <1>1 DEF Writing
<1>12. GoOn(p, proc'[p])
  BY <1>1 DEF GoOn
<1> QED
  BY <1>1, <1>5, <1>9, <1>10, <1>11, <1>12, OneQuiet

\* One file of a save.
LEMMA WriteStep ==
    ASSUME TypeOK, TypeOK', expected \in Session, Sequential, Ghosts, alone',
           NEW p \in Procs, WriteFile(p)
    PROVE  Sequential'
<1> DEFINE q == proc[p]  new == proc'[p]  k == q.at
<1>1. /\ Writing(q) /\ k \in 1 .. 4 /\ q.phase = "save"
      /\ new.kind = q.kind /\ new.phase = "save" /\ new.at = k + 1
      /\ new.copy = q.copy /\ new.api = q.api /\ new.job = q.job
  BY WriteFields DEF WriteFile
<1>2. \A r \in Procs : r # p => proc'[r] = proc[r]
  BY DEF WriteFile, TypeOK
<1>3. expected' = expected /\ OneHolds(proc')
  BY <1>1, <1>2, Unstarted DEF Ghosts, OneHolds
<1>4. \A r \in Procs : r # p => ~Holds(proc[r])
  BY <1>1 DEF Sequential, OneHolds, Holds, Writing
<1>5. \A j \in 1 .. 4 : disk'[FileAt[j]] = IF j = k /\ q.copy[FileAt[k]] # None
                                           THEN q.copy[FileAt[k]] ELSE disk[FileAt[j]]
  <2>1. disk' = IF q.copy[FileAt[k]] = None THEN disk
                ELSE [disk EXCEPT ![FileAt[k]] = q.copy[FileAt[k]]]
    BY DEF WriteFile
  <2>2. disk \in Session
    BY DEF TypeOK
  <2> QED
    BY <1>1, <2>1, <2>2, OneFile
<1>6. \A j \in 1 .. 4 : expected[FileAt[j]] = IF j >= k /\ q.copy[FileAt[j]] # None
                                              THEN q.copy[FileAt[j]] ELSE disk[FileAt[j]]
  BY <1>1 DEF Sequential, Faithful
<1>7. \A j \in 1 .. 4 : expected[FileAt[j]] = IF j >= k + 1 /\ q.copy[FileAt[j]] # None
                                              THEN q.copy[FileAt[j]] ELSE disk'[FileAt[j]]
  <2> HIDE DEF k
  <2>1. \A j \in 1 .. 4 : j >= k <=> j = k \/ j >= k + 1
    BY <1>1
  <2>2. \A j \in 1 .. 4 : j = k => ~(j >= k + 1)
    BY <1>1
  <2> QED
    BY <1>5, <1>6, <2>1, <2>2
<1>8. ASSUME ~Writing(new) PROVE disk' = expected
  <2>1. k = 4
    BY <1>1, <1>8 DEF Writing
  <2>2. \A j \in 1 .. 4 : ~(j >= k + 1)
    BY <2>1
  <2>3. \A j \in 1 .. 4 : expected[FileAt[j]] = disk'[FileAt[j]]
    BY <1>7, <2>2
  <2>4. disk' \in Session
    BY DEF TypeOK
  <2> QED
    BY <2>3, <2>4, SameFiles
<1>9. ASSUME NEW r \in Procs
      PROVE  /\ Faithful(proc'[r], disk', expected) /\ JobKept(proc'[r], expected)
             /\ Apart(proc'[r], proc', expected)
  <2>1. JobKept(proc'[r], expected)
    <3>1. JobKept(proc[r], expected)
      BY DEF Sequential
    <3>2. CASE r = p
      BY <1>1, <3>1, <3>2 DEF JobKept
    <3>3. CASE r # p
      BY <1>2, <3>1, <3>3
    <3> QED
      BY <3>2, <3>3
  <2>2. CASE r = p
    <3>1. Faithful(new, disk', expected)
      BY <1>1, <1>7 DEF Faithful
    <3>2. ~Carries(new)
      BY <1>1 DEF Carries
    <3> QED
      BY <2>1, <2>2, <3>1, <3>2 DEF Apart
  <2>3. CASE r # p
    BY <1>2, <1>4, <2>1, <2>3 DEF Apart, Carries, Holds, Faithful, Writing
  <2> QED
    BY <2>2, <2>3
<1> QED
  BY <1>3, <1>8, <1>9 DEF Sequential

\* A load that is complete has read what is on disk.
LEMMA WholeCopy ==
    ASSUME TypeOK, Sequential, NEW p \in Procs, proc[p].phase = "load", proc[p].at = 5
    PROVE  proc[p].copy = disk /\ disk = expected
<1>1. proc[p].copy \in Session /\ disk \in Session
  BY DEF TypeOK, Process
<1>2. \A k \in 1 .. 4 : proc[p].copy[FileAt[k]] = disk[FileAt[k]]
  BY DEF Sequential, Faithful
<1>3. proc[p].copy = disk
  BY <1>1, <1>2, SameFiles
<1>4. Holds(proc[p]) /\ ~Writing(proc[p])
  BY DEF Holds, Writing
<1> QED
  BY <1>3, <1>4, HolderAlone

\* A save that has all its files to write is faithful if the files it leaves
\* alone hold what is expected.
LEMMA WholeSave ==
    ASSUME NEW q, NEW d \in Session, NEW e \in Session,
           q.phase = "save", q.at = 1,
           e.user = IF q.copy.user # None THEN q.copy.user ELSE d.user,
           e.token = IF q.copy.token # None THEN q.copy.token ELSE d.token,
           e.refresh = IF q.copy.refresh # None THEN q.copy.refresh ELSE d.refresh,
           e.serial = IF q.copy.serial # None THEN q.copy.serial ELSE d.serial
    PROVE  Faithful(q, d, e)
<1>1. \A k \in 1 .. 4 : e[FileAt[k]] = IF q.copy[FileAt[k]] # None THEN q.copy[FileAt[k]]
                                       ELSE d[FileAt[k]]
  <2> TAKE k \in 1 .. 4
  <2>1. k = 1 \/ k = 2 \/ k = 3 \/ k = 4
    OBVIOUS
  <2>2. CASE k = 1
    BY <2>2, Files
  <2>3. CASE k = 2
    BY <2>3, Files
  <2>4. CASE k = 3
    BY <2>4, Files
  <2>5. CASE k = 4
    BY <2>5, Files
  <2> QED
    BY <2>1, <2>2, <2>3, <2>4, <2>5
<1>2. \A k \in 1 .. 4 : k >= 1
  OBVIOUS
<1> QED
  BY <1>1, <1>2 DEF Faithful, Writing

\* apply_device saves the session with its serial.
LEMMA ApplyStarts ==
    ASSUME TypeOK, Sequential, ApplyKept, expected \in Session, Ghosts, alone', ApplyLoaded
    PROVE  Sequential'
<1> USE DEF Procs
<1>1. proc[UI] \in Process /\ UI \in Procs
  BY DEF TypeOK
<1>2. /\ proc[UI].kind = "apply" /\ proc[UI].phase = "load" /\ proc[UI].at = 5
      /\ disk' = disk
  BY DEF ApplyLoaded, Loaded, Running
<1> DEFINE s == [proc[UI].copy EXCEPT !.serial = serial]
           q == Saving(proc[UI], s)
<1>3. proc[UI].copy = disk /\ disk = expected
  BY <1>1, <1>2, WholeCopy
<1>4. GoOn(UI, q)
  BY DEF ApplyLoaded, Save
<1>5. /\ q.phase = "save" /\ q.at = 1 /\ q.copy = s
      /\ q.kind = proc[UI].kind /\ q.job = proc[UI].job
  BY <1>1, SavingFields
<1> HIDE DEF q
<1>6. expected' = [expected EXCEPT !.serial = serial]
  BY <1>1, <1>2, <1>4, <1>5, Started DEF Meant
<1>7. serial # None /\ serial \in Devices
  BY <1>2 DEF ApplyKept, TypeOK
<1>8. /\ expected' = s /\ s \in Session
      /\ s.user = disk.user /\ s.token = disk.token /\ s.refresh = disk.refresh
      /\ s.serial # None
  BY <1>3, <1>6, <1>7 DEF Session
<1> HIDE DEF s
<1>9. Faithful(q, disk, expected')
  BY <1>3, <1>5, <1>8, WholeSave
<1>10. Holds(proc[UI]) /\ ~Writing(proc[UI])
  BY <1>2 DEF Holds, Writing
<1> QED
  BY <1>1, <1>2, <1>3, <1>4, <1>5, <1>8, <1>9, <1>10, StartStep

\* A login saves the tokens it carries.
LEMMA LoginStarts ==
    ASSUME TypeOK, Sequential, expected \in Session, Ghosts, alone',
           NEW w \in Workers, LoginLoaded(w)
    PROVE  Sequential'
<1> USE DEF Procs
<1>1. proc[w] \in Process /\ w \in Procs /\ proc[w].api \in Creds /\ disk \in Session
  BY FieldsOf DEF TypeOK
<1>2. /\ proc[w].kind = "login" /\ proc[w].phase = "load" /\ proc[w].at = 5
      /\ disk' = disk
  BY DEF LoginLoaded, Loaded, Running
<1> DEFINE s == WithCreds(proc[w].copy, proc[w].api)
           q == Saving(proc[w], s)
<1>3. proc[w].copy = disk /\ disk = expected
  BY <1>1, <1>2, WholeCopy
<1>4. GoOn(w, q)
  BY DEF LoginLoaded, Save
<1>5. /\ q.phase = "save" /\ q.at = 1 /\ q.copy = s
      /\ q.kind = proc[w].kind /\ q.job = proc[w].job /\ q.api = proc[w].api
  BY <1>1, SavingFields
<1> HIDE DEF q
<1>6. expected' = WithCreds(expected, proc[w].api)
  <2>1. expected' = Meant(proc[w], q)
    BY <1>1, <1>2, <1>4, <1>5, Started
  <2> QED
    BY <1>2, <1>5, <2>1 DEF Meant
<1>7. /\ proc[w].api.token # None
      /\ \A r \in Procs : proc[r].kind = "camera"
                             => proc[r].job.token # proc[w].api.token
  <2>1. Carries(proc[w])
    BY <1>2 DEF Carries
  <2>2. Apart(proc[w], proc, expected)
    BY <1>1 DEF Sequential
  <2> QED
    BY <2>1, <2>2 DEF Apart
<1>8. /\ expected' = s /\ s \in Session
      /\ s.token = proc[w].api.token /\ s.serial = disk.serial
      /\ s.user = None => disk.user = None
      /\ s.refresh = None => disk.refresh = None
  <2>1. expected' = s /\ s \in Session
    BY <1>1, <1>3, <1>6, SessionWithCreds
  <2> QED
    BY <1>1, <1>3, <2>1 DEF WithCreds, Session
<1> HIDE DEF s
<1>9. Faithful(q, disk, expected')
  BY <1>1, <1>5, <1>7, <1>8, WholeSave
<1>10. Holds(proc[w]) /\ ~Writing(proc[w])
  BY <1>2 DEF Holds, Writing
<1> QED
  BY <1>1, <1>2, <1>4, <1>5, <1>7, <1>8, <1>9, <1>10, StartStep

\* A list of devices or a print saves the credentials with_retry has left.
LEMMA RefreshStarts ==
    ASSUME TypeOK, Sequential, TokensKnown, expected \in Session, Ghosts, alone',
           NEW w \in Workers, proc[w].kind \in {"devices", "send"}, proc[w].phase = "net",
           NEW c, WithRetry(proc[w].api, c), GoOn(w, Refreshed(proc[w], c)), disk' = disk
    PROVE  Sequential'
<1> USE DEF Procs
<1>1. proc[w] \in Process /\ w \in Procs /\ proc[w].api \in Creds /\ disk \in Session
  BY FieldsOf DEF TypeOK
<1>2. Holds(proc[w]) /\ ~Writing(proc[w])
  BY DEF Holds, Writing
<1>3. disk = expected /\ proc[w].copy = disk /\ proc[w].api = CredsOf(disk)
  BY <1>1, <1>2, HolderAlone DEF Sequential, Faithful
<1>4. \/ c = proc[w].api
      \/ /\ c.token \notin Known /\ c.token # None /\ c.refresh # None
         /\ c.user = proc[w].api.user
  BY <1>1, Retried
<1> DEFINE q == Refreshed(proc[w], c)
           s == [proc[w].copy EXCEPT !.token = c.token, !.refresh = c.refresh]
<1>5. /\ q.phase = "save" /\ q.at = 1 /\ q.copy = s /\ q.api = c
      /\ q.kind = proc[w].kind /\ q.job = proc[w].job
  BY <1>1 DEF Refreshed, Saving, Process
<1> HIDE DEF q
<1>6. GoOn(w, q)
  BY DEF q
<1>7. expected' = IF c.token = proc[w].api.token THEN expected
                  ELSE WithCreds(expected, [c EXCEPT !.user = None])
  <2>1. expected' = Meant(proc[w], q)
    BY <1>1, <1>5, <1>6, Started
  <2>2. q.kind \notin {"apply", "login", "camera"}
    BY <1>5
  <2> QED
    BY <1>5, <2>1, <2>2 DEF Meant
<1>8. /\ proc[w].api.token \in Known
      /\ \A r \in Procs : proc[r].job.token \in Known
  BY <1>1 DEF TokensKnown, Knows
<1>9. CASE c = proc[w].api
  <2>1. expected' = expected
    BY <1>7, <1>9
  <2>2. /\ s.user = disk.user /\ s.token = disk.token
        /\ s.refresh = disk.refresh /\ s.serial = disk.serial
    BY <1>1, <1>3, <1>9 DEF CredsOf, Session
  <2> HIDE DEF s
  <2>3. Faithful(q, disk, expected')
    BY <1>1, <1>3, <1>5, <2>1, <2>2, WholeSave
  <2> QED
    BY <1>1, <1>2, <1>5, <1>6, <2>1, <2>3, StartStep
<1>10. CASE c # proc[w].api
  <2>1. /\ c.token \notin Known /\ c.token # None /\ c.refresh # None
        /\ c \in Creds
    <3>1. c \in Creds
      BY <1>1, RetriedCreds DEF TypeOK
    <3> QED
      BY <1>4, <1>10, <3>1
  <2>2. expected' = WithCreds(disk, [c EXCEPT !.user = None])
    BY <1>3, <1>7, <1>8, <2>1
  <2>3. /\ expected' \in Session
        /\ expected'.user = disk.user /\ expected'.token = c.token
        /\ expected'.refresh = c.refresh /\ expected'.serial = disk.serial
    <3>1. [c EXCEPT !.user = None] \in Creds
      BY <2>1 DEF Creds
    <3>2. expected' \in Session
      BY <1>1, <2>2, <3>1, SessionWithCreds
    <3> QED
      BY <1>1, <2>1, <2>2, <3>2 DEF WithCreds, Creds, Session
  <2>4. /\ s.user = disk.user /\ s.token = c.token
        /\ s.refresh = c.refresh /\ s.serial = disk.serial
    BY <1>1, <1>3 DEF Session
  <2> HIDE DEF s
  <2>5. Faithful(q, disk, expected')
    BY <1>1, <1>5, <2>1, <2>3, <2>4, WholeSave
  <2>6. \A r \in Procs : proc[r].job.token # expected'.token
    BY <1>8, <2>1, <2>3
  <2> QED
    BY <1>1, <1>2, <1>5, <1>6, <2>5, <2>6, StartStep
<1> QED
  BY <1>9, <1>10

\* A camera saves what its stream has left, unless others are stored by now.
LEMMA CameraSaves ==
    ASSUME TypeOK, Sequential, expected \in Session, Ghosts, alone',
           NEW w \in Workers, CameraLoaded(w)
    PROVE  Sequential'
<1> USE DEF Procs
<1>1. proc[w] \in Process /\ w \in Procs /\ proc[w].api \in Creds /\ disk \in Session
  BY FieldsOf DEF TypeOK
<1>2. /\ proc[w].kind = "camera" /\ proc[w].phase = "load" /\ proc[w].at = 5
      /\ disk' = disk
  BY DEF CameraLoaded, Loaded, Running
<1> DEFINE api == proc[w].api  job == proc[w].job
           s == WithCreds(proc[w].copy, api)
           q == Saving(proc[w], s)
<1>3. proc[w].copy = disk /\ disk = expected
  BY <1>1, <1>2, WholeCopy
<1>4. GoOn(w, q)
  BY DEF CameraLoaded, Save
<1>5. /\ q.phase = "save" /\ q.at = 1 /\ q.copy = s
      /\ q.kind = proc[w].kind /\ q.job = job /\ q.api = api
  BY <1>1, SavingFields
<1> HIDE DEF q
<1>6. expected' = Meant(proc[w], q) /\ ~CameraOutdated(w)
  BY <1>1, <1>2, <1>4, <1>5, Started
<1>7. job.token = disk.token /\ api.user = disk.user
  BY <1>2, <1>6 DEF CameraOutdated
<1>8. expected' = IF api.token = job.token THEN expected
                  ELSE WithCreds(expected, [api EXCEPT !.user = None])
  BY <1>2, <1>5, <1>6 DEF Meant
<1>9. JobKept(proc[w], expected) /\ Apart(proc[w], proc, expected)
  BY <1>1 DEF Sequential
<1>10. s \in Session /\ s.user = disk.user /\ s.serial = disk.serial /\ s.token = api.token
       /\ s.refresh = IF api.refresh = None THEN disk.refresh ELSE api.refresh
  <2>1. s \in Session
    BY <1>1, <1>3, SessionWithCreds
  <2> QED
    BY <1>1, <1>3, <1>7, <2>1 DEF WithCreds, Session
<1>11. Holds(proc[w]) /\ ~Writing(proc[w])
  BY <1>2 DEF Holds, Writing
<1>12. CASE api.token = job.token
  <2>1. api = CredsOf(job) /\ job.refresh = disk.refresh
    BY <1>2, <1>3, <1>7, <1>9, <1>12 DEF JobKept
  <2>2. s.token = disk.token /\ s.refresh = disk.refresh
    BY <1>7, <1>10, <1>12, <2>1 DEF CredsOf
  <2>3. expected' = expected
    BY <1>8, <1>12
  <2> HIDE DEF s
  <2>4. Faithful(q, disk, expected')
    BY <1>1, <1>3, <1>5, <1>10, <2>2, <2>3, WholeSave
  <2> QED
    BY <1>1, <1>2, <1>4, <1>5, <1>11, <2>3, <2>4, StartStep
<1>13. CASE api.token # job.token
  <2>1. /\ api.token # None
        /\ \A r \in Procs : proc[r].kind = "camera" => proc[r].job.token # api.token
    <3>1. Carries(proc[w])
      BY <1>2, <1>13 DEF Carries
    <3> QED
      BY <1>9, <3>1 DEF Apart
  <2>2. expected' = WithCreds(disk, [api EXCEPT !.user = None])
    BY <1>3, <1>8, <1>13
  <2>3. /\ expected' \in Session
        /\ expected'.user = disk.user /\ expected'.token = api.token
        /\ expected'.serial = disk.serial
        /\ expected'.refresh = IF api.refresh = None THEN disk.refresh ELSE api.refresh
    <3>1. [api EXCEPT !.user = None] \in Creds
      BY <1>1 DEF Creds
    <3>2. expected' \in Session
      BY <1>1, <2>2, <3>1, SessionWithCreds
    <3> QED
      BY <1>1, <2>2, <3>2 DEF WithCreds, Creds, Session
  <2> HIDE DEF s
  <2>4. Faithful(q, disk, expected')
    BY <1>1, <1>5, <1>10, <2>1, <2>3, WholeSave
  <2> QED
    BY <1>1, <1>2, <1>4, <1>5, <1>11, <2>1, <2>3, <2>4, StartStep
<1> QED
  BY <1>12, <1>13

\* The steps of a worker that keep its session in memory.
LEMMA WorkerQuiet ==
    ASSUME TypeOK, LoginNamed, Sequential, TokensKnown, Ghosts, alone',
           NEW w \in Workers, WorkerKeeps(w), disk' = disk
    PROVE  Sequential'
<1> USE DEF Procs
<1>1. /\ proc[w] \in Process /\ w \in Procs /\ DOMAIN proc = Procs
      /\ proc[w].api \in Creds
  BY FieldsOf DEF TypeOK
<1>2. OneHolds(proc')
  BY DEF Ghosts, OneHolds
<1>3. JobKept(proc[w], expected) /\ Faithful(proc[w], disk, expected)
  BY <1>1 DEF Sequential
<1>known. /\ None \in Known /\ expected.token \in Known
          /\ \A r \in Procs : proc[r].job.token \in Known
  BY DEF TokensKnown, Knows, Known
<1>one. ASSUME NEW q, GoOn(w, q), q.phase # "save", proc[w].phase # "save" \/ proc[w].at = 5,
               Faithful(q, disk, expected), JobKept(q, expected),
               q.kind = "camera" => proc[w].kind = "camera" /\ q.job = proc[w].job,
               Carries(q) => q.api.token \notin Known
        PROVE  Sequential'
  <2>1. proc'[w] = q /\ \A r \in Procs : r # w => proc'[r] = proc[r]
    BY <1>1, <1>one DEF GoOn
  <2>2. expected' = expected
    BY <1>one, <2>1, Unstarted
  <2>3. ~Writing(proc[w]) /\ ~Writing(q)
    BY <1>one DEF Writing
  <2>4. Apart(q, proc, expected)
    BY <1>known, <1>one DEF Apart
  <2> QED
    BY <1>1, <1>2, <1>one, <2>2, <2>3, <2>4, OneQuiet
<1>4. ASSUME Loaded(w, "devices") \/ Loaded(w, "send"),
             GoOn(w, Requesting(proc[w], CredsOf(proc[w].copy)))
      PROVE  Sequential'
  <2> DEFINE q == Requesting(proc[w], CredsOf(proc[w].copy))
  <2>1. proc[w].phase = "load" /\ proc[w].at = 5 /\ proc[w].kind \in {"devices", "send"}
    BY <1>4 DEF Loaded, Running
  <2>2. proc[w].copy = disk
    BY <1>1, <2>1, WholeCopy
  <2>3. q.kind = proc[w].kind /\ q.phase = "net" /\ q.copy = disk /\ q.api = CredsOf(disk)
    BY <1>1, <2>2 DEF Requesting, Process
  <2>4. GoOn(w, q)
    BY <1>4
  <2> HIDE DEF q
  <2>5. /\ Faithful(q, disk, expected) /\ JobKept(q, expected) /\ ~Carries(q)
    BY <2>1, <2>3 DEF Faithful, JobKept, Carries, Writing
  <2> QED
    BY <1>one, <2>1, <2>3, <2>4, <2>5
<1>5. CASE LoggedIn(w)
  <2>1. /\ proc[w].kind = "login" /\ proc[w].phase = "net"
        /\ proc[w].api.user \in Accounts /\ issued < MaxTokens /\ issued' = issued + 1
    BY <1>5 DEF LoggedIn, Running, LoginNamed
  <2>2. PICK c : c.token = NewToken(proc[w].api.user) /\ GoOn(w, Loading(proc[w], c, TRUE))
    BY <1>5 DEF LoggedIn
  <2>3. c.token \notin Known
    BY <2>1, <2>2, TokenIsNew
  <2> DEFINE q == Loading(proc[w], c, TRUE)
  <2>4. q.kind = "login" /\ q.phase = "load" /\ q.at = 1 /\ q.api = c
    BY <1>1, <2>1 DEF Loading, Process
  <2>5. GoOn(w, q)
    BY <2>2
  <2> HIDE DEF q
  <2>6. Faithful(q, disk, expected) /\ JobKept(q, expected)
    BY <2>4 DEF Faithful, JobKept, Writing
  <2> QED
    BY <1>one, <2>1, <2>3, <2>4, <2>5, <2>6
<1>6. CASE CameraStreamed(w)
  <2>1. proc[w].kind = "camera" /\ proc[w].phase = "net"
    BY <1>6 DEF CameraStreamed, Running
  <2>2. PICK c, ok : WithRetry(proc[w].api, c) /\ GoOn(w, Loading(proc[w], c, ok))
    BY <1>6 DEF CameraStreamed
  <2>3. c = proc[w].api \/ c.token \notin Known
    BY <1>1, <2>2, Retried
  <2> DEFINE q == Loading(proc[w], c, ok)
  <2>4. /\ q.kind = "camera" /\ q.phase = "load" /\ q.at = 1 /\ q.api = c
        /\ q.job = proc[w].job
    BY <1>1, <2>1, LoadingFields
  <2>5. GoOn(w, q)
    BY <2>2
  <2> HIDE DEF q
  <2>6. proc[w].api = CredsOf(proc[w].job)
    BY <1>3, <2>1 DEF JobKept
  <2>7. proc[w].api.token = proc[w].job.token /\ proc[w].job.token \in Known
    BY <1>1, <1>known, <2>6 DEF CredsOf
  <2>8. q.api.token = q.job.token => q.api = CredsOf(q.job)
    BY <2>3, <2>4, <2>6, <2>7
  <2>9. JobKept(q, expected)
    BY <1>3, <2>1, <2>4, <2>8 DEF JobKept
  <2>10. Carries(q) => q.api.token \notin Known
    BY <2>3, <2>4, <2>7 DEF Carries
  <2>11. Faithful(q, disk, expected)
    BY <2>4 DEF Faithful, Writing
  <2> QED
    BY <1>one, <2>1, <2>4, <2>5, <2>9, <2>10, <2>11
<1>7. ASSUME Saved(w, "camera"), GoOn(w, CameraFor(proc[w].job)) PROVE Sequential'
  <2> DEFINE q == CameraFor(proc[w].job)
  <2>1. proc[w].kind = "camera" /\ proc[w].phase = "save" /\ proc[w].at = 5
    BY <1>7 DEF Saved, Running
  <2>2. /\ q.kind = "camera" /\ q.phase = "net" /\ q.job = proc[w].job
        /\ q.api = CredsOf(proc[w].job)
    BY CameraFields
  <2>3. GoOn(w, q)
    BY <1>7
  <2> HIDE DEF q
  <2>4. JobKept(q, expected)
    BY <1>3, <2>1, <2>2 DEF JobKept
  <2>5. Faithful(q, disk, expected) /\ ~Carries(q)
    BY <2>2 DEF Faithful, Carries, Writing
  <2> QED
    BY <1>one, <2>1, <2>2, <2>3, <2>4, <2>5
<1> QED
  BY <1>4, <1>5, <1>6, <1>7 DEF WorkerKeeps

\* A camera job is the session on disk under the serial shown.
LEMMA CameraQuiet ==
    ASSUME TypeOK, Sequential, Ghosts, alone', CameraStarts
    PROVE  Sequential'
<1> USE DEF Procs
<1>1. proc[UI] \in Process /\ UI \in Procs /\ DOMAIN proc = Procs /\ proc[UI].copy \in Session
  BY FieldsOf DEF TypeOK
<1>2. /\ proc[UI].kind = "snapshot" /\ proc[UI].phase = "load" /\ proc[UI].at = 5
      /\ disk' = disk
  BY DEF CameraStarts, Loaded, Running
<1>3. proc[UI].copy = disk /\ disk = expected
  BY <1>1, <1>2, WholeCopy
<1> DEFINE job == CameraJob(proc[UI].copy)
<1>4. job.token = expected.token /\ job.refresh = expected.refresh
  BY <1>1, <1>3 DEF CameraJob, Session
<1> HIDE DEF job
<1>5. PICK w \in Free : proc' = [proc EXCEPT ![UI] = Idle, ![w] = CameraFor(job)]
  BY DEF CameraStarts, job
<1> DEFINE q == CameraFor(job)
<1>6. /\ q.kind = "camera" /\ q.phase = "net" /\ q.job = job /\ q.api = CredsOf(job)
  BY CameraFields
<1> HIDE DEF q
<1>7. w \in Workers /\ proc[w] = Idle /\ Idle.kind = "idle" /\ Idle.phase = "idle"
  BY DEF Free, Idle
<1>8. \A r \in Procs : proc'[r] = IF r = UI THEN Idle ELSE IF r = w THEN q ELSE proc[r]
  BY <1>1, <1>5, <1>7, UIAssumption DEF q
<1>9. Holds(proc[UI]) /\ ~Writing(proc[UI])
  BY <1>2 DEF Holds, Writing
<1>10. \A r \in Procs : r # UI => ~Holds(proc[r])
  BY <1>1, <1>9, HolderAlone
<1>11. ASSUME NEW r \in Procs PROVE ~Carries(proc'[r])
  BY <1>6, <1>7, <1>8, <1>10 DEF Carries, Holds
<1>12. UNCHANGED <<disk, expected>> /\ OneHolds(proc')
  <2>1. \A r \in Procs : proc'[r].phase = "save" => proc[r].phase = "save"
    BY <1>6, <1>7, <1>8
  <2> QED
    BY <1>2, <2>1, Unstarted DEF Ghosts, OneHolds
<1>13. /\ Faithful(q, disk, expected) /\ JobKept(q, expected) /\ ~Writing(q)
  BY <1>4, <1>6 DEF Faithful, JobKept, Writing
<1>14. /\ Faithful(Idle, disk, expected) /\ JobKept(Idle, expected) /\ ~Writing(Idle)
  BY <1>7 DEF Faithful, JobKept, Writing
<1>15. \A r \in Procs : \/ proc'[r] = proc[r]
                        \/ /\ ~Writing(proc[r]) /\ ~Writing(proc'[r])
                           /\ Faithful(proc'[r], disk, expected)
                           /\ JobKept(proc'[r], expected)
  BY <1>7, <1>8, <1>9, <1>13, <1>14
<1>16. \A r \in Procs : Apart(proc'[r], proc', expected)
  BY <1>11 DEF Apart
<1> QED
  BY <1>12, <1>15, <1>16, QuietStep

\* As long as the files are used by one thread after the other, each holds a
\* session that is on disk or expected.
LEMMA SequentialStep ==
    ASSUME TypeOK, TypeOK', LoginNamed, ApplyKept, TokensKnown, expected \in Session,
           Sequential, [Next]_vars, Ghosts, alone'
    PROVE  Sequential'
<1>1. CASE PlainStep
  BY <1>1, PlainQuiet
<1>2. ASSUME NEW p \in Procs, FileStep(p) PROVE Sequential'
  <2>1. ReadFile(p) \/ WriteFile(p)
    BY <1>2 DEF FileStep, Ghosts
  <2> QED
    BY <2>1, ReadStep, WriteStep
<1>3. ASSUME NEW w \in Workers, disk' = disk, WorkerMoves(w) PROVE Sequential'
  <2>1. CASE RefreshSaves(w)
    <3>1. PICK c : WithRetry(proc[w].api, c) /\ GoOn(w, Refreshed(proc[w], c))
      BY <2>1 DEF RefreshSaves
    <3>2. proc[w].kind \in {"devices", "send"} /\ proc[w].phase = "net"
      BY <2>1 DEF RefreshSaves
    <3> QED
      BY <1>3, <3>1, <3>2, RefreshStarts
  <2>2. CASE LoginLoaded(w)
    BY <2>2, LoginStarts
  <2>3. CASE CameraLoaded(w)
    BY <2>3, CameraSaves
  <2>4. CASE WorkerKeeps(w)
    BY <1>3, <2>4, WorkerQuiet
  <2> QED
    BY <1>3, <2>1, <2>2, <2>3, <2>4 DEF WorkerMoves
<1>4. CASE ApplyLoaded
  BY <1>4, ApplyStarts
<1>5. CASE CameraStarts
  BY <1>5, CameraQuiet
<1> QED
  BY <1>1, <1>2, <1>3, <1>4, <1>5, Moves

\* The ghosts are typed, and the invariant holds while `alone` does.
SessionInv ==
    /\ TypeOK /\ LoginNamed /\ ApplyKept /\ TokensKnown
    /\ expected \in Session /\ alone \in BOOLEAN
    /\ alone => Sequential

LEMMA SessionStart == MCInit => SessionInv
<1> SUFFICES ASSUME MCInit PROVE SessionInv
  OBVIOUS
<1> USE DEF Procs
<1>1. Init /\ TypeOK /\ expected = disk /\ alone = TRUE
  BY TypeInit DEF MCInit
<1>2. \A p \in Procs : proc[p] = IF p = UI THEN Begin("account", "load") ELSE Idle
  BY <1>1 DEF Init
<1>3. /\ Idle.kind = "idle" /\ Idle.phase = "idle"
      /\ Begin("account", "load").kind = "account"
      /\ Begin("account", "load").phase = "load" /\ Begin("account", "load").at = 1
  BY DEF Begin, Idle
<1>4. /\ Idle.copy.token = None /\ Idle.api.token = None /\ Idle.job.token = None
      /\ Begin("account", "load").copy.token = None
      /\ Begin("account", "load").api.token = None
      /\ Begin("account", "load").job.token = None
  BY DEF Begin, Idle, NoSession, NoCreds
<1>5. LoginNamed /\ ApplyKept
  BY <1>2, <1>3, UIAssumption DEF LoginNamed, ApplyKept, Running
<1>6. disk.token \in Known
  <2>1. disk \in Session /\ (disk.token = None \/ disk.token.n = 0) /\ issued = 0
    BY <1>1, StoredAssumption DEF Init
  <2>2. disk.token \in Tokens \cup {None}
    BY <2>1 DEF Session
  <2> QED
    BY <2>1, <2>2 DEF Known
<1>7. ASSUME NEW p \in Procs PROVE Knows(proc[p], Known)
  <2>1. None \in Known
    BY DEF Known
  <2> QED
    BY <1>2, <1>4, <2>1 DEF Knows
<1>8. ASSUME NEW p \in Procs
      PROVE  /\ Faithful(proc[p], disk, expected) /\ JobKept(proc[p], expected)
             /\ Apart(proc[p], proc, expected)
  BY <1>2, <1>3 DEF Faithful, JobKept, Apart, Carries, Writing
<1>9. OneHolds(proc)
  BY <1>2, <1>3 DEF OneHolds, Holds
<1> QED
  BY <1>1, <1>5, <1>6, <1>7, <1>8, <1>9
  DEF SessionInv, TokensKnown, Sequential, TypeOK

LEMMA SessionStep ==
    SessionInv /\ [MCNext]_<<vars, requests, streams, expected, alone>> => SessionInv'
<1> SUFFICES ASSUME SessionInv, [MCNext]_<<vars, requests, streams, expected, alone>>
             PROVE  SessionInv'
  OBVIOUS
<1>1. CASE MCNext
  <2>1. [Next]_vars /\ Ghosts
    BY <1>1 DEF MCNext, Next
  <2>2. TypeOK' /\ LoginNamed' /\ ApplyKept'
    BY <2>1, TypeStep, LoginStep, ApplyStep DEF SessionInv
  <2>3. TokensKnown' /\ expected' \in Session
    BY <2>1, <2>2, TokensStep DEF SessionInv
  <2>4. alone' \in BOOLEAN /\ (alone' => alone)
    BY <2>1 DEF Ghosts
  <2>5. alone' => Sequential'
    BY <2>1, <2>2, <2>4, SequentialStep DEF SessionInv
  <2> QED
    BY <2>2, <2>3, <2>4, <2>5 DEF SessionInv
<1>2. CASE UNCHANGED <<vars, requests, streams, expected, alone>>
  <2>1. TypeOK' /\ LoginNamed' /\ ApplyKept'
    BY <1>2, TypeStep, LoginStep, ApplyStep DEF SessionInv
  <2>2. UNCHANGED <<disk, issued, proc, expected, alone>>
    BY <1>2 DEF vars
  <2> QED
    BY <2>1, <2>2 DEF SessionInv, TokensKnown, Known, Sequential
<1> QED
  BY <1>1, <1>2

\* As long as no two threads have overlapped, no write has failed and no camera
\* has outlived its login, rewriting whole sessions loses, mixes and brings back
\* nothing: whenever no thread is in the middle of a save, the files hold what
\* atomic updates of the meant fields would have left.
THEOREM SequentialUseKept == MCSpec => []SequentialUse
<1>1. SessionInv => SequentialUse
  <2>1. ASSUME Sequential, \A p \in Procs : proc[p].phase # "save" \/ proc[p].at = 5
        PROVE  disk = expected
    BY <2>1 DEF Sequential, Writing
  <2> QED
    BY <2>1 DEF SessionInv, SequentialUse
<1> QED
  BY <1>1, SessionStart, SessionStep, PTL DEF MCSpec
=============================================================================
