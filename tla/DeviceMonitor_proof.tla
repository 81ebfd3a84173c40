-------------------------- MODULE DeviceMonitor_proof --------------------------
(***************************************************************************)
(* Theorems about DeviceMonitor, for any printers, any parts of a report   *)
(* and any number of changes of the address and of commands.               *)
(***************************************************************************)
EXTENDS DeviceMonitor, TLAPS

FieldsOK ==
    /\ host \in Fields /\ code \in Fields /\ serial \in Fields
    /\ login \in BOOLEAN /\ bound \in Fields
    /\ imported \in SUBSET Devices /\ disk \in SUBSET Devices /\ listed \in SUBSET Devices
    /\ live \in BOOLEAN

\* A request that is not out of date asks the printer addressed.
SinceTarget == \A f \in fetches : f.since => f.target = Target

\* Once the printer addressed has reported, no request to another is under way.
OwnOnly == own # {} => \A f \in fetches : f.since

\* The strengthening that makes the invariants inductive.
Monitored ==
    /\ TypeOK
    /\ commands <= sent
    /\ FetchBacked
    /\ SinceTarget
    /\ OwnOnly
    /\ OwnShown

-----------------------------------------------------------------------------
(* The address                                                               *)

\* The printer reached is a printer, or none.
LEMMA ReachedType ==
    ASSUME NEW h \in Fields, NEW c \in Fields, NEW s \in Fields, NEW b \in Fields, NEW l
    PROVE  Reached(h, c, s, b, l) \in Fields
BY DEF Reached, Fields

\* apply_device leaves a code, a serial and a stored serial.
LEMMA AppliedType ==
    ASSUME FieldsOK, NEW d \in Fields, NEW c \in Fields,
           NEW loaded, NEW stored, ApplyDevice(d, c, loaded, stored)
    PROVE  code' \in Fields /\ serial' \in Fields /\ bound' \in Fields
<1>1. CodeFor(d, c, loaded, stored) \in Fields
  BY DEF CodeFor, Fields
<1> QED
  BY <1>1 DEF ApplyDevice, FieldsOK

\* Every handler that may move the address leaves the fields typed, the flag and the
\* requests to refresh_monitor, and the rest to Edit.
LEMMA Handlers ==
    ASSUME TypeOK, EditAddress
    PROVE  FieldsOK' /\ Edit /\ (NoRefresh \/ RefreshMonitor)
<1>a. FieldsOK /\ None \in Fields
  BY DEF TypeOK, FieldsOK, Fields
<1>b. ASSUME Quiet \/ StartLiveSync \/ SyncIfOff
      PROVE  live' \in BOOLEAN /\ (NoRefresh \/ RefreshMonitor)
  BY <1>a, <1>b DEF Quiet, StartLiveSync, SyncIfOff, FieldsOK
<1>1. ASSUME NEW d \in Fields, SetHost(d) \/ SetAccessCode(d) \/ SetSerial(d)
      PROVE  FieldsOK' /\ Edit /\ (NoRefresh \/ RefreshMonitor)
  BY <1>a, <1>b, <1>1 DEF SetHost, SetAccessCode, SetSerial, FieldsOK, accounts
<1>2. ASSUME NEW d \in Devices, PickDevice(d) \/ Discovered(d)
      PROVE  FieldsOK' /\ Edit /\ (NoRefresh \/ RefreshMonitor)
  <2>1. d \in Fields /\ code \in Fields
    BY <1>a DEF Fields, FieldsOK
  <2>2. code' \in Fields /\ serial' \in Fields /\ bound' \in Fields
    BY <1>2, <1>a, <2>1, AppliedType DEF PickDevice, Discovered
  <2> QED
    BY <1>a, <1>b, <1>2, <2>1, <2>2 DEF PickDevice, Discovered, FieldsOK
<1>3. ASSUME NEW list \in SUBSET Devices, NEW codes \in SUBSET list, DevicesLoaded(list, codes)
      PROVE  FieldsOK' /\ Edit /\ (NoRefresh \/ RefreshMonitor)
  <2>1. PICK d \in Restored(serial, list) :
           /\ ApplyDevice(d, code, imported, disk')
           /\ UNCHANGED <<host, login, imported>>
           /\ IF d = None THEN Quiet ELSE StartLiveSync
    BY <1>3 DEF DevicesLoaded
  <2>2. d \in Fields /\ code \in Fields
    BY <1>a DEF Restored, Fields, FieldsOK
  <2>3. code' \in Fields /\ serial' \in Fields /\ bound' \in Fields
    BY <1>a, <2>1, <2>2, AppliedType
  <2> QED
    BY <1>a, <1>b, <1>3, <2>1, <2>3 DEF DevicesLoaded, FieldsOK
<1>4. ASSUME CloudLogged
      PROVE  FieldsOK' /\ Edit /\ (NoRefresh \/ RefreshMonitor)
  <2> DEFINE s == IF serial = None THEN bound ELSE serial
             c == CodeFor(None, code, {}, {})
  <2>1. s \in Fields /\ c \in Fields
    BY <1>a DEF FieldsOK, CodeFor
  <2>2. ApplyDevice(s, c, disk, disk)
    BY <1>4 DEF CloudLogged, Account
  <2>3. code' \in Fields /\ serial' \in Fields /\ bound' \in Fields
    BY <1>a, <2>1, <2>2, AppliedType
  <2> QED
    BY <1>a, <1>b, <1>4, <2>3 DEF CloudLogged, Account, FieldsOK
<1>5. ASSUME NEW codes \in SUBSET Devices, NEW found \in SUBSET Devices,
             NEW default \in Fields, NEW token \in BOOLEAN,
             StudioImported(codes, default, found, token)
      PROVE  FieldsOK' /\ Edit /\ (NoRefresh \/ RefreshMonitor)
  <2> DEFINE s == IF serial # None THEN serial ELSE IF bound # None THEN bound ELSE default
             seen == IF s \in found THEN {s} ELSE IF found = {} THEN {None} ELSE found
  <2>1. s \in Fields /\ code \in Fields /\ seen \subseteq Fields
    BY <1>a DEF FieldsOK, Fields
  <2>2. CASE host # None \/ found = {}
    <3>1. host' = host /\ ApplyDevice(s, code, disk', disk')
      BY <1>5, <2>2 DEF StudioImported
    <3>2. code' \in Fields /\ serial' \in Fields /\ bound' \in Fields
      BY <1>a, <2>1, <3>1, AppliedType
    <3> QED
      BY <1>a, <1>b, <1>5, <3>1, <3>2 DEF StudioImported, FieldsOK
  <2>3. CASE ~(host # None \/ found = {})
    <3>1. PICK h \in seen :
             host' = h /\ ApplyDevice(IF s = None THEN h ELSE s, code, disk', disk')
      BY <1>5, <2>3 DEF StudioImported
    <3>2. (IF s = None THEN h ELSE s) \in Fields /\ h \in Fields
      BY <2>1
    <3>3. code' \in Fields /\ serial' \in Fields /\ bound' \in Fields
      BY <1>a, <2>1, <3>1, <3>2, AppliedType
    <3> QED
      BY <1>a, <1>b, <1>5, <3>1, <3>2, <3>3 DEF StudioImported, FieldsOK
  <2> QED
    BY <2>2, <2>3
<1>6. ASSUME CameraPlay
      PROVE  FieldsOK' /\ Edit /\ (NoRefresh \/ RefreshMonitor)
  <2>1. serial \in Fields /\ code \in Fields
    BY <1>a DEF FieldsOK
  <2>2. code' \in Fields /\ serial' \in Fields /\ bound' \in Fields
    BY <1>a, <1>6, <2>1, AppliedType DEF CameraPlay
  <2> QED
    BY <1>a, <1>b, <1>6, <2>2 DEF CameraPlay, FieldsOK
<1>7. ASSUME NEW found \in SUBSET Devices, CameraLan(found)
      PROVE  FieldsOK' /\ Edit /\ (NoRefresh \/ RefreshMonitor)
  <2>1. PICK h \in (IF serial = None THEN found ELSE found \cap {serial}) :
           /\ host' = h
           /\ ApplyDevice(IF serial = None THEN h ELSE serial, code, imported, disk)
    BY <1>7 DEF CameraLan
  <2>2. h \in Fields /\ (IF serial = None THEN h ELSE serial) \in Fields /\ code \in Fields
    BY <1>a DEF FieldsOK, Fields
  <2>3. code' \in Fields /\ serial' \in Fields /\ bound' \in Fields
    BY <1>a, <2>1, <2>2, AppliedType
  <2> QED
    BY <1>a, <1>b, <1>7, <2>1, <2>2, <2>3 DEF CameraLan, FieldsOK
<1> QED
  BY <1>1, <1>2, <1>3, <1>4, <1>5, <1>6, <1>7 DEF EditAddress

-----------------------------------------------------------------------------
(* Requests                                                                  *)

\* refresh_monitor keeps one request at a time, and begins it at the printer addressed.
LEMMA Refreshed ==
    ASSUME Monitored, FieldsOK', NoRefresh \/ RefreshMonitor,
           own' = (IF Target' = Target THEN own ELSE {})
    PROVE  /\ fetching' \in BOOLEAN /\ fetches' \in SUBSET Fetch
           /\ FetchBacked' /\ SinceTarget' /\ OwnOnly'
<1>1. Target' \in Fields
  BY ReachedType DEF FieldsOK, Target
<1> DEFINE new == [target |-> Target', since |-> TRUE, after |-> TRUE]
<1>2. new \in Fetch
  BY <1>1 DEF Fetch
<1>3. ASSUME NEW f \in fetches
      PROVE  /\ f \in Fetch /\ [f EXCEPT !.since = FALSE] \in Fetch
             /\ [f EXCEPT !.since = FALSE].since = FALSE
  BY DEF Monitored, TypeOK, Fetch
<1>4. Aged \subseteq Fetch
  BY <1>3 DEF Aged
<1>5. \A f \in Aged : f.since => Target' = Target /\ f \in fetches
  BY <1>3 DEF Aged
<1>6. (Aged = {} <=> fetches = {}) /\ \A f, g \in Aged : f = g
  BY DEF Aged, Monitored, FetchBacked
<1>7. \A f \in Aged : f.since => f.target = Target'
  BY <1>5 DEF Monitored, SinceTarget
<1>8. own' # {} => \A f \in Aged : f.since
  BY DEF Monitored, OwnOnly, Aged
<1>9. CASE NoRefresh
  <2>1. fetching' = fetching /\ fetches' = Aged
    BY <1>9 DEF NoRefresh
  <2> QED
    BY <1>4, <1>6, <1>7, <1>8, <2>1
    DEF Monitored, TypeOK, FetchBacked, SinceTarget, OwnOnly
<1>10. CASE RefreshMonitor /\ ~fetching
  <2>1. fetching' = TRUE /\ fetches' = {new}
    BY <1>6, <1>10 DEF RefreshMonitor, Monitored, FetchBacked
  <2> QED
    BY <1>2, <2>1 DEF FetchBacked, SinceTarget, OwnOnly
<1> QED
  BY <1>9, <1>10 DEF RefreshMonitor

\* The same for a step that leaves the address alone.
LEMMA TargetKept ==
    ASSUME Unmoved PROVE Target' = Target
BY DEF Unmoved, Target, address, accounts

-----------------------------------------------------------------------------
(* The invariant                                                             *)

\* The state after App::new.
LEMMA MonitoredInit == Init => Monitored
<1> SUFFICES ASSUME Init PROVE Monitored
  OBVIOUS
<1>1. bound \in Fields /\ None \in Fields
  BY DEF Init, Fields
<1>2. CodeFor(bound, None, imported, disk) \in Fields
  BY <1>1 DEF CodeFor
<1>3. shown \in [Shown -> Fields]
  BY <1>1 DEF Init
<1>4. 0 \in 0 .. MaxCommands /\ 0 \in 0 .. MaxEdits
  BY Bounds
<1>5. TypeOK
  BY <1>1, <1>2, <1>3, <1>4 DEF Init, TypeOK
<1>6. commands <= sent /\ FetchBacked /\ SinceTarget /\ OwnOnly /\ OwnShown
  BY DEF Init, FetchBacked, SinceTarget, OwnOnly, OwnShown
<1> QED
  BY <1>5, <1>6 DEF Monitored

\* Every handler keeps the invariant.
LEMMA MonitoredStep == Monitored /\ [Next]_vars => Monitored'
<1> SUFFICES ASSUME Monitored, [Next]_vars PROVE Monitored'
  OBVIOUS
<1>a. TypeOK /\ FieldsOK
  BY DEF Monitored, TypeOK, FieldsOK
<1>1. CASE EditAddress
  <2>1. FieldsOK' /\ Edit /\ (NoRefresh \/ RefreshMonitor)
    BY <1>a, <1>1, Handlers
  <2>2. own' = IF Target' = Target THEN own ELSE {}
    BY <2>1 DEF Edit
  <2>3. /\ fetching' \in BOOLEAN /\ fetches' \in SUBSET Fetch
        /\ FetchBacked' /\ SinceTarget' /\ OwnOnly'
    BY <2>1, <2>2, Refreshed
  <2>4. edits' \in 0 .. MaxEdits
    BY <1>a, <2>1, Bounds DEF TypeOK, Edit
  <2>5. OwnShown'
    BY <2>1, <2>2 DEF Edit, OwnShown, Monitored
  <2> QED
    BY <1>a, <2>1, <2>2, <2>3, <2>4, <2>5 DEF Monitored, TypeOK, FieldsOK, Edit
<1>2. ASSUME EnterDevice \/ Tick \/ \E on \in BOOLEAN : LiveMonitor(on)
      PROVE  Monitored'
  <2>1. Unmoved /\ UNCHANGED <<shown, commands, sent, history>>
    BY <1>2 DEF EnterDevice, Tick, LiveMonitor
  <2>2. live' \in BOOLEAN /\ (NoRefresh \/ RefreshMonitor)
    BY <1>a, <1>2 DEF EnterDevice, Tick, LiveMonitor, StartLiveSync, FieldsOK
  <2>3. Target' = Target /\ own' = own
    BY <2>1, TargetKept DEF history
  <2>4. FieldsOK'
    BY <1>a, <2>1, <2>2 DEF FieldsOK, Unmoved, address, accounts
  <2>5. /\ fetching' \in BOOLEAN /\ fetches' \in SUBSET Fetch
        /\ FetchBacked' /\ SinceTarget' /\ OwnOnly'
    BY <2>2, <2>3, <2>4, Refreshed
  <2> QED
    BY <1>a, <2>1, <2>3, <2>4, <2>5
    DEF Monitored, TypeOK, FieldsOK, OwnShown, Unmoved, history
<1>3. ASSUME NEW f \in fetches, NEW has \in SUBSET Parts, StatusOk(f, has)
      PROVE  Monitored'
  <2>1. Unmoved /\ Target' = Target
    BY <1>3, TargetKept DEF StatusOk
  <2>2. fetching' = FALSE /\ fetches' = {}
    BY <1>3 DEF StatusOk, Monitored, FetchBacked
  <2> DEFINE got == has \cup {"machine"}
  <2>3. got \subseteq Shown /\ f \in Fetch /\ f.target \in Fields
    BY <1>a DEF Shown, TypeOK, Fetch
  <2>4. shown' = [p \in Shown |-> IF p \in got THEN f.target ELSE shown[p]]
    BY <1>3 DEF StatusOk, Retained
  <2>5. shown' \in [Shown -> Fields]
    BY <1>a, <2>3, <2>4 DEF TypeOK
  <2>6. own' \in SUBSET Shown
    BY <1>3, <1>a, <2>3 DEF StatusOk, TypeOK
  <2>7. OwnShown'
    <3>1. CASE f.since
      <4>1. f.target = Target
        BY <3>1 DEF Monitored, SinceTarget
      <4>2. own' = own \cup got /\ own \subseteq Shown
        BY <1>3, <1>a, <3>1 DEF StatusOk, TypeOK
      <4> QED
        BY <2>1, <2>3, <2>4, <4>1, <4>2 DEF OwnShown, Monitored
    <3>2. CASE ~f.since
      <4>1. own = {} /\ own' = own
        BY <1>3, <3>2 DEF StatusOk, Monitored, OwnOnly
      <4> QED
        BY <4>1 DEF OwnShown
    <3> QED
      BY <3>1, <3>2
  <2>8. FetchBacked' /\ SinceTarget' /\ OwnOnly'
    BY <2>2 DEF FetchBacked, SinceTarget, OwnOnly
  <2>9. unseen' \in BOOLEAN
    BY <1>3 DEF StatusOk
  <2> QED
    BY <1>3, <1>a, <2>1, <2>2, <2>5, <2>6, <2>7, <2>8, <2>9
    DEF StatusOk, Monitored, TypeOK, Unmoved, address, accounts
<1>4. ASSUME NEW f \in fetches, StatusErr(f) PROVE Monitored'
  <2>1. Unmoved /\ Target' = Target
    BY <1>4, TargetKept DEF StatusErr
  <2>2. fetching' = FALSE /\ fetches' = {}
    BY <1>4 DEF StatusErr, Monitored, FetchBacked
  <2>3. FetchBacked' /\ SinceTarget' /\ OwnOnly'
    BY <2>2 DEF FetchBacked, SinceTarget, OwnOnly
  <2> QED
    BY <1>4, <1>a, <2>1, <2>2, <2>3
    DEF StatusErr, Monitored, TypeOK, OwnShown, Unmoved, address, accounts, history
<1>5. CASE SendCommand
  <2>1. Unmoved /\ Target' = Target
    BY <1>5, TargetKept DEF SendCommand
  <2>2. /\ commands' \in 0 .. MaxCommands /\ sent' \in 0 .. MaxCommands
        /\ commands' <= sent'
    BY <1>5, <1>a, Bounds DEF SendCommand, Monitored, TypeOK
  <2> QED
    BY <1>5, <1>a, <2>1, <2>2
    DEF SendCommand, Monitored, TypeOK, FetchBacked, SinceTarget, OwnOnly, OwnShown,
        Unmoved, address, accounts, monitor, history
<1>6. CASE CommandOk
  <2>1. Unmoved /\ Target' = Target
    BY <1>6, TargetKept DEF CommandOk
  <2>2. commands' \in 0 .. MaxCommands /\ commands' <= sent'
    BY <1>6, <1>a, Bounds DEF CommandOk, Monitored, TypeOK
  <2> DEFINE before == {[f EXCEPT !.after = FALSE] : f \in fetches}
             new == [target |-> Target, since |-> TRUE, after |-> TRUE]
  <2>3. ASSUME NEW f \in fetches
        PROVE  /\ [f EXCEPT !.after = FALSE] \in Fetch
               /\ [f EXCEPT !.after = FALSE].since = f.since
               /\ [f EXCEPT !.after = FALSE].target = f.target
    BY <1>a DEF TypeOK, Fetch
  <2>4. /\ before \subseteq Fetch
        /\ before = {} <=> fetches = {}
        /\ \A f, g \in before : f = g
        /\ \A f \in before : f.since => f.target = Target
        /\ own # {} => \A f \in before : f.since
    BY <2>3 DEF Monitored, FetchBacked, SinceTarget, OwnOnly
  <2>5. own' = own
    BY <1>6 DEF CommandOk
  <2>6. new \in Fetch
    BY <1>a, ReachedType DEF Fetch, FieldsOK, Target
  <2>7. CASE fetching
    <3>1. fetching' = fetching /\ fetches' = before
      BY <1>6, <2>7 DEF CommandOk
    <3> QED
      BY <1>6, <1>a, <2>1, <2>2, <2>4, <2>5, <3>1
      DEF CommandOk, Monitored, TypeOK, FetchBacked, SinceTarget, OwnOnly, OwnShown,
          Unmoved, address, accounts
  <2>8. CASE ~fetching
    <3>1. fetching' = TRUE /\ fetches' = {new}
      BY <1>6, <2>4, <2>8 DEF CommandOk, Monitored, FetchBacked
    <3>2. FetchBacked' /\ SinceTarget' /\ OwnOnly'
      BY <2>1, <3>1 DEF FetchBacked, SinceTarget, OwnOnly
    <3> QED
      BY <1>6, <1>a, <2>1, <2>2, <2>5, <2>6, <3>1, <3>2
      DEF CommandOk, Monitored, TypeOK, OwnShown, Unmoved, address, accounts
  <2> QED
    BY <2>7, <2>8
<1>7. CASE CommandErr
  <2>1. Unmoved /\ Target' = Target
    BY <1>7, TargetKept DEF CommandErr
  <2>2. commands' \in 0 .. MaxCommands /\ commands' <= sent'
    BY <1>7, <1>a, Bounds DEF CommandErr, Monitored, TypeOK
  <2> QED
    BY <1>7, <1>a, <2>1, <2>2
    DEF CommandErr, Monitored, TypeOK, FetchBacked, SinceTarget, OwnOnly, OwnShown,
        Unmoved, address, accounts, monitor, history
<1>8. CASE UNCHANGED vars
  BY <1>8, <1>a
  DEF vars, Monitored, TypeOK, FetchBacked, SinceTarget, OwnOnly, OwnShown, Target,
      address, accounts, monitor, history
<1> QED
  BY <1>1, <1>2, <1>3, <1>4, <1>5, <1>6, <1>7, <1>8 DEF Next, StatusAnswer

-----------------------------------------------------------------------------
(* The theorems                                                              *)

\* The inductive invariant: one request at a time, and requests that are out of date are
\* known to be (refresh_monitor and the handlers that move the address).
THEOREM MonitorCorrect == Spec => []Monitored
BY MonitoredInit, MonitoredStep, PTL DEF Spec

\* The variables of the Device workspace keep the types of App's fields.
THEOREM TypeCorrect == Spec => []TypeOK
<1>1. Monitored => TypeOK
  BY DEF Monitored
<1> QED
  BY <1>1, MonitorCorrect, PTL

\* monitor_fetching is up exactly while one status request is under way (refresh_monitor).
THEOREM OneFetch == Spec => []FetchBacked
<1>1. Monitored => FetchBacked
  BY DEF Monitored
<1> QED
  BY <1>1, MonitorCorrect, PTL

\* No late or retained status hides what the printer addressed has reported
\* (Message::Status, retain_machine, retain_ams).
THEOREM OwnStatusShown == Spec => []OwnShown
<1>1. Monitored => OwnShown
  BY DEF Monitored
<1> QED
  BY <1>1, MonitorCorrect, PTL
=============================================================================
