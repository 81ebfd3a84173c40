----------------------------- MODULE DeviceMonitor -----------------------------
(***************************************************************************)
(* The Device workspace of the studio: which printer it is pointed at, the *)
(* status requests of the live monitor, and the status it shows            *)
(* (crates/elysian-ui/src/lib.rs and monitor.rs).  A printer is addressed  *)
(* by three fields that are set apart from one another: the LAN host, the  *)
(* LAN access code and the serial.  Each is modelled by the printer it     *)
(* belongs to.  Status requests are background tasks that keep the address *)
(* they were started with; the user may point the studio elsewhere before  *)
(* they answer.                                                            *)
(***************************************************************************)
EXTENDS FiniteSets, Integers

CONSTANTS
    Devices,        \* the printers
    None,           \* an empty field
    Parts,          \* what a report may lack: "ams", "rack", "ota"
    MaxEdits,       \* bound on the changes of the address
    MaxCommands     \* bound on the commands of the user

ASSUME NoDevice == None \notin Devices
ASSUME Bounds == MaxEdits \in Nat /\ MaxCommands \in Nat
ASSUME MachineIsNoPart == "machine" \notin Parts

VARIABLES
    host, code, serial,     \* the fields of the Device workspace
    login,      \* is there an access token?
    bound,      \* the serial of the stored cloud session
    imported,   \* printers whose access code the studio has loaded
    disk,       \* printers whose access code is on disk
    listed,     \* the printers of the cloud account, when they were listed last
    live,       \* is the live monitor on?
    fetching,   \* is a status request under way, as the UI thread knows?
    fetches,    \* the status requests that have not answered
    shown,      \* for each part of the status: the printer that reported it
    commands,   \* the commands that have not answered
    edits,      \* counts the changes of the address
    sent,       \* counts the commands
    own,        \* history: the parts the printer addressed now has reported
    unseen      \* history: a command was acknowledged and no status asked for later is shown

address == <<host, code, serial>>
accounts == <<login, bound, imported, disk, listed>>
monitor == <<live, fetching, fetches>>
history == <<own, unseen>>
vars == <<address, accounts, monitor, shown, commands, edits, sent, history>>

Fields == Devices \cup {None}
Shown == Parts \cup {"machine"}

\* target: the printer the request reaches; since: that is still the printer addressed;
\* after: no command has been acknowledged since the request began.
Fetch == [target : Fields, since : BOOLEAN, after : BOOLEAN]

-----------------------------------------------------------------------------
(* The address                                                               *)

LanReady(h, c) == h # None /\ c # None

\* The LAN is used when host and code are set, and never the cloud then: it answers if the
\* code and the serial are those of the host (an empty serial is read from its certificate).
Reached(h, c, s, b, l) ==
    IF LanReady(h, c)
    THEN IF c = h /\ s \in {None, h} THEN h ELSE None
    ELSE IF ~l THEN None ELSE IF s = None THEN b ELSE s

Target == Reached(host, code, serial, bound, login)

CanMonitor == LanReady(host, code) \/ login

\* The access code after apply_device(d): a loaded code replaces the one in the field; the
\* codes of the account and of the disk only fill an empty field.
CodeFor(d, c, loaded, stored) ==
    IF d \in loaded THEN d ELSE IF c # None THEN c ELSE IF d \in stored THEN d ELSE None

ApplyDevice(d, c, loaded, stored) ==
    IF d = None THEN serial' = serial /\ bound' = bound /\ code' = c
    ELSE serial' = d /\ bound' = d /\ code' = CodeFor(d, c, loaded, stored)

\* camera_serial_from_bind: the serial if it is listed, else one that is.
Restored(s, list) == IF list = {} THEN {None} ELSE IF s \in list THEN {s} ELSE list

-----------------------------------------------------------------------------
(* Status requests                                                           *)

\* What is under way no longer asks the printer addressed, if that has changed.
Aged == IF Target' = Target THEN fetches ELSE {[f EXCEPT !.since = FALSE] : f \in fetches}

NoRefresh == fetching' = fetching /\ fetches' = Aged

\* Faulty variant, for the mutation checks.
RefreshUnguarded ==
    /\ fetching' = TRUE
    /\ fetches' = Aged \cup {[target |-> Target', since |-> TRUE, after |-> TRUE]}

RefreshMonitor ==
    IF fetching THEN NoRefresh
    ELSE /\ fetching' = TRUE
         /\ fetches' = Aged \cup {[target |-> Target', since |-> TRUE, after |-> TRUE]}

StartLiveSync ==
    IF CanMonitor' THEN live' = TRUE /\ RefreshMonitor ELSE live' = live /\ NoRefresh

\* Host, AccessCode: typed text starts the monitor if it is off and can run.
SyncIfOff == IF live THEN live' = live /\ NoRefresh ELSE StartLiveSync

Quiet == live' = live /\ NoRefresh

\* Every change of the address, by whatever handler.
Edit ==
    /\ edits < MaxEdits
    /\ edits' = edits + 1
    /\ own' = IF Target' = Target THEN own ELSE {}
    /\ UNCHANGED <<shown, commands, sent, unseen>>

-----------------------------------------------------------------------------
(* The fields typed by the user                                              *)

SetHost(h) ==
    /\ host' = h
    /\ UNCHANGED <<code, serial, accounts>>
    /\ SyncIfOff
    /\ Edit

SetAccessCode(c) ==
    /\ code' = c
    /\ UNCHANGED <<host, serial, accounts>>
    /\ SyncIfOff
    /\ Edit

SetSerial(s) ==
    /\ serial' = s
    /\ UNCHANGED <<host, code, accounts>>
    /\ Quiet
    /\ Edit

-----------------------------------------------------------------------------
(* Printers found, listed, imported and picked                               *)

\* PickDevice: the host of the printer before it stays.
PickDevice(d) ==
    /\ d \in listed
    /\ ApplyDevice(d, code, imported, disk)
    /\ UNCHANGED <<host, login, imported, disk, listed>>
    /\ StartLiveSync
    /\ Edit

\* Discovered with a list that begins with d.
Discovered(d) ==
    /\ host' = d
    /\ ApplyDevice(d, code, imported, disk)
    /\ UNCHANGED <<login, imported, disk, listed>>
    /\ StartLiveSync
    /\ Edit

\* DevicesLoaded: `list' is the account's, `codes' are those of it that come with a code.
DevicesLoaded(list, codes) ==
    /\ login
    /\ listed' = list
    /\ disk' = disk \cup codes
    /\ \E d \in Restored(serial, list) :
          /\ ApplyDevice(d, code, imported, disk')
          /\ UNCHANGED <<host, login, imported>>
          /\ IF d = None THEN Quiet ELSE StartLiveSync
    /\ Edit

\* load_account_from_disk: the stored serial fills an empty field, and all codes are loaded.
Account(stored) ==
    LET s == IF serial = None THEN bound ELSE serial
    IN /\ imported' = stored
       /\ ApplyDevice(s, CodeFor(None, code, {}, {}), stored, stored)

\* CloudLogged: the login has stored a token; the list of printers is asked for.
CloudLogged ==
    /\ login' = TRUE
    /\ Account(disk)
    /\ UNCHANGED <<host, disk, listed>>
    /\ Quiet
    /\ Edit

\* StudioImported: the import has stored the codes of `codes'; `found' are the printers the
\* discovery that follows it has seen, and `default' is the serial of the other studio.
StudioImported(codes, default, found, token) ==
    /\ disk' = disk \cup codes
    /\ imported' = disk'
    /\ login' = (login \/ token)
    /\ LET s == IF serial # None THEN serial ELSE IF bound # None THEN bound ELSE default
           seen == IF s \in found THEN {s} ELSE IF found = {} THEN {None} ELSE found
       IN IF host # None \/ found = {}
          THEN host' = host /\ ApplyDevice(s, code, disk', disk')
          ELSE \E h \in seen :
                  host' = h /\ ApplyDevice(IF s = None THEN h ELSE s, code, disk', disk')
    /\ UNCHANGED listed
    /\ StartLiveSync
    /\ Edit

\* CameraPlay: fills an empty access code.
CameraPlay ==
    /\ code = None
    /\ ApplyDevice(serial, code, imported, disk)
    /\ UNCHANGED <<host, login, imported, disk, listed>>
    /\ Quiet
    /\ Edit

\* CameraLan: the printers found when the camera had no address to play from.
CameraLan(found) ==
    /\ LET mine == IF serial = None THEN found ELSE found \cap {serial}
       IN \E h \in mine :
             /\ host' = h
             /\ ApplyDevice(IF serial = None THEN h ELSE serial, code, imported, disk)
    /\ UNCHANGED <<login, imported, disk, listed>>
    /\ Quiet
    /\ Edit

EditAddress ==
    \/ \E d \in Fields : SetHost(d) \/ SetAccessCode(d) \/ SetSerial(d)
    \/ \E d \in Devices : PickDevice(d) \/ Discovered(d)
    \/ \E list \in SUBSET Devices : \E codes \in SUBSET list : DevicesLoaded(list, codes)
    \/ CloudLogged
    \/ \E codes, found \in SUBSET Devices, default \in Fields, token \in BOOLEAN :
          StudioImported(codes, default, found, token)
    \/ CameraPlay
    \/ \E found \in SUBSET Devices : CameraLan(found)

-----------------------------------------------------------------------------
(* The monitor                                                               *)

Unmoved == UNCHANGED <<address, accounts, edits>>

\* The Device workspace is entered.
EnterDevice ==
    /\ Unmoved
    /\ StartLiveSync
    /\ UNCHANGED <<shown, commands, sent, history>>

LiveMonitor(on) ==
    /\ Unmoved
    /\ live' = on
    /\ IF on THEN RefreshMonitor ELSE NoRefresh
    /\ UNCHANGED <<shown, commands, sent, history>>

\* The timer of subscription(): every 10 s while the monitor is on.
Tick ==
    /\ live
    /\ Unmoved
    /\ live' = live
    /\ RefreshMonitor
    /\ UNCHANGED <<shown, commands, sent, history>>

\* Faulty variant, for the mutation checks.
RetainedFirst(prev, d, has) ==
    [p \in Shown |-> IF p \in has /\ prev[p] = None THEN d ELSE prev[p]]

\* retain_machine, retain_ams, retain_nozzle_rack: what the report lacks stays as it was.
Retained(prev, d, has) == [p \in Shown |-> IF p \in has THEN d ELSE prev[p]]

\* Status(Ok): printer f.target has answered with the parts `has'.
StatusOk(f, has) ==
    /\ f \in fetches
    /\ f.target # None
    /\ fetching' = FALSE
    /\ fetches' = fetches \ {f}
    /\ shown' = Retained(shown, f.target, has \cup {"machine"})
    /\ own' = IF f.since THEN own \cup has \cup {"machine"} ELSE own
    /\ unseen' = (unseen /\ ~(f.since /\ f.after))
    /\ Unmoved
    /\ UNCHANGED <<live, commands, sent>>

\* Faulty variant, for the mutation checks.
StatusErrFlagKept(f) ==
    /\ f \in fetches
    /\ fetches' = fetches \ {f}
    /\ Unmoved
    /\ UNCHANGED <<live, fetching, shown, commands, sent, history>>

\* Status(Err): nothing answers at the address, or not in time.
StatusErr(f) ==
    /\ f \in fetches
    /\ fetching' = FALSE
    /\ fetches' = fetches \ {f}
    /\ Unmoved
    /\ UNCHANGED <<live, shown, commands, sent, history>>

-----------------------------------------------------------------------------
(* Commands                                                                  *)

\* run_print_cmd: pause, stop, temperatures, AMS, rack, HMS.  Several may be under way.
SendCommand ==
    /\ sent < MaxCommands
    /\ sent' = sent + 1
    /\ commands' = commands + 1
    /\ Unmoved
    /\ UNCHANGED <<monitor, shown, history>>

\* PrintControl(Ok): refreshes the status, unless a request is under way.
CommandOk ==
    /\ commands > 0
    /\ commands' = commands - 1
    /\ Unmoved
    /\ live' = live
    /\ unseen' = TRUE
    /\ LET before == {[f EXCEPT !.after = FALSE] : f \in fetches}
       IN IF fetching THEN fetching' = fetching /\ fetches' = before
          ELSE /\ fetching' = TRUE
               /\ fetches' = before \cup {[target |-> Target, since |-> TRUE, after |-> TRUE]}
    /\ UNCHANGED <<shown, sent, own>>

\* Faulty variant, for the mutation checks.
CommandErrTwice ==
    /\ commands' = commands - 1
    /\ Unmoved
    /\ UNCHANGED <<monitor, shown, sent, history>>

CommandErr ==
    /\ commands > 0
    /\ commands' = commands - 1
    /\ Unmoved
    /\ UNCHANGED <<monitor, shown, sent, history>>

-----------------------------------------------------------------------------
(* The specification                                                         *)

\* App::new: the account and the codes of the last run.
Init ==
    /\ host = None
    /\ disk \in SUBSET Devices
    /\ imported = disk
    /\ bound \in Fields
    /\ serial = bound
    /\ code = CodeFor(bound, None, imported, disk)
    /\ login \in BOOLEAN
    /\ listed = {}
    /\ live = FALSE
    /\ fetching = FALSE
    /\ fetches = {}
    /\ shown = [p \in Shown |-> None]
    /\ commands = 0
    /\ edits = 0
    /\ sent = 0
    /\ own = {}
    /\ unseen = FALSE

StatusAnswer ==
    \E f \in fetches : StatusErr(f) \/ \E has \in SUBSET Parts : StatusOk(f, has)

Answered(d) ==
    \E f \in fetches : f.target = d /\ \E has \in SUBSET Parts : StatusOk(f, has)

Next ==
    \/ EditAddress
    \/ EnterDevice
    \/ \E on \in BOOLEAN : LiveMonitor(on)
    \/ Tick
    \/ StatusAnswer
    \/ SendCommand
    \/ CommandOk
    \/ CommandErr

\* The timer of the UI fires, every request ends (each wait has a deadline), and a printer
\* that is asked again and again answers some time.
Fairness ==
    /\ WF_vars(Tick)
    /\ WF_vars(StatusAnswer)
    /\ \A d \in Devices : SF_vars(Answered(d))

Spec == Init /\ [][Next]_vars

FairSpec == Spec /\ Fairness

-----------------------------------------------------------------------------
(* Properties                                                                *)

\* The variables of the Device workspace have the types the code gives them.
TypeOK ==
    /\ host \in Fields /\ code \in Fields /\ serial \in Fields
    /\ login \in BOOLEAN /\ bound \in Fields
    /\ imported \in SUBSET Devices /\ disk \in SUBSET Devices /\ listed \in SUBSET Devices
    /\ live \in BOOLEAN /\ fetching \in BOOLEAN /\ fetches \in SUBSET Fetch
    /\ shown \in [Shown -> Fields]
    /\ commands \in 0 .. MaxCommands /\ sent \in 0 .. MaxCommands
    /\ edits \in 0 .. MaxEdits
    /\ own \in SUBSET Shown /\ unseen \in BOOLEAN

\* monitor_fetching is up exactly while one status request is under way: no handler starts a
\* second one, and none leaves the flag up, which would end the monitor for good.
FetchBacked ==
    /\ fetching <=> fetches # {}
    /\ \A f, g \in fetches : f = g

\* What the printer addressed has reported since it is addressed is not overwritten by the
\* late answer of the printer before it, nor by what was kept of that one.
OwnShown == \A p \in own : shown[p] = Target

\* If the monitor stays on and the address stays with a printer that answers now and then,
\* the status of that printer comes to be shown, and stays, whatever was under way before.
Settles ==
    \A d \in Devices :
        <>[](live /\ Target = d) => <>[](shown["machine"] = d /\ "machine" \in own)

\* While the monitor stays on at a printer that answers, a command that was acknowledged is
\* followed by a status asked for afterwards, though PrintControl drops its own refresh when
\* a request is under way.
CommandsShown ==
    \A d \in Devices : <>[](live /\ Target = d) => <>[]~unseen

=============================================================================
