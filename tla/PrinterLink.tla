------------------------------ MODULE PrinterLink ------------------------------
(***************************************************************************)
(* Commands, prints and status requests of the studio to one printer, over *)
(* MQTT (crates/elysian-protocol/src/lan_mqtt.rs, lib.rs, cloud.rs).  Each *)
(* request is a background task with MQTT sessions of its own; every       *)
(* session of the process has the same client id, so a broker that accepts *)
(* one closes the one before it.  Reports are broadcast and name no        *)
(* request, messages are sent at most once, and every wait has a deadline. *)
(* The printer and the brokers are external.                               *)
(***************************************************************************)
EXTENDS Integers

CONSTANTS
    Tasks,      \* slots for background tasks
    MaxRuns,    \* bound on the requests of the user and the monitor
    Asked,      \* the shapes of request that are made
    None        \* no task

ASSUME RunsBound == MaxRuns \in Nat
ASSUME AskedShapes ==
    Asked \subseteq [kind : {"status", "command", "light", "print"}, via : {"lan", "cloud"}]
ASSUME NoTask == None \notin Tasks

VARIABLES
    run,        \* number of requests begun; it names the newest
    task,       \* what each background task is doing
    answer,     \* the results reported to the UI, by request
    holder,     \* by broker: the task whose session it keeps open
    wire,       \* messages published and not yet seen by the printer
    printer,    \* its mode, the uploaded file, whether it has reported an error, and
                \* which requests have uploaded
    executed,   \* what the printer has carried out
    refused,    \* what the printer has refused
    printed     \* the prints started, each with the content printed

vars == <<run, task, answer, holder, wire, printer, executed, refused, printed>>

Runs == 1 .. MaxRuns
Brokers == {"lan", "cloud"}
Kinds == {"status", "command", "light", "print"}
Answers == {"ok", "failed", "rejected"}
Items == 0 .. 2    \* the payloads of a request; 0 is the app_cert_install

-----------------------------------------------------------------------------
(* Reports and messages                                                      *)

\* The answers to commands that are no `print' commands (get_version, ledctrl,
\* app_cert_install) are of the kind "other".  A report is bad if it tells a failure or a
\* print_error other than zero, and secured if bit 29 of `fun' is set: an absent `fun' reads
\* as zero.  A report with neither a result nor a print_error leaves no trace in a session
\* of publish_raw, as if it had not reached it.
Reports == [kind : {"none", "push", "print", "other"}, bad : BOOLEAN, secured : BOOLEAN]

NoReport == [kind |-> "none", bad |-> FALSE, secured |-> FALSE]

PushReport(error, secured) == [kind |-> "push", bad |-> error, secured |-> secured]

ResultReport(kind, ok) == [kind |-> kind, bad |-> ~ok, secured |-> FALSE]

VersionReport == [kind |-> "other", bad |-> FALSE, secured |-> FALSE]

\* parse_push_status: a report without the key `print' passes for a status.
ReadsAsStatus(r) == r.kind \in {"push", "other"}

Requests == [run : Runs, item : Items, kind : Kinds, via : Brokers]

RejectedByKey(r) == r.bad \/ r.kind = "push"

\* mqtt_report_rejected: a failed result, or a print_error other than zero.
Rejected(r) == r.bad

-----------------------------------------------------------------------------
(* Tasks                                                                     *)

Phases == {"idle", "status", "cert", "upload", "uploading", "publish"}
SessionPhases == {"status", "cert", "publish"}

TaskRecord == [phase : Phases, run : Runs \cup {0}, kind : Kinds, via : Brokers,
               item : Items, secured : BOOLEAN,
               net : {"off", "subscribed", "sent"}, last : Reports]

Idle == [phase |-> "idle", run |-> 0, kind |-> "status", via |-> "lan",
         item |-> 0, secured |-> FALSE, net |-> "off", last |-> NoReport]

\* LAN requests ask for the status first; so does a status request.
FirstPhase(kind, via) ==
    IF via = "lan" \/ kind = "status" THEN "status"
    ELSE IF kind = "print" THEN "upload" ELSE "publish"

Begun(n, s) ==
    [Idle EXCEPT !.phase = FirstPhase(s.kind, s.via), !.run = n, !.kind = s.kind,
                 !.via = s.via, !.item = 1]

\* set_chamber_light publishes two payloads.
Payloads(kind) == IF kind = "light" THEN 2 ELSE 1

\* The next session of the task, or a step of the upload.
Enter(x, phase) == [x EXCEPT !.phase = phase, !.net = "off", !.last = NoReport]

OnNet(x, net) == [x EXCEPT !.net = net]
Heard(x, r) == [x EXCEPT !.last = r]
InMode(x, secured) == [x EXCEPT !.secured = secured]

NextItemAgain(x) == [Enter(x, "publish") EXCEPT !.item = x.item]

NextItem(x) == [Enter(x, "publish") EXCEPT !.item = x.item + 1]

Via(t) == task[t].via
InSession(t) == task[t].phase \in SessionPhases
Connected(t) == InSession(t) /\ task[t].net # "off" /\ holder[Via(t)] = t

\* Has the loop that polls the session left it for what it has read?
Satisfied(x) == x.phase # "status" /\ x.last # NoReport
Listening(t) == Connected(t) /\ ~Satisfied(task[t])

\* The event loop is dropped, and with it the connection.
Disconnect(t) == holder' = [holder EXCEPT ![Via(t)] = IF @ = t THEN None ELSE @]

Set(t, x) == task' = [task EXCEPT ![t] = x]

\* The task ends with its result message.
AnswerWith(t, a) ==
    /\ answer' = [answer EXCEPT ![task[t].run] = a]
    /\ Set(t, Idle)
    /\ Disconnect(t)
    /\ UNCHANGED <<run, wire, printer, executed, refused, printed>>

MoveOn(t, x) ==
    /\ Set(t, x)
    /\ Disconnect(t)
    /\ UNCHANGED <<run, answer, wire, printer, executed, refused, printed>>

-----------------------------------------------------------------------------
Init ==
    /\ run = 0
    /\ task = [t \in Tasks |-> Idle]
    /\ answer = [n \in Runs |-> "none"]
    /\ holder = [b \in Brokers |-> None]
    /\ wire = {}
    /\ printer \in [secured : BOOLEAN, erred : {FALSE},
                    file : {0}, uploads : {{}}]
    /\ executed = {}
    /\ refused = {}
    /\ printed = {}

\* The UI starts a request: refresh_monitor, run_print_cmd or Send.
Begin(t, s) ==
    /\ task[t] = Idle
    /\ run < MaxRuns
    /\ run' = run + 1
    /\ Set(t, Begun(run + 1, s))
    /\ UNCHANGED <<answer, holder, wire, printer, executed, refused, printed>>

-----------------------------------------------------------------------------
(* One MQTT session: connect, subscribe, publish, read reports               *)

\* The broker accepts the connection, drops the session that had the client id, and
\* takes the subscription.
Connect(t) ==
    /\ InSession(t)
    /\ task[t].net = "off"
    /\ holder' = [holder EXCEPT ![Via(t)] = t]
    /\ Set(t, OnNet(task[t], "subscribed"))
    /\ UNCHANGED <<run, answer, wire, printer, executed, refused, printed>>

Message(x) == [run |-> x.run, item |-> IF x.phase = "cert" THEN 0 ELSE x.item,
               kind |-> x.kind, via |-> x.via]

\* pushall and get_version leave no trace of their own: the printer may send its
\* status and version at any time (Push).
Publish(t) ==
    /\ Listening(t)
    /\ task[t].net = "subscribed"
    /\ Set(t, OnNet(task[t], "sent"))
    /\ wire' = IF task[t].phase = "status" THEN wire ELSE wire \cup {Message(task[t])}
    /\ UNCHANGED <<run, answer, holder, printer, executed, refused, printed>>

\* fetch_status keeps the first report that reads as a status; publish_raw stops at the
\* first one with a result or a print_error.  A report not yet read is one not yet sent.
Keeps(x, r) == x.last = NoReport /\ (x.phase = "status" => ReadsAsStatus(r))

\* The network fails, the broker has closed the session for a later one, the payload
\* cannot be signed, or an upload fails.
Fails(t) ==
    /\ task[t].phase # "idle"
    /\ ~Satisfied(task[t])
    /\ AnswerWith(t, "failed")

-----------------------------------------------------------------------------
(* The ends of the waits, which a deadline brings about if nothing else does *)

\* The mode of the printer decides how a payload is signed and whether the slicer's
\* certificate is installed before a print.
AfterMode(t, x) ==
    \/ x.kind \in {"command", "light"} /\ MoveOn(t, Enter(x, "publish"))
    \/ x.kind = "print" /\ MoveOn(t, Enter(x, "upload"))
    \/ x.kind = "print" /\ x.secured /\ MoveOn(t, Enter(x, "cert"))

SecuredByInverted(r) == ~r.secured

\* secured = !state.developer_mode, in LanBackend.
SecuredBy(r) == r.secured

AfterStatus(t) ==
    /\ task[t].phase = "status"
    /\ \/ task[t].last = NoReport /\ AnswerWith(t, "failed")
       \/ /\ task[t].last # NoReport
          /\ \/ task[t].kind = "status" /\ AnswerWith(t, "ok")
             \/ AfterMode(t, InMode(task[t], SecuredBy(task[t].last)))

\* A report without printer_cert is not an error.
AfterCert(t) == task[t].phase = "cert" /\ MoveOn(t, Enter(task[t], "upload"))

NextOrOkLate(t) ==
    IF task[t].item <= Payloads(task[t].kind) THEN MoveOn(t, NextItem(task[t]))
                                                 ELSE AnswerWith(t, "ok")

NextOrOk(t) ==
    IF task[t].item < Payloads(task[t].kind) THEN MoveOn(t, NextItem(task[t]))
                                                ELSE AnswerWith(t, "ok")

\* LanBackend looks at the last report, CloudBackend does not.
AfterPublish(t) ==
    /\ task[t].phase = "publish"
    /\ IF Via(t) = "lan" /\ Rejected(task[t].last)
       THEN AnswerWith(t, "rejected")
       ELSE NextOrOk(t)

Deadline(t) == AfterStatus(t) \/ AfterCert(t) \/ AfterPublish(t)

-----------------------------------------------------------------------------
(* The upload: every print over the LAN is stored under the same name        *)

StoreFile(t, content) ==
    printer' = IF Via(t) = "lan"
               THEN [printer EXCEPT !.file = content, !.uploads = @ \cup {task[t].run}]
               ELSE printer

\* STOR has truncated the file.
UploadBegin(t) ==
    /\ task[t].phase = "upload"
    /\ StoreFile(t, 0)
    /\ Set(t, Enter(task[t], "uploading"))
    /\ UNCHANGED <<run, answer, holder, wire, executed, refused, printed>>

UploadEndUnchecked(t) ==
    /\ task[t].phase = "uploading"
    /\ StoreFile(t, 0)
    /\ Set(t, Enter(task[t], "publish"))
    /\ UNCHANGED <<run, answer, holder, wire, executed, refused, printed>>

UploadEnd(t) ==
    /\ task[t].phase = "uploading"
    /\ StoreFile(t, task[t].run)
    /\ Set(t, Enter(task[t], "publish"))
    /\ UNCHANGED <<run, answer, holder, wire, executed, refused, printed>>

Upload(t) == UploadBegin(t) \/ UploadEnd(t)

TaskStep(t) ==
    \/ \E s \in Asked : Begin(t, s)
    \/ Connect(t)
    \/ Publish(t)
    \/ Fails(t)
    \/ Deadline(t)
    \/ Upload(t)

-----------------------------------------------------------------------------
(* The printer (external)                                                    *)

\* QoS 0: a report reaches any of the subscribers, or none.
Broadcast(r) ==
    \E to \in SUBSET {t \in Tasks : Listening(t) /\ Keeps(task[t], r)} :
        /\ r.kind = "push" => to # {}
        /\ task' = [t \in Tasks |-> IF t \in to THEN Heard(task[t], r) ELSE task[t]]

Id(q) == <<q.run, q.item>>

\* The printer fetches the file of a cloud print by its URL.
Content(q) == IF q.via = "lan" THEN printer.file ELSE q.run

\* The answer names the payload, but nobody compares the name.
ResultKind(q) == IF q.item = 0 \/ q.kind = "light" THEN "other" ELSE "print"

Execute(q) ==
    /\ executed' = executed \cup {Id(q)}
    /\ printed' = IF q.kind = "print" /\ q.item # 0
                  THEN printed \cup {[run |-> q.run, content |-> Content(q)]}
                  ELSE printed
    /\ wire' = wire \ {q}
    /\ Broadcast(ResultReport(ResultKind(q), TRUE))
    /\ UNCHANGED <<run, answer, holder, printer, refused>>

Refuse(q) ==
    /\ refused' = refused \cup {Id(q)}
    /\ wire' = wire \ {q}
    /\ Broadcast(ResultReport(ResultKind(q), FALSE))
    /\ UNCHANGED <<run, answer, holder, printer, executed, printed>>

Lose(q) ==
    /\ wire' = wire \ {q}
    /\ UNCHANGED <<run, task, answer, holder, printer, executed, refused, printed>>

\* A push_status, in full or with only what has changed.
Push ==
    /\ \E error \in BOOLEAN, secured \in {printer.secured, FALSE} :
          /\ Broadcast(PushReport(error, secured))
          /\ printer' = [printer EXCEPT !.erred = @ \/ error]
    /\ UNCHANGED <<run, answer, holder, wire, executed, refused, printed>>

\* The answer to a get_version, of this process or another.
Version ==
    /\ Broadcast(VersionReport)
    /\ UNCHANGED <<run, answer, holder, wire, printer, executed, refused, printed>>

PrinterStep ==
    \/ \E q \in wire : Execute(q) \/ Refuse(q) \/ Lose(q)
    \/ Push
    \/ Version

Next ==
    \/ \E t \in Tasks : TaskStep(t)
    \/ PrinterStep

Spec == Init /\ [][Next]_vars
-----------------------------------------------------------------------------
(* Properties                                                                *)

Printer == [secured : BOOLEAN, erred : BOOLEAN,
            file : Runs \cup {0}, uploads : SUBSET Runs]

\* Types; in particular no payload beyond those of a request is published (commands,
\* set_chamber_light) and everything on the wire belongs to a request that was made.
TypeOK ==
    /\ run \in Runs \cup {0}
    /\ task \in [Tasks -> TaskRecord]
    /\ answer \in [Runs -> Answers \cup {"none"}]
    /\ holder \in [Brokers -> Tasks \cup {None}]
    /\ wire \subseteq Requests
    /\ printer \in Printer
    /\ executed \subseteq Runs \X Items
    /\ refused \subseteq Runs \X Items
    /\ printed \subseteq [run : Runs, content : Runs \cup {0}]

\* A request is reported as rejected only if the printer has refused something or has
\* had an error (mqtt_report_rejected: the mere key print_error is no rejection).  The
\* refusal need not be that of the request: reports name none.
RejectionHasCause ==
    (\E n \in Runs : answer[n] = "rejected") => (refused # {} \/ printer.erred)

\* A print starts from something else than the file uploaded for it only if another
\* print was sent over the LAN: all are stored as plater.gcode.3mf (start_print).
PrintsOwnUpload ==
    \A p \in printed : p.content # p.run => printer.uploads \ {p.run} # {}

\* A LAN request takes the printer for secured only if it is (`secured' of LanBackend, from
\* bit 29 of `fun'): whatever reports are lost, partial or meant for others, the worst is
\* that a payload goes unsigned or a certificate is not installed.
SecuredOnlyIfSo == \A t \in Tasks : task[t].secured => printer.secured

Service == INSTANCE CommandService WITH pending <- {Id(q) : q \in wire}

\* The backends implement the abstract service: whatever is lost, taken over or late,
\* nothing is sent again or after the answer, and a request has one answer at most.
ImplementsService == Service!ServiceSpec

\* The documentation of fetch_status (crates/elysian-protocol/src/lan_mqtt.rs:64):
\* "Connect, subscribe to `report`, `pushall`, return the first `push_status`."
StatusIsPush ==
    \A t \in Tasks : task[t].phase = "status" => task[t].last.kind \in {"none", "push"}
=============================================================================
