-------------------------- MODULE PrinterLink_proof --------------------------
(***************************************************************************)
(* Theorems about PrinterLink, for any number of background tasks, any     *)
(* bound on the requests and any shapes of request.                        *)
(***************************************************************************)
EXTENDS PrinterLink, TLAPS

Busy(t) == task[t].phase # "idle"

\* A task that is busy serves a request that was asked and has no answer.
Serving ==
    \A t \in Tasks :
        Busy(t) => /\ task[t].run \in 1 .. run
                   /\ answer[task[t].run] = "none"
                   /\ task[t].item # 0

\* No two tasks serve the same request, and what was not asked has no answer.
Apart ==
    /\ \A t, u \in Tasks : Busy(t) /\ Busy(u) /\ t # u => task[t].run # task[u].run
    /\ \A n \in Runs : n > run => answer[n] = "none"

\* Has the task published payload i of its request?
Sent(x, i) ==
    IF i = 0
    THEN x.phase \in {"upload", "uploading", "publish"} \/ (x.phase = "cert" /\ x.net = "sent")
    ELSE x.phase = "publish" /\ (i < x.item \/ (i = x.item /\ x.net = "sent"))

Known == {Id(q) : q \in wire} \cup executed \cup refused

\* What is on the wire, carried out or refused was published by the task of its request,
\* and is on the wire once.
Published ==
    /\ \A n \in Runs, i \in Items :
          <<n, i>> \in Known =>
              /\ n <= run
              /\ \A t \in Tasks : Busy(t) /\ task[t].run = n => Sent(task[t], i)
    /\ \A q, r \in wire : Id(q) = Id(r) => q = r

\* Is the file of this print in place, or has another print been sent?
Uploaded(n) == printer.file = n \/ printer.uploads \ {n} # {}

Prints(x) == x.kind = "print" /\ x.via = "lan"

Stored ==
    /\ printer.file # 0 => printer.file \in printer.uploads
    /\ \A t \in Tasks :
          task[t].phase = "publish" /\ Prints(task[t]) => Uploaded(task[t].run)
    /\ \A q \in wire : Prints(q) /\ q.item # 0 => Uploaded(q.run)

\* What tasks have heard came from the printer.
Heeded ==
    \A t \in Tasks : /\ task[t].last.bad => refused # {} \/ printer.erred
                     /\ task[t].last.secured => printer.secured

-----------------------------------------------------------------------------
(* Reports and tasks                                                         *)

\* Every report the printer sends is a report.
LEMMA ReportTypes ==
    /\ NoReport \in Reports
    /\ \A error, secured \in BOOLEAN : PushReport(error, secured) \in Reports
    /\ \A q \in Requests, ok \in BOOLEAN : ResultReport(ResultKind(q), ok) \in Reports
    /\ VersionReport \in Reports
BY DEF Reports, NoReport, PushReport, ResultReport, ResultKind, VersionReport

\* An idle task and one that begins are tasks.
LEMMA FreshTask ==
    /\ Idle \in TaskRecord
    /\ \A n \in Runs, s \in Asked : Begun(n, s) \in TaskRecord
<1>1. Idle \in TaskRecord
  BY ReportTypes DEF Idle, TaskRecord, Phases, Kinds, Brokers, Items
<1>2. ASSUME NEW n \in Runs, NEW s \in Asked
      PROVE  Begun(n, s) \in TaskRecord
  <2>1. s.kind \in Kinds /\ s.via \in Brokers
    BY AskedShapes DEF Kinds, Brokers
  <2>2. FirstPhase(s.kind, s.via) \in Phases
    BY DEF FirstPhase, Phases
  <2>3. 1 \in Items
    BY DEF Items
  <2> QED
    BY <1>1, <2>1, <2>2, <2>3 DEF Begun, TaskRecord
<1> QED
  BY <1>1, <1>2

\* What a task goes on to is a task.
LEMMA TaskOps ==
    ASSUME NEW x \in TaskRecord
    PROVE  /\ \A phase \in Phases : Enter(x, phase) \in TaskRecord
           /\ \A net \in {"off", "subscribed", "sent"} : OnNet(x, net) \in TaskRecord
           /\ \A r \in Reports : Heard(x, r) \in TaskRecord
           /\ \A secured \in BOOLEAN : InMode(x, secured) \in TaskRecord
           /\ x.item < Payloads(x.kind) => NextItem(x) \in TaskRecord
<1>1. ASSUME NEW phase \in Phases PROVE Enter(x, phase) \in TaskRecord
  <2> DEFINE net == "off"
  <2>1. net \in {"off", "subscribed", "sent"}
    OBVIOUS
  <2> HIDE DEF net
  <2>2. [x EXCEPT !.phase = phase, !.net = net, !.last = NoReport] \in TaskRecord
    BY <2>1, ReportTypes DEF TaskRecord
  <2> QED
    BY <2>2 DEF Enter, net
<1>2. \A net \in {"off", "subscribed", "sent"} : OnNet(x, net) \in TaskRecord
  BY DEF OnNet, TaskRecord
<1>3. \A r \in Reports : Heard(x, r) \in TaskRecord
  BY DEF Heard, TaskRecord
<1>4. \A secured \in BOOLEAN : InMode(x, secured) \in TaskRecord
  BY DEF InMode, TaskRecord
<1>5. ASSUME x.item < Payloads(x.kind) PROVE NextItem(x) \in TaskRecord
  <2>1. x.item \in 0 .. 2
    BY DEF TaskRecord, Items
  <2>2. x.item + 1 \in Items
    BY <1>5, <2>1 DEF Payloads, Items
  <2>3. \A y \in TaskRecord, i \in Items : [y EXCEPT !.item = i] \in TaskRecord
    BY DEF TaskRecord
  <2>4. Enter(x, "publish") \in TaskRecord
    BY <1>1 DEF Phases
  <2> QED
    BY <2>2, <2>3, <2>4 DEF NextItem
<1> QED
  BY <1>1, <1>2, <1>3, <1>4, <1>5

-----------------------------------------------------------------------------
(* Types                                                                     *)

\* What the steps of a task have in common.
LEMMA TaskMoved ==
    ASSUME TypeOK, NEW t \in Tasks, NEW x \in TaskRecord, Set(t, x)
    PROVE  task' \in [Tasks -> TaskRecord]
BY DEF TypeOK, Set

LEMMA Disconnected ==
    ASSUME TypeOK, NEW t \in Tasks, Disconnect(t)
    PROVE  holder' \in [Brokers -> Tasks \cup {None}]
BY DEF TypeOK, Disconnect

LEMMA AnswerTyped ==
    ASSUME TypeOK, NEW t \in Tasks, NEW a \in Answers, AnswerWith(t, a)
    PROVE  TypeOK'
<1>1. task' \in [Tasks -> TaskRecord]
  BY TaskMoved, FreshTask DEF AnswerWith
<1>2. holder' \in [Brokers -> Tasks \cup {None}]
  BY Disconnected DEF AnswerWith
<1>3. answer' \in [Runs -> Answers \cup {"none"}]
  BY DEF AnswerWith, TypeOK
<1> QED
  BY <1>1, <1>2, <1>3 DEF AnswerWith, TypeOK

LEMMA MoveTyped ==
    ASSUME TypeOK, NEW t \in Tasks, NEW x \in TaskRecord, MoveOn(t, x)
    PROVE  TypeOK'
<1>1. task' \in [Tasks -> TaskRecord]
  BY TaskMoved DEF MoveOn
<1>2. holder' \in [Brokers -> Tasks \cup {None}]
  BY Disconnected DEF MoveOn
<1> QED
  BY <1>1, <1>2 DEF MoveOn, TypeOK

LEMMA BroadcastTyped ==
    ASSUME TypeOK, NEW r \in Reports, Broadcast(r)
    PROVE  task' \in [Tasks -> TaskRecord]
<1>1. \A t \in Tasks : Heard(task[t], r) \in TaskRecord
  BY TaskOps DEF TypeOK
<1> QED
  BY <1>1 DEF Broadcast, TypeOK

\* The file of the printer after a step of an upload.
LEMMA StoreTyped ==
    ASSUME TypeOK, NEW t \in Tasks, task[t].run \in Runs,
           NEW content \in Runs \cup {0}, StoreFile(t, content)
    PROVE  printer' \in Printer
<1>1. printer.uploads \cup {task[t].run} \in SUBSET Runs
  BY DEF TypeOK, Printer
<1>2. \A u \in SUBSET Runs : [printer EXCEPT !.file = content, !.uploads = u] \in Printer
  BY DEF TypeOK, Printer
<1>3. [printer EXCEPT !.file = content, !.uploads = @ \cup {task[t].run}]
        = [printer EXCEPT !.file = content, !.uploads = printer.uploads \cup {task[t].run}]
  BY DEF TypeOK, Printer
<1> QED
  BY <1>1, <1>2, <1>3 DEF StoreFile, TypeOK

\* A message of a session that is not about the status is a request.
LEMMA MessageTyped ==
    ASSUME NEW x \in TaskRecord, x.run \in Runs
    PROVE  Message(x) \in Requests
BY DEF Message, Requests, TaskRecord, Items

\* Every step keeps the types.
LEMMA TypeStep ==
    ASSUME TypeOK, Serving, [Next]_vars
    PROVE  TypeOK'
<1> USE DEF Phases, SessionPhases
<1>task. \A t \in Tasks : task[t] \in TaskRecord
  BY DEF TypeOK
<1>run. \A t \in Tasks : Busy(t) => task[t].run \in Runs
  BY RunsBound DEF Serving, TypeOK, Runs
<1>1. ASSUME NEW t \in Tasks, NEW s \in Asked, Begin(t, s) PROVE TypeOK'
  <2>1. run + 1 \in Runs
    BY <1>1, RunsBound DEF Begin, TypeOK, Runs
  <2>2. task' \in [Tasks -> TaskRecord]
    BY <1>1, <2>1, FreshTask, TaskMoved DEF Begin
  <2> QED
    BY <1>1, <2>1, <2>2 DEF Begin, TypeOK
<1>2. ASSUME NEW t \in Tasks, Connect(t) PROVE TypeOK'
  <2>1. task' \in [Tasks -> TaskRecord]
    BY <1>2, <1>task, TaskOps, TaskMoved DEF Connect
  <2>2. holder' \in [Brokers -> Tasks \cup {None}]
    BY <1>2 DEF Connect, TypeOK
  <2> QED
    BY <1>2, <2>1, <2>2 DEF Connect, TypeOK
<1>3. ASSUME NEW t \in Tasks, Publish(t) PROVE TypeOK'
  <2>1. task' \in [Tasks -> TaskRecord]
    BY <1>3, <1>task, TaskOps, TaskMoved DEF Publish
  <2>2. Message(task[t]) \in Requests
    BY <1>3, <1>task, <1>run, MessageTyped DEF Publish, Listening, Connected, InSession, Busy
  <2>3. wire' \subseteq Requests
    BY <1>3, <2>2 DEF Publish, TypeOK
  <2> QED
    BY <1>3, <2>1, <2>3 DEF Publish, TypeOK
<1>4. ASSUME NEW t \in Tasks, Fails(t) PROVE TypeOK'
  BY <1>4, AnswerTyped DEF Fails, Answers
<1>5. ASSUME NEW t \in Tasks, AfterStatus(t) PROVE TypeOK'
  <2>1. CASE AnswerWith(t, "failed") \/ AnswerWith(t, "ok")
    BY <2>1, AnswerTyped DEF Answers
  <2>2. CASE AfterMode(t, InMode(task[t], SecuredBy(task[t].last)))
    <3> DEFINE x == InMode(task[t], SecuredBy(task[t].last))
    <3>1. SecuredBy(task[t].last) \in BOOLEAN
      BY <1>task DEF SecuredBy, TaskRecord, Reports
    <3>2. x \in TaskRecord
      BY <1>task, <3>1, TaskOps
    <3> HIDE DEF x
    <3>3. \A phase \in Phases : Enter(x, phase) \in TaskRecord
      BY <3>2, TaskOps
    <3> QED
      BY <2>2, <3>3, MoveTyped DEF AfterMode, x
  <2> QED
    BY <1>5, <2>1, <2>2 DEF AfterStatus
<1>6. ASSUME NEW t \in Tasks, AfterCert(t) PROVE TypeOK'
  BY <1>6, <1>task, TaskOps, MoveTyped DEF AfterCert
<1>7. ASSUME NEW t \in Tasks, AfterPublish(t) PROVE TypeOK'
  BY <1>7, <1>task, TaskOps, MoveTyped, AnswerTyped DEF AfterPublish, NextOrOk, Answers
<1>8. ASSUME NEW t \in Tasks, Upload(t) PROVE TypeOK'
  <2>1. task[t].run \in Runs
    BY <1>8, <1>run DEF Upload, UploadBegin, UploadEnd, Busy
  <2>2. printer' \in Printer
    BY <1>8, <2>1, StoreTyped DEF Upload, UploadBegin, UploadEnd
  <2>3. task' \in [Tasks -> TaskRecord]
    BY <1>8, <1>task, TaskOps, TaskMoved DEF Upload, UploadBegin, UploadEnd
  <2> QED
    BY <1>8, <2>2, <2>3 DEF Upload, UploadBegin, UploadEnd, TypeOK
<1>9. ASSUME NEW q \in wire, Execute(q) PROVE TypeOK'
  <2>1. q \in Requests
    BY DEF TypeOK
  <2>2. task' \in [Tasks -> TaskRecord]
    BY <1>9, <2>1, ReportTypes, BroadcastTyped DEF Execute
  <2>3. Id(q) \in Runs \X Items
    BY <2>1 DEF Id, Requests
  <2>4. [run |-> q.run, content |-> Content(q)] \in [run : Runs, content : Runs \cup {0}]
    BY <2>1 DEF Content, Requests, TypeOK, Printer
  <2> QED
    BY <1>9, <2>2, <2>3, <2>4 DEF Execute, TypeOK
<1>10. ASSUME NEW q \in wire, Refuse(q) PROVE TypeOK'
  <2>1. q \in Requests
    BY DEF TypeOK
  <2>2. task' \in [Tasks -> TaskRecord]
    BY <1>10, <2>1, ReportTypes, BroadcastTyped DEF Refuse
  <2>3. Id(q) \in Runs \X Items
    BY <2>1 DEF Id, Requests
  <2> QED
    BY <1>10, <2>2, <2>3 DEF Refuse, TypeOK
<1>11. ASSUME NEW q \in wire, Lose(q) PROVE TypeOK'
  BY <1>11 DEF Lose, TypeOK
<1>12. ASSUME Push PROVE TypeOK'
  <2>1. PICK error \in BOOLEAN, secured \in {printer.secured, FALSE} :
            /\ Broadcast(PushReport(error, secured))
            /\ printer' = [printer EXCEPT !.erred = @ \/ error]
    BY <1>12 DEF Push
  <2>2. task' \in [Tasks -> TaskRecord]
    BY <2>1, ReportTypes, BroadcastTyped DEF TypeOK, Printer
  <2>3. (printer.erred \/ error) \in BOOLEAN
    OBVIOUS
  <2>4. printer' = [printer EXCEPT !.erred = printer.erred \/ error]
    BY <2>1 DEF TypeOK, Printer
  <2>5. printer' \in Printer
    BY <2>3, <2>4 DEF TypeOK, Printer
  <2> QED
    BY <1>12, <2>2, <2>5 DEF Push, TypeOK
<1>13. CASE Version
  BY <1>13, ReportTypes, BroadcastTyped DEF Version, TypeOK
<1>14. CASE UNCHANGED vars
  BY <1>14 DEF vars, TypeOK
<1> QED
  BY <1>1, <1>2, <1>3, <1>4, <1>5, <1>6, <1>7, <1>8, <1>9, <1>10, <1>11, <1>12, <1>13,
     <1>14
  DEF Next, TaskStep, Deadline, PrinterStep

-----------------------------------------------------------------------------
(* Requests and what is known of them                                        *)

Linked == Serving /\ Apart /\ Published

\* What the operators on a task change and leave.
LEMMA TaskFields ==
    ASSUME NEW x \in TaskRecord
    PROVE  /\ \A phase \in Phases :
                 /\ Enter(x, phase).phase = phase
                 /\ Enter(x, phase).net = "off"
                 /\ Enter(x, phase).last = NoReport
                 /\ \A f \in {"run", "item", "kind", "via", "secured"} :
                       Enter(x, phase)[f] = x[f]
           /\ \A net \in {"off", "subscribed", "sent"} :
                 /\ OnNet(x, net).net = net
                 /\ \A f \in {"phase", "run", "item", "kind", "via", "secured", "last"} :
                       OnNet(x, net)[f] = x[f]
           /\ \A r \in Reports :
                 /\ Heard(x, r).last = r
                 /\ \A f \in {"phase", "run", "item", "kind", "via", "secured", "net"} :
                       Heard(x, r)[f] = x[f]
           /\ \A secured \in BOOLEAN :
                 /\ InMode(x, secured).secured = secured
                 /\ \A f \in {"phase", "run", "item", "kind", "via", "net", "last"} :
                       InMode(x, secured)[f] = x[f]
           /\ NextItem(x).phase = "publish"
           /\ NextItem(x).net = "off"
           /\ NextItem(x).last = NoReport
           /\ NextItem(x).item = x.item + 1
           /\ \A f \in {"run", "kind", "via", "secured"} : NextItem(x)[f] = x[f]
BY DEF TaskRecord, Enter, OnNet, Heard, InMode, NextItem

\* A task that answers leaves the others apart.
LEMMA AnswerLinked ==
    ASSUME TypeOK, Linked, NEW t \in Tasks, NEW a \in Answers, Busy(t), AnswerWith(t, a)
    PROVE  Linked'
<1>1. /\ task'[t] = Idle
      /\ \A u \in Tasks : u # t => task'[u] = task[u]
      /\ answer' = [answer EXCEPT ![task[t].run] = a]
  BY DEF AnswerWith, Set, TypeOK
<1>2. run' = run /\ Known' = Known /\ wire' = wire
  BY DEF AnswerWith, Known, Id
<1>3. \A u \in Tasks : Busy(u)' => u # t /\ Busy(u) /\ task'[u] = task[u]
  BY <1>1 DEF Busy, Idle
<1>4. task[t].run \in 1 .. run /\ run \in Nat
  BY RunsBound DEF Linked, Serving, TypeOK, Runs
<1>5. \A n \in Runs : n # task[t].run => answer'[n] = answer[n]
  BY <1>1 DEF TypeOK
<1>6. \A u \in Tasks : Busy(u) => task[u].run \in Runs
  BY RunsBound DEF Linked, Serving, TypeOK, Runs
<1>7. Serving'
  BY <1>2, <1>3, <1>5, <1>6 DEF Linked, Serving, Apart
<1>8. \A n \in Runs : n > run => n # task[t].run
  BY <1>4 DEF Runs
<1>9. Apart'
  BY <1>2, <1>3, <1>5, <1>8 DEF Linked, Apart
<1>10. Published'
  BY <1>2, <1>3 DEF Linked, Published, Id
<1> QED
  BY <1>7, <1>9, <1>10 DEF Linked

\* A task that goes on with its request, having published no less, stays apart from the
\* others.
LEMMA MoveLinked ==
    ASSUME TypeOK, Linked, NEW t \in Tasks, Busy(t),
           NEW y, Set(t, y), y.phase # "idle", y.run = task[t].run, y.item # 0,
           \A i \in Items : Sent(task[t], i) => Sent(y, i),
           UNCHANGED <<run, answer, wire, executed, refused>>
    PROVE  Linked'
<1>1. task'[t] = y /\ \A u \in Tasks : u # t => task'[u] = task[u]
  BY DEF Set, TypeOK
<1>2. Known' = Known
  BY DEF Known, Id
<1>3. \A u \in Tasks :
          /\ Busy(u)' => Busy(u)
          /\ task'[u].run = task[u].run
          /\ \A i \in Items : Sent(task[u], i) => Sent(task'[u], i)
  BY <1>1 DEF Busy
<1>4. Serving'
  BY <1>1, <1>3 DEF Linked, Serving, Busy
<1>5. Apart'
  BY <1>3 DEF Linked, Apart
<1>6. Published'
  BY <1>2, <1>3 DEF Linked, Published, Id
<1> QED
  BY <1>4, <1>5, <1>6 DEF Linked

\* So does a task that hears a report.
LEMMA BroadcastLinked ==
    ASSUME TypeOK, NEW r \in Reports, Broadcast(r)
    PROVE  \A t \in Tasks :
               /\ task'[t].last \in {task[t].last, r}
               /\ \A f \in {"phase", "run", "item", "kind", "via", "secured", "net"} :
                     task'[t][f] = task[t][f]
<1>1. \A t \in Tasks : task'[t] = task[t] \/ task'[t] = Heard(task[t], r)
  BY DEF Broadcast
<1>2. \A t \in Tasks : task[t] \in TaskRecord
  BY DEF TypeOK
<1> QED
  BY <1>1, <1>2, TaskFields

\* A step of the printer or the network makes no task's request known further.
LEMMA ReportLinked ==
    ASSUME TypeOK, Linked, UNCHANGED <<run, answer>>, Known' \subseteq Known,
           wire' \subseteq wire,
           \A t \in Tasks, f \in {"phase", "run", "item", "net"} : task'[t][f] = task[t][f]
    PROVE  Linked'
<1>1. \A t \in Tasks : /\ Busy(t)' <=> Busy(t)
                       /\ task'[t].run = task[t].run
                       /\ task'[t].item = task[t].item
                       /\ \A i \in Items : Sent(task'[t], i) <=> Sent(task[t], i)
  BY DEF Busy, Sent
<1>2. Serving'
  BY <1>1 DEF Linked, Serving
<1>3. Apart'
  BY <1>1 DEF Linked, Apart
<1>4. Published'
  BY <1>1 DEF Linked, Published, Id
<1> QED
  BY <1>2, <1>3, <1>4 DEF Linked

\* A new request is apart from those before it.
LEMMA BeginLinked ==
    ASSUME TypeOK, Linked, NEW t \in Tasks, NEW s \in Asked, Begin(t, s)
    PROVE  Linked'
<1>1. /\ task'[t] = Begun(run + 1, s)
      /\ \A u \in Tasks : u # t => task'[u] = task[u]
      /\ run' = run + 1 /\ run + 1 \in Runs
      /\ UNCHANGED <<answer, wire, executed, refused>>
  BY RunsBound DEF Begin, Set, TypeOK, Runs
<1>2. Begun(run + 1, s).run = run + 1 /\ Begun(run + 1, s).item = 1
  BY DEF Begun, Idle
<1>3. Known' = Known
  BY <1>1 DEF Known, Id
<1>4. run \in Nat
  BY RunsBound DEF TypeOK, Runs
<1>5. \A u \in Tasks : u # t => /\ Busy(u)' <=> Busy(u)
                                /\ task'[u] = task[u]
                                /\ Busy(u) => task[u].run \in 1 .. run
  BY <1>1 DEF Busy, Linked, Serving
<1>6. answer[run + 1] = "none"
  BY <1>1, <1>4 DEF Linked, Apart
<1>7. Serving'
  BY <1>1, <1>2, <1>4, <1>5, <1>6 DEF Linked, Serving
<1>8. Apart'
  <2>1. ASSUME NEW u \in Tasks, NEW v \in Tasks, Busy(u)', Busy(v)', u # v
        PROVE  task'[u].run # task'[v].run
    BY <1>1, <1>2, <1>4, <1>5, <2>1 DEF Linked, Apart
  <2>2. ASSUME NEW n \in Runs, n > run' PROVE answer'[n] = "none"
    BY <1>1, <1>4, <2>2, RunsBound DEF Linked, Apart, Runs
  <2> QED
    BY <2>1, <2>2 DEF Apart
<1>9. Published'
  <2>1. ASSUME NEW n \in Runs, NEW i \in Items, <<n, i>> \in Known'
        PROVE  /\ n <= run'
               /\ \A u \in Tasks : Busy(u)' /\ task'[u].run = n => Sent(task'[u], i)
    <3>1. <<n, i>> \in Known /\ n <= run
      BY <1>3, <2>1 DEF Linked, Published
    <3>2. n # run + 1 /\ n <= run'
      BY <1>1, <1>4, <3>1, RunsBound DEF Runs
    <3> QED
      BY <1>1, <1>2, <1>5, <3>1, <3>2 DEF Linked, Published
  <2>2. \A q, r \in wire' : Id(q) = Id(r) => q = r
    BY <1>1 DEF Linked, Published
  <2> QED
    BY <2>1, <2>2 DEF Published, Id
<1> QED
  BY <1>7, <1>8, <1>9 DEF Linked

\* The payload a session publishes was not known before.
LEMMA PublishFresh ==
    ASSUME TypeOK, Linked, NEW t \in Tasks, Publish(t), task[t].phase # "status"
    PROVE  /\ Busy(t)
           /\ Message(task[t]).run = task[t].run
           /\ Message(task[t]).item \in Items
           /\ ~Sent(task[t], Message(task[t]).item)
           /\ Sent(OnNet(task[t], "sent"), Message(task[t]).item)
           /\ Id(Message(task[t])) = <<task[t].run, Message(task[t]).item>>
           /\ Id(Message(task[t])) \notin Known
<1>1. task[t] \in TaskRecord
  BY DEF TypeOK
<1>2. task[t].phase \in {"cert", "publish"} /\ task[t].net = "subscribed" /\ Busy(t)
  BY DEF Publish, Listening, Connected, InSession, SessionPhases, Busy
<1>3. /\ OnNet(task[t], "sent").phase = task[t].phase
      /\ OnNet(task[t], "sent").item = task[t].item
      /\ OnNet(task[t], "sent").net = "sent"
  BY <1>1, TaskFields
<1>4. task[t].item \in Items /\ task[t].item # 0 /\ 0 \in Items
  BY <1>1, <1>2 DEF TaskRecord, Linked, Serving, Items
<1>5. /\ Message(task[t]).run = task[t].run
      /\ Message(task[t]).item = IF task[t].phase = "cert" THEN 0 ELSE task[t].item
  BY DEF Message
<1>6. /\ Message(task[t]).item \in Items
      /\ ~Sent(task[t], Message(task[t]).item)
      /\ Sent(OnNet(task[t], "sent"), Message(task[t]).item)
  BY <1>2, <1>3, <1>4, <1>5 DEF Sent, Items
<1>7. task[t].run \in Runs
  BY <1>2, RunsBound DEF Linked, Serving, TypeOK, Runs
<1>8. Id(Message(task[t])) = <<task[t].run, Message(task[t]).item>>
  BY <1>5 DEF Id
<1>9. Id(Message(task[t])) \notin Known
  BY <1>2, <1>6, <1>7, <1>8 DEF Linked, Published
<1> QED
  BY <1>2, <1>5, <1>6, <1>8, <1>9

LEMMA PublishLinked ==
    ASSUME TypeOK, Linked, NEW t \in Tasks, Publish(t)
    PROVE  Linked'
<1> DEFINE y == OnNet(task[t], "sent")
<1>1. task[t] \in TaskRecord
  BY DEF TypeOK
<1>2. /\ y.phase = task[t].phase /\ y.run = task[t].run /\ y.item = task[t].item
      /\ y.net = "sent"
  BY <1>1, TaskFields
<1>3. Busy(t) /\ task[t].item # 0
  BY DEF Publish, Listening, Connected, InSession, SessionPhases, Busy, Linked, Serving
<1>4. \A i \in Items : Sent(task[t], i) => Sent(y, i)
  BY <1>2 DEF Sent
<1>5. Set(t, y)
  BY DEF Publish
<1> HIDE DEF y
<1>6. CASE task[t].phase = "status"
  BY <1>2, <1>3, <1>4, <1>5, <1>6, MoveLinked DEF Publish, Busy
<1>7. CASE task[t].phase # "status"
  <2> DEFINE m == Message(task[t])
  <2>1. /\ Id(m) = <<task[t].run, m.item>> /\ Id(m) \notin Known
        /\ m.item \in Items /\ Sent(y, m.item)
    BY <1>7, PublishFresh DEF y
  <2>2. /\ wire' = wire \cup {m}
        /\ UNCHANGED <<run, answer, executed, refused>>
    BY <1>7 DEF Publish
  <2> HIDE DEF m
  <2>3. Known' = Known \cup {Id(m)}
    BY <2>2 DEF Known, Id
  <2>4. /\ task'[t] = y
        /\ \A u \in Tasks : u # t => task'[u] = task[u]
    BY <1>5 DEF Set, TypeOK
  <2>5. \A u \in Tasks :
            /\ Busy(u)' <=> Busy(u)
            /\ task'[u].run = task[u].run
            /\ task'[u].item = task[u].item
            /\ \A i \in Items : Sent(task[u], i) => Sent(task'[u], i)
    BY <1>2, <1>4, <2>4 DEF Busy
  <2>6. Serving'
    BY <2>2, <2>5 DEF Linked, Serving
  <2>7. Apart'
    BY <2>2, <2>5 DEF Linked, Apart
  <2>8. ASSUME NEW n \in Runs, NEW i \in Items, <<n, i>> \in Known'
        PROVE  /\ n <= run'
               /\ \A u \in Tasks : Busy(u)' /\ task'[u].run = n => Sent(task'[u], i)
    <3>1. CASE <<n, i>> \in Known
      BY <2>2, <2>5, <3>1 DEF Linked, Published
    <3>2. CASE <<n, i>> = Id(m)
      <4>1. n = task[t].run /\ i = m.item
        BY <2>1, <3>2
      <4>2. n <= run'
        BY <1>3, <2>2, <4>1, RunsBound DEF Linked, Serving, TypeOK, Runs
      <4>3. \A u \in Tasks : Busy(u) /\ task[u].run = n => u = t
        BY <1>3, <4>1 DEF Linked, Apart
      <4> QED
        BY <2>1, <2>4, <2>5, <4>1, <4>2, <4>3
    <3> QED
      BY <2>3, <2>8, <3>1, <3>2
  <2>9. ASSUME NEW q \in wire', NEW r \in wire', Id(q) = Id(r) PROVE q = r
    <3>1. \A p \in wire : Id(p) \in Known
      BY DEF Known
    <3> QED
      BY <2>1, <2>2, <2>9, <3>1 DEF Linked, Published
  <2>10. Published'
    BY <2>8, <2>9 DEF Published, Id
  <2> QED
    BY <2>6, <2>7, <2>10 DEF Linked
<1> QED
  BY <1>6, <1>7

\* What is known after the printer has dealt with a payload was known before.
LEMMA ArrivalKnown ==
    ASSUME NEW q \in wire, Execute(q) \/ Refuse(q) \/ Lose(q)
    PROVE  Known' \subseteq Known /\ wire' = wire \ {q}
BY DEF Execute, Refuse, Lose, Known, Id

\* A report leaves alone what a request depends on.
LEMMA Reported ==
    ASSUME TypeOK, NEW r \in Reports, Broadcast(r)
    PROVE  \A t \in Tasks, f \in {"phase", "run", "item", "net"} : task'[t][f] = task[t][f]
BY BroadcastLinked

\* The phases a task passes through do not unsay what it has published.
LEMMA EnterLinked ==
    ASSUME TypeOK, Linked, NEW t \in Tasks, NEW x \in TaskRecord, NEW phase \in Phases,
           Set(t, Enter(x, phase)), x.run = task[t].run, x.item = task[t].item,
           UNCHANGED <<run, answer, wire, executed, refused>>,
           \/ task[t].phase = "status" /\ phase # "idle"
           \/ task[t].phase = "cert" /\ phase = "upload"
           \/ task[t].phase = "upload" /\ phase = "uploading"
           \/ task[t].phase = "uploading" /\ phase = "publish"
    PROVE  Linked'
<1> DEFINE y == Enter(x, phase)
<1>1. y.phase = phase /\ y.run = task[t].run /\ y.item = task[t].item
  BY TaskFields
<1>2. Busy(t) /\ task[t].item # 0
  BY DEF Busy, Linked, Serving
<1>3. \A i \in Items : Sent(task[t], i) => Sent(y, i)
  BY <1>1 DEF Sent
<1> HIDE DEF y
<1> QED
  BY <1>1, <1>2, <1>3, MoveLinked DEF y

LEMMA NextItemLinked ==
    ASSUME TypeOK, Linked, NEW t \in Tasks, task[t].phase = "publish",
           MoveOn(t, NextItem(task[t]))
    PROVE  Linked'
<1> DEFINE y == NextItem(task[t])
<1>1. y.phase = "publish" /\ y.run = task[t].run /\ y.item = task[t].item + 1
  BY TaskFields DEF TypeOK
<1>2. Busy(t) /\ task[t].item # 0
  BY DEF Busy, Linked, Serving
<1>3. task[t].item \in 0 .. 2
  BY DEF TypeOK, TaskRecord, Items
<1>4. \A i \in Items : Sent(task[t], i) => Sent(y, i)
  BY <1>1, <1>3 DEF Sent, Items
<1>5. Set(t, y) /\ UNCHANGED <<run, answer, wire, executed, refused>>
  BY DEF MoveOn
<1> HIDE DEF y
<1> QED
  BY <1>1, <1>2, <1>3, <1>4, <1>5, MoveLinked

\* Every step keeps requests apart.
LEMMA LinkedStep ==
    ASSUME TypeOK, Linked, [Next]_vars
    PROVE  Linked'
<1>task. \A t \in Tasks : task[t] \in TaskRecord
  BY DEF TypeOK
<1>1. ASSUME NEW t \in Tasks, NEW s \in Asked, Begin(t, s) PROVE Linked'
  BY <1>1, BeginLinked
<1>2. ASSUME NEW t \in Tasks, Connect(t) PROVE Linked'
  <2> DEFINE y == OnNet(task[t], "subscribed")
  <2>1. y.phase = task[t].phase /\ y.run = task[t].run /\ y.item = task[t].item
    BY <1>task, TaskFields
  <2>2. Busy(t) /\ task[t].item # 0 /\ task[t].net = "off"
    BY <1>2 DEF Connect, InSession, SessionPhases, Busy, Linked, Serving
  <2>3. \A i \in Items : Sent(task[t], i) => Sent(y, i)
    BY <2>1, <2>2 DEF Sent
  <2>4. Set(t, y) /\ UNCHANGED <<run, answer, wire, executed, refused>>
    BY <1>2 DEF Connect
  <2> HIDE DEF y
  <2> QED
    BY <2>1, <2>2, <2>3, <2>4, MoveLinked DEF Busy
<1>3. ASSUME NEW t \in Tasks, Publish(t) PROVE Linked'
  BY <1>3, PublishLinked
<1>4. ASSUME NEW t \in Tasks, Fails(t) PROVE Linked'
  BY <1>4, AnswerLinked DEF Fails, Busy, Answers
<1>5. ASSUME NEW t \in Tasks, AfterStatus(t) PROVE Linked'
  <2>1. CASE AnswerWith(t, "failed") \/ AnswerWith(t, "ok")
    BY <1>5, <2>1, AnswerLinked DEF AfterStatus, Busy, Answers
  <2>2. CASE AfterMode(t, InMode(task[t], SecuredBy(task[t].last)))
    <3> DEFINE x == InMode(task[t], SecuredBy(task[t].last))
    <3>1. SecuredBy(task[t].last) \in BOOLEAN
      BY <1>task DEF SecuredBy, TaskRecord, Reports
    <3>2. x \in TaskRecord /\ x.run = task[t].run /\ x.item = task[t].item
      <4>1. task[t] \in TaskRecord
        BY <1>task
      <4>2. x \in TaskRecord
        BY <3>1, <4>1, TaskOps
      <4> QED
        BY <4>1, <4>2 DEF InMode, TaskRecord
    <3> HIDE DEF x
    <3>3. PICK phase \in {"publish", "upload", "cert"} : MoveOn(t, Enter(x, phase))
      BY <2>2 DEF AfterMode, x
    <3> QED
      BY <1>5, <3>2, <3>3, EnterLinked DEF AfterStatus, MoveOn, Phases
  <2> QED
    BY <1>5, <2>1, <2>2 DEF AfterStatus
<1>6. ASSUME NEW t \in Tasks, AfterCert(t) PROVE Linked'
  BY <1>6, <1>task, EnterLinked DEF AfterCert, MoveOn, Phases
<1>7. ASSUME NEW t \in Tasks, AfterPublish(t) PROVE Linked'
  <2>1. CASE \E a \in Answers : AnswerWith(t, a)
    BY <1>7, <2>1, AnswerLinked DEF AfterPublish, Busy
  <2>2. CASE MoveOn(t, NextItem(task[t]))
    BY <1>7, <2>2, NextItemLinked DEF AfterPublish
  <2> QED
    BY <1>7, <2>1, <2>2 DEF AfterPublish, NextOrOk, Answers
<1>8. ASSUME NEW t \in Tasks, Upload(t) PROVE Linked'
  <2>1. CASE UploadBegin(t)
    BY <2>1, <1>task, EnterLinked DEF UploadBegin, Phases
  <2>2. CASE UploadEnd(t)
    BY <2>2, <1>task, EnterLinked DEF UploadEnd, Phases
  <2> QED
    BY <1>8, <2>1, <2>2 DEF Upload
<1>9. ASSUME NEW q \in wire, Execute(q) \/ Refuse(q) \/ Lose(q) PROVE Linked'
  <2>1. q \in Requests
    BY DEF TypeOK
  <2>2. \A t \in Tasks, f \in {"phase", "run", "item", "net"} : task'[t][f] = task[t][f]
    BY <1>9, <2>1, ReportTypes, Reported DEF Execute, Refuse, Lose
  <2>3. UNCHANGED <<run, answer>>
    BY <1>9 DEF Execute, Refuse, Lose
  <2> QED
    BY <1>9, <2>2, <2>3, ArrivalKnown, ReportLinked
<1>10. CASE Push \/ Version
  <2>1. PICK r \in Reports : Broadcast(r)
    BY <1>10, ReportTypes DEF Push, Version, TypeOK, Printer
  <2>2. UNCHANGED <<run, answer, wire, executed, refused>>
    BY <1>10 DEF Push, Version
  <2>3. Known' = Known
    BY <2>2 DEF Known, Id
  <2> QED
    BY <2>1, <2>2, <2>3, Reported, ReportLinked
<1>11. CASE UNCHANGED vars
  <2>1. UNCHANGED <<run, answer, wire, executed, refused, task>>
    BY <1>11 DEF vars
  <2>2. Known' = Known
    BY <2>1 DEF Known, Id
  <2> QED
    BY <2>1, <2>2, ReportLinked
<1> QED
  BY <1>1, <1>2, <1>3, <1>4, <1>5, <1>6, <1>7, <1>8, <1>9, <1>10, <1>11
  DEF Next, TaskStep, Deadline, PrinterStep

LEMMA InitLinked == Init => TypeOK /\ Linked
<1> SUFFICES ASSUME Init PROVE TypeOK /\ Linked
  OBVIOUS
<1>1. TypeOK
  BY FreshTask DEF Init, TypeOK, Printer
<1>2. \A t \in Tasks : ~Busy(t)
  BY DEF Init, Busy, Idle
<1>3. Known = {}
  BY DEF Init, Known
<1>4. Linked
  BY <1>2, <1>3 DEF Init, Linked, Serving, Apart, Published
<1> QED
  BY <1>1, <1>4

\* The tasks, the sessions, the messages and the results keep their types, and requests stay
\* apart, in every behaviour.
THEOREM LinkCorrect == Spec => [](TypeOK /\ Linked)
<1>1. TypeOK /\ Linked /\ [Next]_vars => TypeOK' /\ Linked'
  BY TypeStep, LinkedStep DEF Linked
<1> QED
  BY <1>1, InitLinked, PTL DEF Spec

\* Types of PrinterLink (all of crates/elysian-protocol/src/lan_mqtt.rs).
THEOREM TypeCorrect == Spec => []TypeOK
BY LinkCorrect, PTL

-----------------------------------------------------------------------------
(* The abstract service                                                      *)

\* A request is answered.
LEMMA AnswerRefines ==
    ASSUME TypeOK, Linked, NEW t \in Tasks, NEW a \in Answers, Busy(t), AnswerWith(t, a)
    PROVE  Service!ServiceNext
<1>1. task[t].run \in 1 .. run /\ answer[task[t].run] = "none"
  BY DEF Linked, Serving
<1>2. Service!Answer(task[t].run, a)
  BY <1>1 DEF AnswerWith, Service!Answer, Id
<1> QED
  BY <1>1, <1>2 DEF Service!ServiceNext

\* A payload is published: it is new, and its request has no answer.
LEMMA PublishRefines ==
    ASSUME TypeOK, Linked, NEW t \in Tasks, Publish(t)
    PROVE  [Service!ServiceNext]_(Service!serviceVars)
<1>1. CASE task[t].phase = "status"
  BY <1>1 DEF Publish, Service!serviceVars, Id
<1>2. CASE task[t].phase # "status"
  <2> DEFINE m == Message(task[t])
  <2>1. /\ Busy(t) /\ Id(m) = <<task[t].run, m.item>> /\ Id(m) \notin Known
        /\ m.item \in Items
    BY <1>2, PublishFresh
  <2>2. wire' = wire \cup {m} /\ UNCHANGED <<run, answer, executed, refused>>
    BY <1>2 DEF Publish
  <2> HIDE DEF m
  <2>3. task[t].run \in 1 .. run /\ answer[task[t].run] = "none"
    BY <2>1 DEF Linked, Serving
  <2>4. {Id(q) : q \in wire'} = {Id(q) : q \in wire} \cup {Id(m)}
    BY <2>2 DEF Id
  <2>5. Service!Send(task[t].run, m.item)
    BY <2>1, <2>2, <2>3, <2>4 DEF Service!Send, Known, Id
  <2> QED
    BY <2>1, <2>3, <2>5 DEF Service!ServiceNext
<1> QED
  BY <1>1, <1>2

\* A payload arrives at the printer or is lost.
LEMMA ArrivalRefines ==
    ASSUME TypeOK, Linked, NEW q \in wire, Execute(q) \/ Refuse(q) \/ Lose(q)
    PROVE  Service!ServiceNext
<1>1. wire' = wire \ {q}
  BY ArrivalKnown
<1>2. \A r \in wire : Id(r) = Id(q) => r = q
  BY DEF Linked, Published
<1>3. {Id(r) : r \in wire'} = {Id(r) : r \in wire} \ {Id(q)}
  BY <1>1, <1>2 DEF Id
<1>4. Id(q) \in {Id(r) : r \in wire}
  OBVIOUS
<1>5. Service!Arrive(Id(q))
  BY <1>3 DEF Execute, Refuse, Lose, Service!Arrive, Id
<1> QED
  BY <1>4, <1>5 DEF Service!ServiceNext, Id

\* Every step is a step of the abstract service, or none.
LEMMA ServiceStep ==
    ASSUME TypeOK, Linked, [Next]_vars
    PROVE  [Service!ServiceNext]_(Service!serviceVars)
<1>1. ASSUME NEW t \in Tasks, NEW s \in Asked, Begin(t, s) PROVE Service!ServiceNext
  BY <1>1 DEF Begin, Service!ServiceNext, Service!Ask, Id
<1>2. ASSUME UNCHANGED <<run, answer, wire, executed, refused>>
      PROVE  UNCHANGED Service!serviceVars
  BY <1>2 DEF Service!serviceVars, Id
<1>3. ASSUME NEW t \in Tasks, Publish(t) PROVE [Service!ServiceNext]_(Service!serviceVars)
  BY <1>3, PublishRefines
<1>4. ASSUME NEW t \in Tasks, Fails(t) PROVE Service!ServiceNext
  BY <1>4, AnswerRefines DEF Fails, Busy, Answers
<1>5. ASSUME NEW t \in Tasks, NEW x, MoveOn(t, x) PROVE UNCHANGED Service!serviceVars
  BY <1>2, <1>5 DEF MoveOn
<1>6. ASSUME NEW t \in Tasks, Deadline(t)
      PROVE  [Service!ServiceNext]_(Service!serviceVars)
  <2>1. Busy(t)
    BY <1>6 DEF Deadline, AfterStatus, AfterCert, AfterPublish, Busy
  <2>2. (\E x : MoveOn(t, x)) \/ (\E a \in Answers : AnswerWith(t, a))
    BY <1>6 DEF Deadline, AfterStatus, AfterMode, AfterCert, AfterPublish, NextOrOk, Answers
  <2> QED
    BY <1>5, <2>1, <2>2, AnswerRefines
<1>7. ASSUME NEW q \in wire, Execute(q) \/ Refuse(q) \/ Lose(q) PROVE Service!ServiceNext
  BY <1>7, ArrivalRefines
<1>8. ASSUME NEW t \in Tasks, Connect(t) \/ Upload(t) PROVE UNCHANGED Service!serviceVars
  BY <1>2, <1>8 DEF Connect, Upload, UploadBegin, UploadEnd
<1>9. CASE Push \/ Version \/ UNCHANGED vars
  BY <1>2, <1>9 DEF Push, Version, vars
<1> QED
  BY <1>1, <1>3, <1>4, <1>6, <1>7, <1>8, <1>9 DEF Next, TaskStep, PrinterStep

\* The backends implement the abstract service, for any number of tasks and requests.
THEOREM Implements == Spec => ImplementsService
<1>1. Init => Service!ServiceInit
  BY DEF Init, Service!ServiceInit, Runs
<1>2. TypeOK /\ Linked /\ [Next]_vars => [Service!ServiceNext]_(Service!serviceVars)
  BY ServiceStep
<1> QED
  BY <1>1, <1>2, LinkCorrect, PTL DEF Spec, ImplementsService, Service!ServiceSpec

-----------------------------------------------------------------------------
(* What the studio makes of the reports                                      *)

Cause == refused # {} \/ printer.erred

Heeding == Heeded /\ RejectionHasCause /\ SecuredOnlyIfSo

\* What a step has to leave for the studio's conclusions to stay true.
HeedsKept ==
    /\ Cause => Cause'
    /\ printer'.secured = printer.secured
    /\ \A t \in Tasks :
          /\ task'[t].last.bad => task[t].last.bad \/ Cause'
          /\ task'[t].last.secured => task[t].last.secured \/ printer.secured
          /\ task'[t].secured => task[t].secured \/ task[t].last.secured
    /\ \A n \in Runs :
          answer'[n] = "rejected" => \/ answer[n] = "rejected"
                                     \/ \E t \in Tasks : task[t].last.bad

LEMMA HeedStays ==
    ASSUME Heeding, HeedsKept
    PROVE  Heeding'
<1>1. \A t \in Tasks : /\ task[t].last.bad => Cause
                       /\ task[t].last.secured => printer.secured
                       /\ task[t].secured => printer.secured
  BY DEF Heeding, Heeded, SecuredOnlyIfSo, Cause
<1>2. Heeded'
  BY <1>1 DEF HeedsKept, Heeded, Cause
<1>3. SecuredOnlyIfSo'
  BY <1>1 DEF HeedsKept, SecuredOnlyIfSo
<1>4. (\E n \in Runs : answer[n] = "rejected") => Cause
  BY DEF Heeding, RejectionHasCause, Cause
<1>5. RejectionHasCause'
  BY <1>1, <1>4 DEF HeedsKept, RejectionHasCause, Cause
<1> QED
  BY <1>2, <1>3, <1>5 DEF Heeding

\* One task goes on: it forgets its report or keeps it, and takes the printer's mode from it.
LEMMA MoveHeeds ==
    ASSUME TypeOK, NEW t \in Tasks, NEW y, Set(t, y),
           y.last \in {NoReport, task[t].last},
           y.secured => task[t].secured \/ task[t].last.secured,
           Cause => Cause', printer'.secured = printer.secured,
           \A n \in Runs : answer'[n] = "rejected" =>
               answer[n] = "rejected" \/ task[t].last.bad
    PROVE  HeedsKept
<1>1. task'[t] = y /\ \A u \in Tasks : u # t => task'[u] = task[u]
  BY DEF Set, TypeOK
<1>2. ~NoReport.bad /\ ~NoReport.secured
  BY DEF NoReport
<1> QED
  BY <1>1, <1>2 DEF HeedsKept

\* Tasks hear a report: what it tells is so.
LEMMA ReportHeeds ==
    ASSUME TypeOK, NEW r \in Reports, Broadcast(r),
           r.bad => Cause', r.secured => printer.secured,
           Cause => Cause', printer'.secured = printer.secured, UNCHANGED answer
    PROVE  HeedsKept
<1>1. \A t \in Tasks : /\ task'[t].last \in {task[t].last, r}
                       /\ task'[t].secured = task[t].secured
  BY BroadcastLinked
<1> QED
  BY <1>1 DEF HeedsKept

LEMMA AnswerHeeds ==
    ASSUME TypeOK, NEW t \in Tasks, NEW a \in Answers, AnswerWith(t, a),
           a = "rejected" => task[t].last.bad
    PROVE  HeedsKept
<1> DEFINE y == Idle
<1>1. y.last = NoReport /\ ~y.secured /\ Set(t, y)
  BY DEF Idle, AnswerWith
<1>2. \A n \in Runs : answer'[n] = "rejected" =>
          answer[n] = "rejected" \/ task[t].last.bad
  BY DEF AnswerWith, TypeOK
<1>3. (Cause => Cause') /\ printer'.secured = printer.secured
  BY DEF AnswerWith, Cause
<1> HIDE DEF y
<1> QED
  BY <1>1, <1>2, <1>3, MoveHeeds

LEMMA MoveOnHeeds ==
    ASSUME TypeOK, NEW t \in Tasks, NEW y, MoveOn(t, y), y.last = NoReport,
           y.secured => task[t].secured \/ task[t].last.secured
    PROVE  HeedsKept
<1>1. (Cause => Cause') /\ printer'.secured = printer.secured
  BY DEF MoveOn, Cause
<1>2. Set(t, y) /\ answer' = answer
  BY DEF MoveOn
<1> QED
  BY <1>1, <1>2, MoveHeeds

\* An upload leaves the printer's mode and errors alone.
LEMMA StoreKeeps ==
    ASSUME TypeOK, NEW t \in Tasks, NEW content, StoreFile(t, content)
    PROVE  printer'.secured = printer.secured /\ printer'.erred = printer.erred
BY DEF StoreFile, TypeOK, Printer

LEMMA HeedStep ==
    ASSUME TypeOK, [Next]_vars
    PROVE  HeedsKept
<1>task. \A t \in Tasks : task[t] \in TaskRecord
  BY DEF TypeOK
<1>1. ASSUME NEW t \in Tasks, NEW s \in Asked, Begin(t, s) PROVE HeedsKept
  <2> DEFINE y == Begun(run + 1, s)
  <2>1. y.last = NoReport /\ ~y.secured
    BY DEF Begun, Idle
  <2>2. (Cause => Cause') /\ UNCHANGED <<printer, answer>> /\ Set(t, y)
    BY <1>1 DEF Begin, Cause
  <2> HIDE DEF y
  <2> QED
    BY <2>1, <2>2, MoveHeeds
<1>2. ASSUME NEW t \in Tasks, Connect(t) \/ Publish(t) PROVE HeedsKept
  <2>1. PICK net \in {"subscribed", "sent"} : Set(t, OnNet(task[t], net))
    BY <1>2 DEF Connect, Publish
  <2> DEFINE y == OnNet(task[t], net)
  <2>2. y.last = task[t].last /\ y.secured = task[t].secured
    BY <1>task, TaskFields
  <2>3. (Cause => Cause') /\ UNCHANGED <<printer, answer>> /\ Set(t, y)
    BY <1>2, <2>1 DEF Connect, Publish, Cause
  <2> HIDE DEF y
  <2> QED
    BY <2>2, <2>3, MoveHeeds
<1>3. ASSUME NEW t \in Tasks, Fails(t) PROVE HeedsKept
  BY <1>3, AnswerHeeds DEF Fails, Answers
<1>4. ASSUME NEW t \in Tasks, AfterStatus(t) PROVE HeedsKept
  <2>1. CASE AnswerWith(t, "failed") \/ AnswerWith(t, "ok")
    BY <2>1, AnswerHeeds DEF Answers
  <2>2. CASE AfterMode(t, InMode(task[t], SecuredBy(task[t].last)))
    <3> DEFINE x == InMode(task[t], SecuredBy(task[t].last))
    <3>1. x \in TaskRecord
      <4>1. SecuredBy(task[t].last) \in BOOLEAN
        BY <1>task DEF SecuredBy, TaskRecord, Reports
      <4> QED
        BY <1>task, <4>1, TaskOps
    <3>2. x.secured = task[t].last.secured
      BY <1>task DEF InMode, SecuredBy, TaskRecord
    <3> HIDE DEF x
    <3>3. PICK phase \in Phases : MoveOn(t, Enter(x, phase))
      BY <2>2 DEF AfterMode, x, Phases
    <3>4. Enter(x, phase).last = NoReport /\ Enter(x, phase).secured = x.secured
      BY <3>1, TaskFields
    <3> QED
      BY <3>2, <3>3, <3>4, MoveOnHeeds
  <2> QED
    BY <1>4, <2>1, <2>2 DEF AfterStatus
<1>5. ASSUME NEW t \in Tasks, AfterCert(t) PROVE HeedsKept
  <2>1. Enter(task[t], "upload").last = NoReport
        /\ Enter(task[t], "upload").secured = task[t].secured
    BY <1>task, TaskFields DEF Phases
  <2> QED
    BY <1>5, <2>1, MoveOnHeeds DEF AfterCert
<1>6. ASSUME NEW t \in Tasks, AfterPublish(t) PROVE HeedsKept
  <2>1. CASE AnswerWith(t, "rejected") /\ Rejected(task[t].last)
    BY <2>1, AnswerHeeds DEF Rejected, Answers
  <2>2. CASE AnswerWith(t, "ok")
    BY <2>2, AnswerHeeds DEF Answers
  <2>3. CASE MoveOn(t, NextItem(task[t]))
    <3>1. NextItem(task[t]).last = NoReport /\ NextItem(task[t]).secured = task[t].secured
      BY <1>task, TaskFields
    <3> QED
      BY <2>3, <3>1, MoveOnHeeds
  <2> QED
    BY <1>6, <2>1, <2>2, <2>3 DEF AfterPublish, NextOrOk
<1>7. ASSUME NEW t \in Tasks, Upload(t) PROVE HeedsKept
  <2>1. PICK phase \in {"uploading", "publish"} : Set(t, Enter(task[t], phase))
    BY <1>7 DEF Upload, UploadBegin, UploadEnd
  <2> DEFINE y == Enter(task[t], phase)
  <2>2. y.last = NoReport /\ y.secured = task[t].secured
    BY <1>task, TaskFields DEF Phases
  <2>3. printer'.secured = printer.secured /\ printer'.erred = printer.erred
    BY <1>7, StoreKeeps DEF Upload, UploadBegin, UploadEnd
  <2>4. (Cause => Cause') /\ answer' = answer
    BY <1>7, <2>3 DEF Upload, UploadBegin, UploadEnd, Cause
  <2>5. Set(t, y)
    BY <2>1
  <2> HIDE DEF y
  <2> QED
    BY <2>2, <2>3, <2>4, <2>5, MoveHeeds
<1>8. ASSUME NEW q \in wire, Execute(q) PROVE HeedsKept
  <2> DEFINE r == ResultReport(ResultKind(q), TRUE)
  <2>1. r \in Reports /\ ~r.bad /\ ~r.secured
    BY ReportTypes DEF ResultReport, TypeOK
  <2>2. Broadcast(r) /\ (Cause => Cause') /\ UNCHANGED <<printer, answer>>
    BY <1>8 DEF Execute, Cause
  <2> HIDE DEF r
  <2> QED
    BY <2>1, <2>2, ReportHeeds
<1>9. ASSUME NEW q \in wire, Refuse(q) PROVE HeedsKept
  <2> DEFINE r == ResultReport(ResultKind(q), FALSE)
  <2>1. r \in Reports /\ ~r.secured
    BY ReportTypes DEF ResultReport, TypeOK
  <2>2. Broadcast(r) /\ Cause' /\ UNCHANGED <<printer, answer>>
    BY <1>9 DEF Refuse, Cause
  <2> HIDE DEF r
  <2> QED
    BY <2>1, <2>2, ReportHeeds
<1>10. ASSUME Push PROVE HeedsKept
  <2>1. PICK error \in BOOLEAN, secured \in {printer.secured, FALSE} :
            /\ Broadcast(PushReport(error, secured))
            /\ printer' = [printer EXCEPT !.erred = @ \/ error]
    BY <1>10 DEF Push
  <2> DEFINE r == PushReport(error, secured)
  <2>2. r \in Reports
    BY ReportTypes DEF TypeOK, Printer
  <2>3. (r.secured => printer.secured) /\ (r.bad <=> error)
    BY DEF PushReport
  <2>4. printer'.erred = (printer.erred \/ error) /\ printer'.secured = printer.secured
    BY <2>1 DEF TypeOK, Printer
  <2>5. (Cause => Cause') /\ (error => Cause') /\ answer' = answer
    BY <1>10, <2>4 DEF Push, Cause
  <2>6. Broadcast(r)
    BY <2>1
  <2> HIDE DEF r
  <2> QED
    BY <2>2, <2>3, <2>4, <2>5, <2>6, ReportHeeds
<1>11. ASSUME Version PROVE HeedsKept
  <2> DEFINE r == VersionReport
  <2>2. r \in Reports /\ ~r.bad /\ ~r.secured
    BY ReportTypes DEF VersionReport
  <2>3. Broadcast(r) /\ (Cause => Cause') /\ UNCHANGED <<printer, answer>>
    BY <1>11 DEF Version, Cause
  <2> HIDE DEF r
  <2> QED
    BY <2>2, <2>3, ReportHeeds
<1>12. ASSUME UNCHANGED <<task, answer, printer, refused>> PROVE HeedsKept
  BY <1>12 DEF HeedsKept, Cause
<1>13. ASSUME NEW q \in wire, Lose(q) PROVE HeedsKept
  BY <1>12, <1>13 DEF Lose
<1> QED
  BY <1>1, <1>2, <1>3, <1>4, <1>5, <1>6, <1>7, <1>8, <1>9, <1>10, <1>11, <1>12, <1>13
  DEF Next, TaskStep, Deadline, PrinterStep, vars

\* At the start there is nothing to conclude.
LEMMA InitHeeding == Init => Heeding
BY DEF Init, Heeding, Heeded, RejectionHasCause, SecuredOnlyIfSo, Idle, NoReport

\* What the studio concludes from reports is always backed by the printer.
THEOREM HeedsReports == Spec => []Heeding
<1>1. TypeOK /\ Heeding /\ [Next]_vars => Heeding'
  BY HeedStep, HeedStays
<1> QED
  BY <1>1, InitHeeding, TypeCorrect, PTL DEF Spec

\* A rejection has its cause in the printer: a refusal or an error, not the mere presence
\* of print_error in every push_status (mqtt_report_rejected).
THEOREM RejectionsHaveCause == Spec => []RejectionHasCause
BY HeedsReports, PTL DEF Heeding

\* The studio takes a printer for secured only if it is (developer_mode_from_fun).
THEOREM SecuredIfSo == Spec => []SecuredOnlyIfSo
BY HeedsReports, PTL DEF Heeding

-----------------------------------------------------------------------------
(* The uploaded file                                                         *)

PrintKept == Stored /\ PrintsOwnUpload

\* Once another print was sent, that stays so.
LEMMA UploadedGrows ==
    ASSUME TypeOK, NEW t \in Tasks, NEW content, StoreFile(t, content),
           NEW n \in Runs, n # task[t].run, Uploaded(n)
    PROVE  Uploaded(n)'
<1>1. CASE Via(t) = "lan"
  <2>1. printer'.uploads = printer.uploads \cup {task[t].run}
    BY <1>1 DEF StoreFile, TypeOK, Printer
  <2> QED
    BY <2>1 DEF Uploaded
<1>2. CASE Via(t) # "lan"
  BY <1>2 DEF StoreFile, Uploaded
<1> QED
  BY <1>1, <1>2

\* The messages of a task that has not published have another run.
LEMMA OthersMessages ==
    ASSUME TypeOK, Linked, NEW t \in Tasks, task[t].phase \in {"upload", "uploading"},
           NEW q \in wire, q.item # 0
    PROVE  q.run \in Runs /\ q.run # task[t].run
<1>1. q.run \in Runs /\ q.item \in Items /\ <<q.run, q.item>> \in Known
  BY DEF TypeOK, Requests, Known, Id
<1>2. ~Sent(task[t], q.item) /\ Busy(t)
  BY DEF Sent, Busy
<1> QED
  BY <1>1, <1>2 DEF Linked, Published

LEMMA OthersRuns ==
    ASSUME TypeOK, Linked, NEW t \in Tasks, NEW u \in Tasks, t # u, Busy(t), Busy(u)
    PROVE  task[u].run \in Runs /\ task[u].run # task[t].run
BY RunsBound DEF Linked, Serving, Apart, TypeOK, Runs

\* The step of an upload keeps every print with its file, or another print in its place.
LEMMA UploadKeepsPrints ==
    ASSUME TypeOK, Linked, PrintKept, NEW t \in Tasks, Upload(t)
    PROVE  PrintKept'
<1>task. \A u \in Tasks : task[u] \in TaskRecord
  BY DEF TypeOK
<1>1. PICK content \in {0, task[t].run}, phase \in {"uploading", "publish"} :
          /\ StoreFile(t, content)
          /\ Set(t, Enter(task[t], phase))
          /\ phase = "publish" => content = task[t].run
  BY DEF Upload, UploadBegin, UploadEnd
<1>2. /\ task[t].phase \in {"upload", "uploading"} /\ Busy(t)
      /\ UNCHANGED <<wire, printed>>
  BY DEF Upload, UploadBegin, UploadEnd, Busy
<1>3. task[t].run \in Runs
  BY <1>2, RunsBound DEF Linked, Serving, TypeOK, Runs
<1>4. /\ task'[t].phase = phase
      /\ \A f \in {"run", "kind", "via"} : task'[t][f] = task[t][f]
      /\ \A u \in Tasks : u # t => task'[u] = task[u]
  BY <1>1, <1>task, TaskFields DEF Set, TypeOK, Phases
<1>5. printer'.file # 0 => printer'.file \in printer'.uploads
  <2>1. CASE Via(t) = "lan"
    BY <1>1, <2>1 DEF StoreFile, TypeOK, Printer
  <2>2. CASE Via(t) # "lan"
    BY <1>1, <2>2 DEF StoreFile, PrintKept, Stored
  <2> QED
    BY <2>1, <2>2
<1>6. ASSUME NEW u \in Tasks, task'[u].phase = "publish", Prints(task'[u])
      PROVE  Uploaded(task[u].run)'
  <2>1. CASE u = t
    <3>1. Via(t) = "lan" /\ content = task[t].run /\ task'[u].run = task[t].run
      BY <1>1, <1>4, <1>6, <2>1 DEF Prints, Via
    <3>2. printer'.file = task[t].run
      BY <1>1, <3>1 DEF StoreFile, TypeOK, Printer
    <3> QED
      BY <3>1, <3>2 DEF Uploaded
  <2>2. CASE u # t
    <3>1. task'[u] = task[u] /\ Busy(u) /\ Uploaded(task[u].run)
      BY <1>4, <1>6, <2>2 DEF Busy, PrintKept, Stored
    <3>2. task[u].run \in Runs /\ task[u].run # task[t].run
      BY <1>2, <2>2, <3>1, OthersRuns
    <3>3. PICK n \in Runs : n = task[u].run
      BY <3>2
    <3>4. Uploaded(n)'
      BY <1>1, <3>1, <3>2, <3>3, UploadedGrows
    <3>5. n = task'[u].run
      BY <3>1, <3>3
    <3> QED
      BY <3>4, <3>5 DEF Uploaded
  <2> QED
    BY <2>1, <2>2
<1>7. ASSUME NEW q \in wire', Prints(q), q.item # 0
      PROVE  Uploaded(q.run)'
  <2>1. q \in wire /\ Uploaded(q.run)
    BY <1>2, <1>7 DEF PrintKept, Stored
  <2>2. q.run \in Runs /\ q.run # task[t].run
    BY <1>2, <1>7, <2>1, OthersMessages
  <2> QED
    BY <1>1, <2>1, <2>2, UploadedGrows
<1>8. Stored'
  BY <1>5, <1>6, <1>7 DEF Stored
<1>9. PrintsOwnUpload'
  <2>1. printer.uploads \subseteq printer'.uploads
    BY <1>1 DEF StoreFile, TypeOK, Printer
  <2> QED
    BY <1>2, <2>1 DEF PrintKept, PrintsOwnUpload
<1> QED
  BY <1>8, <1>9 DEF PrintKept

\* Where the file and the prints do not change, neither do the prints' files.
LEMMA PrintsStay ==
    ASSUME PrintKept, printer'.file = printer.file, printer'.uploads = printer.uploads,
           printed' = printed,
           \A q \in wire' : Prints(q) /\ q.item # 0 => q \in wire \/ Uploaded(q.run),
           \A t \in Tasks :
               task'[t].phase = "publish" /\ Prints(task'[t]) => Uploaded(task'[t].run)
    PROVE  PrintKept'
<1>1. \A n : Uploaded(n)' <=> Uploaded(n)
  BY DEF Uploaded
<1>2. Stored'
  BY <1>1 DEF PrintKept, Stored, Uploaded
<1>3. PrintsOwnUpload'
  BY DEF PrintKept, PrintsOwnUpload
<1> QED
  BY <1>2, <1>3 DEF PrintKept

\* Only a step of an upload changes the file, only the end of one lets a LAN print be
\* published, and only a message published starts a print.
LEMMA PrintStep ==
    ASSUME TypeOK, Linked, PrintKept, [Next]_vars
    PROVE  PrintKept'
<1>task. \A t \in Tasks : task[t] \in TaskRecord
  BY DEF TypeOK
<1>held. \A t \in Tasks : task[t].phase = "publish" /\ Prints(task[t]) => Uploaded(task[t].run)
  BY DEF PrintKept, Stored
<1>set. ASSUME NEW t \in Tasks, NEW y, Set(t, y), UNCHANGED <<printer, wire, printed>>,
               y.phase = "publish" /\ Prints(y) => Uploaded(y.run)
        PROVE  PrintKept'
  <2>1. \A u \in Tasks : task'[u] = task[u] \/ task'[u] = y
    BY <1>set DEF Set, TypeOK
  <2> QED
    BY <1>set, <1>held, <2>1, PrintsStay
<1>1. ASSUME NEW t \in Tasks, NEW s \in Asked, Begin(t, s) PROVE PrintKept'
  <2> DEFINE y == Begun(run + 1, s)
  <2>1. ~(y.phase = "publish" /\ Prints(y))
    BY DEF Begun, Idle, FirstPhase, Prints
  <2>2. Set(t, y) /\ UNCHANGED <<printer, wire, printed>>
    BY <1>1 DEF Begin
  <2> HIDE DEF y
  <2> QED
    BY <1>set, <2>1, <2>2
<1>2. ASSUME NEW t \in Tasks, Connect(t) PROVE PrintKept'
  <2> DEFINE y == OnNet(task[t], "subscribed")
  <2>1. /\ y.phase = task[t].phase /\ y.run = task[t].run
        /\ y.kind = task[t].kind /\ y.via = task[t].via
    BY <1>task, TaskFields
  <2>2. Set(t, y) /\ UNCHANGED <<printer, wire, printed>>
    BY <1>2 DEF Connect
  <2> HIDE DEF y
  <2> QED
    BY <1>set, <1>held, <2>1, <2>2 DEF Prints
<1>3. ASSUME NEW t \in Tasks, Publish(t) PROVE PrintKept'
  <2> DEFINE y == OnNet(task[t], "sent")  m == Message(task[t])
  <2>1. /\ y.phase = task[t].phase /\ y.run = task[t].run
        /\ y.kind = task[t].kind /\ y.via = task[t].via
    BY <1>task, TaskFields
  <2>2. /\ Set(t, y) /\ UNCHANGED <<printer, printed>>
        /\ \A q \in wire' : q \in wire \/ (q = m /\ task[t].phase # "status")
    BY <1>3 DEF Publish
  <2>3. task[t].phase # "status" => task[t].phase \in {"cert", "publish"}
    BY <1>3 DEF Publish, Listening, Connected, InSession, SessionPhases
  <2>4. task[t].phase # "status" /\ Prints(m) /\ m.item # 0 => Uploaded(m.run)
    BY <1>held, <2>3 DEF Message, Prints
  <2>5. \A u \in Tasks : task'[u] = task[u] \/ task'[u] = y
    BY <2>2 DEF Set, TypeOK
  <2>6. y.phase = "publish" /\ Prints(y) => Uploaded(y.run)
    BY <1>held, <2>1 DEF Prints
  <2> HIDE DEF y, m
  <2> QED
    BY <1>held, <2>2, <2>4, <2>5, <2>6, PrintsStay
<1>4. ASSUME NEW t \in Tasks, NEW a, AnswerWith(t, a) PROVE PrintKept'
  <2> DEFINE y == Idle
  <2>1. y.phase # "publish" /\ Set(t, y) /\ UNCHANGED <<printer, wire, printed>>
    BY <1>4 DEF AnswerWith, Idle
  <2> HIDE DEF y
  <2> QED
    BY <1>set, <2>1
<1>5. ASSUME NEW t \in Tasks, AfterStatus(t) PROVE PrintKept'
  <2>1. CASE AfterMode(t, InMode(task[t], SecuredBy(task[t].last)))
    <3> DEFINE x == InMode(task[t], SecuredBy(task[t].last))
    <3>1. x \in TaskRecord
      <4>1. SecuredBy(task[t].last) \in BOOLEAN
        BY <1>task DEF SecuredBy, TaskRecord, Reports
      <4> QED
        BY <1>task, <4>1, TaskOps
    <3> HIDE DEF x
    <3>2. PICK phase \in Phases : /\ MoveOn(t, Enter(x, phase))
                                  /\ phase = "publish" => x.kind # "print"
      BY <2>1 DEF AfterMode, x, Phases
    <3> DEFINE y == Enter(x, phase)
    <3>3. y.phase = phase /\ y.kind = x.kind
      BY <3>1, TaskFields
    <3>4. Set(t, y) /\ UNCHANGED <<printer, wire, printed>>
      BY <3>2 DEF MoveOn
    <3> HIDE DEF y
    <3> QED
      BY <1>set, <3>2, <3>3, <3>4 DEF Prints
  <2> QED
    BY <1>4, <1>5, <2>1 DEF AfterStatus
<1>6. ASSUME NEW t \in Tasks, AfterCert(t) PROVE PrintKept'
  <2> DEFINE y == Enter(task[t], "upload")
  <2>1. y.phase # "publish"
    BY <1>task, TaskFields DEF Phases
  <2>2. Set(t, y) /\ UNCHANGED <<printer, wire, printed>>
    BY <1>6 DEF AfterCert, MoveOn
  <2> HIDE DEF y
  <2> QED
    BY <1>set, <2>1, <2>2
<1>7. ASSUME NEW t \in Tasks, AfterPublish(t) PROVE PrintKept'
  <2>1. CASE MoveOn(t, NextItem(task[t]))
    <3> DEFINE y == NextItem(task[t])
    <3>1. y.run = task[t].run /\ y.kind = task[t].kind /\ y.via = task[t].via
      BY <1>task, TaskFields
    <3>2. Set(t, y) /\ UNCHANGED <<printer, wire, printed>>
      BY <2>1 DEF MoveOn
    <3> HIDE DEF y
    <3> QED
      BY <1>set, <1>held, <1>7, <3>1, <3>2 DEF Prints, AfterPublish
  <2> QED
    BY <1>4, <1>7, <2>1 DEF AfterPublish, NextOrOk
<1>8. ASSUME NEW t \in Tasks, Upload(t) PROVE PrintKept'
  BY <1>8, UploadKeepsPrints
<1>told. ASSUME NEW r \in Reports, Broadcast(r)
         PROVE  \A t \in Tasks : task'[t].phase = "publish" /\ Prints(task'[t])
                                => Uploaded(task'[t].run)
  <2>1. \A t \in Tasks, f \in {"phase", "run", "kind", "via"} : task'[t][f] = task[t][f]
    BY <1>told, BroadcastLinked
  <2> QED
    BY <1>held, <2>1 DEF Prints
<1>9. ASSUME NEW q \in wire, Execute(q) PROVE PrintKept'
  <2>1. PICK r \in Reports : Broadcast(r)
    BY <1>9, ReportTypes DEF Execute, TypeOK
  <2>2. UNCHANGED printer /\ wire' \subseteq wire
    BY <1>9 DEF Execute
  <2>3. Stored'
    BY <1>told, <2>1, <2>2 DEF PrintKept, Stored, Uploaded
  <2>4. Prints(q) /\ q.item # 0 => printer.file = q.run \/ printer.uploads \ {q.run} # {}
    BY DEF PrintKept, Stored, Uploaded
  <2>5. q.via \in Brokers
    BY DEF TypeOK, Requests
  <2>6. ASSUME NEW p \in printed', p.content # p.run
        PROVE  printer.uploads \ {p.run} # {}
    <3>1. CASE p \in printed
      BY <2>6, <3>1 DEF PrintKept, PrintsOwnUpload
    <3>2. CASE /\ p = [run |-> q.run, content |-> Content(q)]
               /\ q.kind = "print" /\ q.item # 0
      BY <2>4, <2>6, <3>2 DEF Content, Prints
    <3> QED
      BY <1>9, <2>6, <3>1, <3>2 DEF Execute
  <2>7. PrintsOwnUpload'
    BY <2>2, <2>6 DEF PrintsOwnUpload
  <2> QED
    BY <2>3, <2>7 DEF PrintKept
<1>10. ASSUME NEW q \in wire, Refuse(q) \/ Lose(q) PROVE PrintKept'
  <2>1. UNCHANGED <<printer, printed>> /\ wire' \subseteq wire
    BY <1>10 DEF Refuse, Lose
  <2>2. CASE Refuse(q)
    <3>1. PICK r \in Reports : Broadcast(r)
      BY <2>2, ReportTypes DEF Refuse, TypeOK
    <3> QED
      BY <1>told, <2>1, <3>1, PrintsStay
  <2>3. CASE Lose(q)
    BY <1>held, <2>1, <2>3, PrintsStay DEF Lose
  <2> QED
    BY <1>10, <2>2, <2>3
<1>11. ASSUME Push \/ Version PROVE PrintKept'
  <2>1. PICK r \in Reports : Broadcast(r)
    BY <1>11, ReportTypes DEF Push, Version, TypeOK, Printer
  <2>2. /\ printer'.file = printer.file /\ printer'.uploads = printer.uploads
        /\ UNCHANGED <<wire, printed>>
    BY <1>11 DEF Push, Version, TypeOK, Printer
  <2> QED
    BY <1>told, <2>1, <2>2, PrintsStay
<1>12. CASE UNCHANGED vars
  BY <1>held, <1>12, PrintsStay DEF vars
<1>13. ASSUME NEW t \in Tasks, Fails(t) PROVE PrintKept'
  BY <1>4, <1>13 DEF Fails
<1> QED
  BY <1>1, <1>2, <1>3, <1>5, <1>6, <1>7, <1>8, <1>9, <1>10, <1>11, <1>12, <1>13
  DEF Next, TaskStep, Deadline, PrinterStep

\* A print that starts from another file than the one uploaded for it does so because
\* another print was sent over the LAN under the same name (LanBackend::start_print).
THEOREM PrintsOwn == Spec => []PrintsOwnUpload
<1>1. Init => PrintKept
  BY DEF Init, PrintKept, Stored, PrintsOwnUpload, Idle
<1>2. TypeOK /\ Linked /\ PrintKept /\ [Next]_vars => PrintKept'
  BY PrintStep
<1>3. PrintKept => PrintsOwnUpload
  BY DEF PrintKept
<1> QED
  BY <1>1, <1>2, <1>3, LinkCorrect, PTL DEF Spec
=============================================================================
