---------------------------- MODULE CommandService ----------------------------
(***************************************************************************)
(* What a user of a printer backend (PrinterBackend in crates/             *)
(* elysian-device/src/lib.rs) may rely on, whatever the network, the other *)
(* requests and the deadlines do: a payload is sent only for a request     *)
(* that was asked and is not answered yet, never again once it was carried *)
(* out or refused, and a request is answered once.  A payload may be lost, *)
(* and may be carried out after the answer, whatever that was.             *)
(***************************************************************************)
EXTENDS Integers

CONSTANTS MaxRuns, Items, Answers

VARIABLES
    run,        \* number of requests asked
    answer,     \* the answer to each, or "none"
    pending,    \* payloads on their way
    executed,   \* payloads carried out
    refused     \* payloads refused

serviceVars == <<run, answer, pending, executed, refused>>

ServiceInit ==
    /\ run = 0
    /\ answer = [n \in 1 .. MaxRuns |-> "none"]
    /\ pending = {}
    /\ executed = {}
    /\ refused = {}

Ask ==
    /\ run < MaxRuns
    /\ run' = run + 1
    /\ UNCHANGED <<answer, pending, executed, refused>>

Send(n, i) ==
    /\ answer[n] = "none"
    /\ <<n, i>> \notin pending \cup executed \cup refused
    /\ pending' = pending \cup {<<n, i>>}
    /\ UNCHANGED <<run, answer, executed, refused>>

\* The payload arrives, or is lost.
Arrive(p) ==
    /\ pending' = pending \ {p}
    /\ \/ executed' = executed \cup {p} /\ UNCHANGED refused
       \/ refused' = refused \cup {p} /\ UNCHANGED executed
       \/ UNCHANGED <<executed, refused>>
    /\ UNCHANGED <<run, answer>>

Answer(n, a) ==
    /\ answer[n] = "none"
    /\ answer' = [answer EXCEPT ![n] = a]
    /\ UNCHANGED <<run, pending, executed, refused>>

ServiceNext ==
    \/ Ask
    \/ \E n \in 1 .. run, i \in Items : Send(n, i)
    \/ \E p \in pending : Arrive(p)
    \/ \E n \in 1 .. run, a \in Answers : Answer(n, a)

ServiceSpec == ServiceInit /\ [][ServiceNext]_serviceVars
=============================================================================
