----------------------------- MODULE ModelHost -----------------------------
(***************************************************************************)
(* What a resident backend promises the Engine (backend.Backend, as        *)
(* CGOBackend keeps it): at most one model is held, and every call takes   *)
(* effect at one point between its start and its return.  The steps of     *)
(* module Engine that stand for backend calls are these.                   *)
(***************************************************************************)
CONSTANTS Calls,   \* calls in flight
          Models,  \* model files with their load options
          None

VARIABLES host,    \* the model held
          asked,   \* the call each goroutine has made
          answer,  \* what it was answered, and by which model
          alive    \* the process has not been aborted

vars == <<host, asked, answer, alive>>

Operations == {"load", "unload", "infer"}
NoCall == [op |-> None, model |-> None]
NoAnswer == [status |-> None, by |-> None]

Init == /\ host = None
        /\ asked = [p \in Calls |-> NoCall]
        /\ answer = [p \in Calls |-> NoAnswer]
        /\ alive = TRUE

Ask(p) ==
    /\ alive
    /\ asked[p] = NoCall
    /\ \E op \in Operations, m \in Models \union {None} :
         /\ op = "load" <=> m # None
         /\ asked' = [asked EXCEPT ![p] = [op |-> op, model |-> m]]
    /\ answer' = [answer EXCEPT ![p] = NoAnswer]
    /\ UNCHANGED <<host, alive>>

Return(p, op, status, by) ==
    /\ alive
    /\ asked[p].op = op
    /\ asked' = [asked EXCEPT ![p] = NoCall]
    /\ answer' = [answer EXCEPT ![p] = [status |-> status, by |-> by]]
    /\ UNCHANGED alive

Load(p) ==
    \/ Return(p, "load", "ok", None) /\ host' = asked[p].model
    \/ Return(p, "load", "error", None) /\ host' = None

Unload(p) == Return(p, "unload", "ok", None) /\ host' = None

\* An inference never changes the model, and is the work of the one held.
Infer(p) ==
    /\ IF host = None
         THEN Return(p, "infer", "unloaded", None)
         ELSE \E status \in {"ok", "error"} : Return(p, "infer", status, host)
    /\ UNCHANGED host

\* An assertion of llama.cpp ends the process, with every call in it.
Abort(p) ==
    /\ alive
    /\ asked[p].op = "infer" /\ host # None
    /\ alive' = FALSE
    /\ UNCHANGED <<host, asked, answer>>

Next == \E p \in Calls : Ask(p) \/ Load(p) \/ Unload(p) \/ Infer(p) \/ Abort(p)

Spec == Init /\ [][Next]_vars
=============================================================================
