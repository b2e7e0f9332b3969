----------------------------- MODULE Completions -----------------------------
(***************************************************************************)
(* What a llama.cpp process promises those who ask it for completions      *)
(* (server_response_reader in tools/server/server-queue.h, and the slots): *)
(* a completion runs once, with no more than a given number of others, and *)
(* the caller gets its tokens one by one and the end after the last one.   *)
(***************************************************************************)
EXTENDS Naturals, FiniteSets

CONSTANTS Callers,   \* each asks for one completion
          Capacity,  \* completions that run at a time
          MaxTokens  \* tokens of a completion

VARIABLES caller,  \* "new", "open", "answered" or "closed"
          task,    \* each caller's completion: "none", "queued", "running", "over"
          made,    \* tokens it has sampled, with those whose text they complete
          got      \* tokens its caller has received

vars == <<caller, task, made, got>>

Init == /\ caller = [r \in Callers |-> "new"]
        /\ task = [r \in Callers |-> "none"]
        /\ made = [r \in Callers |-> 0]
        /\ got = [r \in Callers |-> 0]

Running == {r \in Callers : task[r] = "running"}

Ask(r) ==
    /\ caller[r] = "new" /\ task[r] = "none"
    /\ caller' = [caller EXCEPT ![r] = "open"]
    /\ task' = [task EXCEPT ![r] = "queued"]
    /\ UNCHANGED <<made, got>>

Start(r) ==
    /\ task[r] = "queued"
    /\ Cardinality(Running) < Capacity
    /\ task' = [task EXCEPT ![r] = "running"]
    /\ UNCHANGED <<caller, made, got>>

Generate(r) ==
    /\ task[r] = "running"
    /\ made[r] < MaxTokens
    /\ made' = [made EXCEPT ![r] = @ + 1]
    /\ UNCHANGED <<caller, task, got>>

\* Finished, failed, refused or cancelled: it will not run again.
End(r) ==
    /\ task[r] \in {"queued", "running"}
    /\ task' = [task EXCEPT ![r] = "over"]
    /\ UNCHANGED <<caller, made, got>>

Deliver(r) ==
    /\ caller[r] = "open"
    /\ got[r] < made[r]
    /\ got' = [got EXCEPT ![r] = @ + 1]
    /\ UNCHANGED <<caller, task, made>>

\* The caller is told the end when it has everything.
Answer(r) ==
    /\ caller[r] = "open"
    /\ task[r] = "over" /\ got[r] = made[r]
    /\ caller' = [caller EXCEPT ![r] = "answered"]
    /\ UNCHANGED <<task, made, got>>

\* It is told an error, or has left.
Close(r) ==
    /\ caller[r] = "open"
    /\ caller' = [caller EXCEPT ![r] = "closed"]
    /\ UNCHANGED <<task, made, got>>

Next == \E r \in Callers : \/ Ask(r) \/ Start(r) \/ Generate(r) \/ End(r)
                           \/ Deliver(r) \/ Answer(r) \/ Close(r)

Spec == Init /\ [][Next]_vars
=============================================================================
