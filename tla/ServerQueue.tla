----------------------------- MODULE ServerQueue -----------------------------
(***************************************************************************)
(* How a llama.cpp process schedules completions: server_queue,            *)
(* server_response and server_response_reader                              *)
(* (tools/server/server-queue.cpp) between the threads that ask for        *)
(* completions and the inference thread that serves them from a fixed set  *)
(* of slots (tools/server/server-context.cpp).  llama-cli, which Gllama's  *)
(* CLI backend runs, posts one completion after the other and ends with    *)
(* terminate() and join() (tools/cli/cli.cpp); llama-server posts many at  *)
(* a time.  A reader posts once, so its task is named by the reader.       *)
(*                                                                         *)
(* The mutexes are held for single steps only and are left out: a step of  *)
(* the model is a section under a lock.  Sleeping is off                   *)
(* (sleep_idle_seconds is -1 by default), all tasks are streamed           *)
(* completions without children.                                           *)
(***************************************************************************)
EXTENDS Naturals, Sequences, FiniteSets, SequencesExt

CONSTANTS Readers,    \* server_response_reader objects, each in its thread
          Slots,      \* the slots of server_context
          MaxTokens,  \* n_predict of every task
          None

ASSUME QueueAssumption ==
    /\ IsFiniteSet(Slots) /\ Slots # {}
    /\ MaxTokens \in Nat \ {0}
    /\ None \notin Readers \union Slots

VARIABLES
    tasks,     \* queue_tasks
    deferred,  \* queue_tasks_deferred: the readers of the tasks
    running,   \* server_queue::running
    waiting,   \* server_response::waiting_task_ids
    results,   \* server_response::queue_results
    reader,    \* each reader: where it is
    got,       \* each reader: partial results received
    sampled,   \* history: tokens of each reader whose text has been completed
    decoded,   \* each reader's task: n_decoded of its slot
    loop,      \* the inference thread: where it is
    current,   \* the task it has popped
    pending,   \* slots update_slots has still to look at
    slot,      \* each slot: the reader it works for
    main       \* the thread that owns the inference thread

scheduling == <<tasks, deferred, running>>
serving == <<loop, current, pending, slot>>
vars == <<scheduling, waiting, results, reader, got, sampled, decoded, serving, main>>

Completion(r) == [type |-> "completion", of |-> r]
CancelTask(r) == [type |-> "cancel", of |-> r]
NextResponse == [type |-> "next", of |-> None]
TaskTypes == {Completion(r) : r \in Readers} \union {CancelTask(r) : r \in Readers}
               \union {NextResponse}

Init ==
    /\ tasks = <<>> /\ deferred = <<>>
    /\ running = FALSE
    /\ waiting = {} /\ results = <<>>
    /\ reader = [r \in Readers |-> "new"]
    /\ got = [r \in Readers |-> 0] /\ sampled = [r \in Readers |-> 0]
    /\ decoded = [r \in Readers |-> 0]
    /\ loop = "init" /\ current = None /\ pending = {}
    /\ slot = [s \in Slots |-> None]
    /\ main = "asking"

Idle == {s \in Slots : slot[s] = None}

\* std::remove_if: what is left of s, in its order, without the elements of S.
\* (SelectSeq says the same, but recursively, which no prover can follow.)
Kept(s, S) == {i \in DOMAIN s : s[i] \notin S}
Rank(K, i) == Cardinality({k \in K : k <= i})
Without(s, S) ==
    LET K == Kept(s, S)
    IN  [n \in 1..Cardinality(K) |-> s[CHOOSE i \in K : Rank(K, i) = n]]

Kinds == {"partial", "final", "error"}
Results == [kind: Kinds, of: Readers]
ResultsOf(r) == [kind: Kinds, of: {r}]

\* Mutant: the result is kept for a reader that has gone.
SendAlways(kind, r) == results' = Append(results, [kind |-> kind, of |-> r])
\* server_response::send: a result nobody waits for is dropped.
Send(kind, r) ==
    results' = IF r \in waiting THEN Append(results, [kind |-> kind, of |-> r])
                                ELSE results

-----------------------------------------------------------------------------
(***************************************************************************)
(* A reader: post_task, next, stop.                                        *)
(***************************************************************************)
ReaderGoto(r, l) == reader' = [reader EXCEPT ![r] = l]

AddWaiting(r) ==
    /\ reader[r] = "new" /\ main = "asking"
    /\ waiting' = waiting \union {r}
    /\ ReaderGoto(r, "post")
    /\ UNCHANGED <<scheduling, results, got, sampled, decoded, serving, main>>

PostTask(r) ==
    /\ reader[r] = "post"
    /\ tasks' = Append(tasks, Completion(r))
    /\ ReaderGoto(r, "next")
    /\ UNCHANGED <<deferred, running, waiting, results, got, sampled, decoded,
                   serving, main>>

\* recv takes the oldest result of this reader, whatever lies before it.
Oldest(r) == CHOOSE i \in DOMAIN results :
                /\ results[i].of = r
                /\ \A j \in 1..(i - 1) : results[j].of # r
\* Mutant: the search runs from the other end.
Newest(r) == CHOOSE i \in DOMAIN results :
                /\ results[i].of = r
                /\ \A j \in DOMAIN results : j > i => results[j].of # r
Taken(r) == Oldest(r)

\* A partial result is passed on and the next one asked for; the final one
\* counts as received, an error does not.
Receive(r) ==
    /\ reader[r] = "next"
    /\ \E i \in DOMAIN results : results[i].of = r
    /\ LET kind == results[Taken(r)].kind
       IN  /\ got' = IF kind = "partial" THEN [got EXCEPT ![r] = @ + 1] ELSE got
           /\ ReaderGoto(r, IF kind = "partial" THEN "next"
                           ELSE IF kind = "final" THEN "received" ELSE "stop")
    /\ results' = RemoveAt(results, Taken(r))
    /\ UNCHANGED <<scheduling, waiting, sampled, decoded, serving, main>>

\* should_stop: the user has interrupted, or the client of a server has gone.
Leave(r) ==
    /\ reader[r] = "next"
    /\ ReaderGoto(r, "stop")
    /\ UNCHANGED <<scheduling, waiting, results, got, sampled, decoded, serving,
                   main>>

\* stop() after the final result.
StopServed(r) ==
    /\ reader[r] = "received"
    /\ waiting' = waiting \ {r}
    /\ ReaderGoto(r, "served")
    /\ UNCHANGED <<scheduling, results, got, sampled, decoded, serving, main>>

\* stop() before it: no longer waiting, results dropped, the task cancelled.
StopWaiting(r) ==
    /\ reader[r] = "stop"
    /\ waiting' = waiting \ {r}
    /\ ReaderGoto(r, "drop")
    /\ UNCHANGED <<scheduling, results, got, sampled, decoded, serving, main>>

DropResults(r) ==
    /\ reader[r] = "drop"
    /\ waiting' = waiting \ {r}
    /\ results' = Without(results, ResultsOf(r))
    /\ ReaderGoto(r, "cancel")
    /\ UNCHANGED <<scheduling, got, sampled, decoded, serving, main>>

\* cleanup_pending_task, for queue_tasks and queue_tasks_deferred.
CleanUp(r) == /\ tasks' = <<CancelTask(r)>> \o Without(tasks, {Completion(r)})
              /\ deferred' = Without(deferred, {r})

PostCancel(r) ==
    /\ reader[r] = "cancel"
    /\ CleanUp(r)
    /\ ReaderGoto(r, "stopped")
    /\ UNCHANGED <<running, waiting, results, got, sampled, decoded, serving,
                   main>>

Done(r) == reader[r] \in {"served", "stopped"}

-----------------------------------------------------------------------------
(***************************************************************************)
(* The thread of main: terminate() and join() when it asks no more.        *)
(***************************************************************************)
Terminate ==
    /\ main = "asking"
    /\ \A r \in Readers : reader[r] = "new" \/ Done(r)
    /\ running' = FALSE
    /\ main' = "joining"
    /\ UNCHANGED <<tasks, deferred, waiting, results, reader, got, sampled,
                   decoded, serving>>

Join ==
    /\ main = "joining" /\ loop = "ended"
    /\ main' = "exited"
    /\ UNCHANGED <<scheduling, waiting, results, reader, got, sampled, decoded,
                   serving>>

-----------------------------------------------------------------------------
(***************************************************************************)
(* The inference thread: server_queue::start_loop.                         *)
(***************************************************************************)
StartLoop ==
    /\ loop = "init"
    /\ running' = TRUE
    /\ loop' = "pop"
    /\ UNCHANGED <<tasks, deferred, waiting, results, reader, got, sampled,
                   decoded, current, pending, slot, main>>

EndLoop ==
    /\ loop = "pop" /\ ~running
    /\ loop' = "ended"
    /\ UNCHANGED <<scheduling, waiting, results, reader, got, sampled, decoded,
                   current, pending, slot, main>>

Pop ==
    /\ loop = "pop" /\ running
    /\ IF tasks = <<>> THEN loop' = "update" /\ UNCHANGED <<tasks, current>>
                       ELSE /\ loop' = "process"
                            /\ current' = Head(tasks)
                            /\ tasks' = Tail(tasks)
    /\ UNCHANGED <<deferred, running, waiting, results, reader, got, sampled,
                   decoded, pending, slot, main>>

\* Mutant: no look is at running.
WakesForTasks == tasks # <<>>
Wakes == tasks # <<>> \/ ~running

\* A look, then asleep until notified or for a second, and another look; in vain,
\* it begins again.
Wait ==
    /\ loop \in {"wait", "asleep"}
    /\ loop' = IF Wakes THEN "pop"
               ELSE IF loop = "wait" THEN "asleep" ELSE "wait"
    /\ UNCHANGED <<scheduling, waiting, results, reader, got, sampled, decoded,
                   current, pending, slot, main>>

(***************************************************************************)
(* process_single_task.                                                    *)
(***************************************************************************)
Processing(type) == /\ loop = "process"
                    /\ current.type = type
                    /\ current' = None

Defer ==
    /\ Processing("completion")
    /\ Idle = {}
    /\ deferred' = Append(deferred, current.of)
    /\ loop' = "pop"
    /\ UNCHANGED <<tasks, running, waiting, results, reader, got, sampled,
                   decoded, pending, slot, main>>

\* Mutant: get_available_slot overlooks that a slot is processing.
LaunchAnywhere ==
    /\ Processing("completion")
    /\ \E s \in Slots : slot' = [slot EXCEPT ![s] = current.of]
    /\ loop' = "pop"
    /\ UNCHANGED <<scheduling, waiting, results, reader, got, sampled, decoded,
                   pending, main>>
Launch ==
    /\ Processing("completion")
    /\ \E s \in Idle : slot' = [slot EXCEPT ![s] = current.of]
    /\ loop' = "pop"
    /\ UNCHANGED <<scheduling, waiting, results, reader, got, sampled, decoded,
                   pending, main>>

\* The prompt does not tokenize, or the slot has no use for the task.
Refuse ==
    /\ Processing("completion")
    /\ Send("error", current.of)
    /\ loop' = "pop"
    /\ UNCHANGED <<scheduling, waiting, reader, got, sampled, decoded, pending,
                   slot, main>>

\* Mutant: the task stays deferred as well.
PopKept ==
    IF deferred = <<>> THEN UNCHANGED <<tasks, deferred>>
    ELSE /\ tasks' = <<Completion(Head(deferred))>> \o tasks
         /\ deferred' = deferred
\* Mutant: the release of a slot is not announced.
PopNothing == UNCHANGED <<tasks, deferred>>
\* Mutant: the deferred entry is queued as it is.
PopBare ==
    IF deferred = <<>> THEN UNCHANGED <<tasks, deferred>>
    ELSE /\ tasks' = <<Head(deferred)>> \o tasks
         /\ deferred' = Tail(deferred)
\* pop_deferred_task, on the release of a slot.
PopDeferred ==
    IF deferred = <<>> THEN UNCHANGED <<tasks, deferred>>
    ELSE /\ tasks' = <<Completion(Head(deferred))>> \o tasks
         /\ deferred' = Tail(deferred)

Release(s) ==
    /\ slot' = [slot EXCEPT ![s] = None]
    /\ PopDeferred

CancelRunning ==
    /\ Processing("cancel")
    /\ \E s \in Slots : slot[s] = current.of /\ Release(s)
    /\ loop' = "pop"
    /\ UNCHANGED <<running, waiting, results, reader, got, sampled, decoded,
                   pending, main>>

IgnoreTask ==
    /\ loop = "process"
    /\ \/ Processing("next")
       \/ Processing("cancel") /\ \A s \in Slots : slot[s] # current.of
    /\ loop' = "pop"
    /\ UNCHANGED <<scheduling, waiting, results, reader, got, sampled, decoded,
                   pending, slot, main>>

(***************************************************************************)
(* update_slots: NEXT_RESPONSE keeps the loop going; then each busy slot   *)
(* gets one token, or an error if its prompt does not fit or the batch     *)
(* cannot be decoded.                                                      *)
(***************************************************************************)
AllIdle ==
    /\ loop = "update" /\ Idle = Slots
    /\ loop' = "wait"
    /\ UNCHANGED <<scheduling, waiting, results, reader, got, sampled, decoded,
                   current, pending, slot, main>>

Decode ==
    /\ loop = "update" /\ Idle # Slots
    /\ tasks' = Append(tasks, NextResponse)
    /\ pending' = Slots \ Idle
    /\ loop' = "slots"
    /\ UNCHANGED <<deferred, running, waiting, results, reader, got, sampled,
                   decoded, current, slot, main>>

\* process_token: text that ends within a character is withheld, and a later
\* token's goes with it; the token may be the last in any case.
Sample(s) ==
    /\ loop = "slots" /\ s \in pending /\ slot[s] # None
    /\ decoded[slot[s]] < MaxTokens
    /\ decoded' = [decoded EXCEPT ![slot[s]] = @ + 1]
    /\ \/ /\ sampled' = [sampled EXCEPT ![slot[s]] = @ + 1]
          /\ Send("partial", slot[s])
       \/ UNCHANGED <<sampled, results>>
    /\ \/ /\ decoded'[slot[s]] < MaxTokens
          /\ pending' = pending \ {s} /\ loop' = "slots" /\ UNCHANGED current
       \/ loop' = "finish" /\ current' = s /\ UNCHANGED pending
    /\ UNCHANGED <<scheduling, waiting, reader, got, slot, main>>

SendFinal ==
    /\ loop = "finish"
    /\ Send("final", slot[current])
    /\ loop' = "release"
    /\ UNCHANGED <<scheduling, waiting, reader, got, sampled, decoded, current,
                   pending, slot, main>>

SendError(s) ==
    /\ loop = "slots" /\ s \in pending
    /\ Send("error", slot[s])
    /\ current' = s
    /\ loop' = "release"
    /\ UNCHANGED <<scheduling, waiting, reader, got, sampled, decoded, pending,
                   slot, main>>

ReleaseSlot ==
    /\ loop = "release"
    /\ Release(current)
    /\ pending' = pending \ {current}
    /\ current' = None
    /\ loop' = "slots"
    /\ UNCHANGED <<running, waiting, results, reader, got, sampled, decoded,
                   main>>

SlotsUpdated ==
    /\ loop = "slots" /\ pending = {}
    /\ loop' = "wait"
    /\ UNCHANGED <<scheduling, waiting, results, reader, got, sampled, decoded,
                   current, pending, slot, main>>

-----------------------------------------------------------------------------
Reads(r) == \/ PostTask(r) \/ Receive(r) \/ StopServed(r) \/ StopWaiting(r)
            \/ DropResults(r) \/ PostCancel(r)
Process == Defer \/ Launch \/ Refuse \/ CancelRunning \/ IgnoreTask
Update == \/ AllIdle \/ Decode \/ SendFinal \/ ReleaseSlot \/ SlotsUpdated
          \/ \E s \in Slots : Sample(s) \/ SendError(s)
Infer == StartLoop \/ EndLoop \/ Pop \/ Wait \/ Process \/ Update

Next ==
    \/ \E r \in Readers : AddWaiting(r) \/ Leave(r) \/ Reads(r)
    \/ Terminate \/ Join
    \/ Infer

Spec == Init /\ [][Next]_vars

\* The threads run on; nobody has to ask, to leave or to terminate.
FairSpec == Spec /\ WF_vars(Infer) /\ WF_vars(Join)
                 /\ \A r \in Readers : WF_vars(Reads(r))
-----------------------------------------------------------------------------
TypeOK ==
    /\ tasks \in Seq(TaskTypes)
    /\ deferred \in Seq(Readers)
    /\ running \in BOOLEAN
    /\ waiting \subseteq Readers
    /\ results \in Seq(Results)
    /\ reader \in [Readers -> {"new", "post", "next", "received", "served", "stop",
                               "drop", "cancel", "stopped"}]
    /\ got \in [Readers -> 0..MaxTokens]
    /\ sampled \in [Readers -> Nat] /\ decoded \in [Readers -> 0..MaxTokens]
    /\ \A r \in Readers : sampled[r] <= decoded[r]
    /\ loop \in {"init", "pop", "process", "update", "slots", "finish", "release",
                 "wait", "asleep", "ended"}
    /\ current \in {None} \union TaskTypes \union Slots
    /\ pending \subseteq Slots
    /\ slot \in [Slots -> Readers \union {None}]
    /\ main \in {"asking", "joining", "exited"}

(***************************************************************************)
(* A task is in one place (post, defer, pop_deferred_task, launch): the    *)
(* queue, the deferred tasks, the hands of the inference thread or a slot. *)
(* In two, its prompt would be answered twice, and the second answer mixed *)
(* into the first.                                                         *)
(***************************************************************************)
Count(s, x) == Cardinality({i \in DOMAIN s : s[i] = x})
InHand(r) == loop = "process" /\ current = Completion(r)
Copies(r) ==
    Count(tasks, Completion(r)) + Count(deferred, r) + Count(slot, r)
      + (IF InHand(r) THEN 1 ELSE 0)
TaskOnce == \A r \in Readers : Copies(r) <= 1

(***************************************************************************)
(* No result outlives its reader (send, remove_waiting_task_ids): whatever *)
(* queue_results holds belongs to a task that is waited for, or to a       *)
(* reader that is just about to drop it.  Nothing else empties the queue.  *)
(***************************************************************************)
NoStaleResult ==
    \A i \in DOMAIN results :
        results[i].of \in waiting \/ reader[results[i].of] = "drop"

(***************************************************************************)
(* A reader that gets the final result (next, send_final_response) has     *)
(* received all text completed for its task before, although results of    *)
(* all tasks share one queue.  (Bytes of a last character that its token   *)
(* limit cuts in two are in no partial result, and llama-cli shows none of *)
(* them.)                                                                  *)
(***************************************************************************)
CompleteAnswer ==
    \A r \in Readers : reader[r] \in {"received", "served"} => got[r] = sampled[r]

(***************************************************************************)
(* To those who ask, the process is Completions: a task is queued from     *)
(* post_task on, wherever it waits, it runs while a slot works for it, and *)
(* is over when its last result is sent or it is nowhere any more.  A      *)
(* reader is answered by the final result, before it calls stop().         *)
(***************************************************************************)
InSlot(r) == \E s \in Slots : slot[s] = r
Releasing(r) == loop = "release" /\ slot[current] = r
Task(r) == IF reader[r] \in {"new", "post"} THEN "none"
           ELSE IF Copies(r) = 0 \/ Releasing(r) THEN "over"
           ELSE IF InSlot(r) THEN "running" ELSE "queued"
Caller(r) == IF reader[r] \in {"new", "post"} THEN "new"
             ELSE IF reader[r] = "next" THEN "open"
             ELSE IF reader[r] \in {"received", "served"} THEN "answered" ELSE "closed"
Asked == [r \in Readers |-> Caller(r)]
Work == [r \in Readers |-> Task(r)]
Promise == INSTANCE Completions WITH
             Callers <- Readers, Capacity <- Cardinality(Slots),
             caller <- Asked, task <- Work, made <- sampled

\* The queue, the slots and the readers keep that promise
\* (server-queue.h:161-163, a generator-like API for server responses).
ImplementsCompletions == Promise!Spec

(***************************************************************************)
(* Every task that was posted is answered, refused or cancelled.           *)
(***************************************************************************)
EveryTaskServed == \A r \in Readers : reader[r] = "next" ~> Done(r)

(***************************************************************************)
(* server-context.cpp:1857, "if no slot is available, we defer this task   *)
(* for processing later": when the inference thread goes to sleep for want *)
(* of tasks, none is deferred while a slot is free.                        *)
(***************************************************************************)
LaterComes == loop = "asleep" /\ tasks = <<>> => deferred = <<>> \/ Idle = {}

(***************************************************************************)
(* server-queue.h:59, "end the start_loop routine": once the loop runs,    *)
(* terminate() ends it, also while it waits for tasks.                     *)
(***************************************************************************)
TerminateEndsLoop == (~running /\ loop # "init") ~> loop = "ended"
=============================================================================
