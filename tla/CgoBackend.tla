----------------------------- MODULE CgoBackend -----------------------------
(***************************************************************************)
(* CGOBackend (internal/backend/cgo/backend.go): the resident model and    *)
(* its context, both behind b.mu, which a call holds from start to end.    *)
(* "stream" stands for Stream and for Generate, which is Stream with a     *)
(* callback that never fails.  A prompt is its number of tokens, and the   *)
(* KV cache the number of its cells in use.  What llama.cpp does is taken  *)
(* from its API as this file uses it: a batch longer than n_batch fails an *)
(* assertion and aborts the process, and a decode fails when no cell is    *)
(* free.                                                                   *)
(***************************************************************************)
EXTENDS Integers

CONSTANTS Calls,         \* calls in flight, one goroutine each
          Models,        \* model files with the options they are loaded with
          CtxOption,     \* opts.ContextSize of a model, 0 when unset
          BatchOption,   \* opts.BatchSize after NormalizeOptions, 0 when unset
          DefaultCtx,    \* 2048 in the code
          DefaultBatch,  \* 512 in the code
          CtxPad,        \* 256: llama.cpp's contexts are multiples of it
          Prompts,       \* lengths of the tokenized prompts
          Limits,        \* opts.MaxTokens
          DefaultLimit,  \* 128 in the code
          Handles,       \* addresses llama.cpp returns
          None

ASSUME BackendAssumption ==
    /\ CtxOption \in [Models -> Nat] /\ BatchOption \in [Models -> Nat]
    /\ DefaultCtx \in Nat \ {0} /\ DefaultBatch \in Nat \ {0}
    /\ CtxPad \in Nat \ {0}
    /\ Prompts \subseteq Nat /\ Limits \subseteq Int
    /\ DefaultLimit \in Nat \ {0}
    /\ None \notin Calls \union Models \union Handles \union Nat

VARIABLES
    mu,          \* holder of b.mu
    model, ctx,  \* b.model and b.ctx
    file,        \* the file b.model was loaded from
    heap,        \* what llama.cpp has allocated and not freed
    kv,          \* the KV cache of the context: who filled it, how far
    tokenCount,  \* b.tokenCount
    alive,       \* the process has not been aborted
    pc, call,    \* each call: where it is, and what it asks
    past,        \* n_past
    emitted,     \* tokens passed to the callback
    reported,    \* the token count in the last response, None before it
    gone,        \* ctx.Done(): the client has disconnected
    late,        \* history: tokens passed on after that
    outcome,     \* what the call returns
    before       \* history: the model held when b.mu was last taken

handles == <<model, ctx, file, heap>>
progress == <<past, emitted, reported, late>>
vars == <<mu, handles, kv, tokenCount, alive, pc, call, progress, gone,
          outcome, before>>

Least(a, b) == IF a < b THEN a ELSE b

ContextSize(m) == IF CtxOption[m] = 0 THEN DefaultCtx ELSE CtxOption[m]
\* llama.cpp limits n_batch by n_ctx (of a model with causal attention), and
\* only then rounds n_ctx up.  A BatchSize below 0, as an unsigned number larger
\* than any context, comes to the same as a large one.
BatchSize(m) ==
    Least(ContextSize(m),
          IF BatchOption[m] = 0 THEN DefaultBatch ELSE BatchOption[m])
Padded(n) == n + CtxPad - 1 - ((n + CtxPad - 1) % CtxPad)
Cells(m) == Padded(ContextSize(m))
MaxTokens(p) == IF call[p].limit <= 0 THEN DefaultLimit ELSE call[p].limit

Requests ==
    [op: {"load"}, model: Models, prompt: {0}, limit: {0}]
      \union [op: {"unload"}, model: {None}, prompt: {0}, limit: {0}]
      \union [op: {"stream"}, model: {None}, prompt: Prompts, limit: Limits]
      \union [op: {"embed"}, model: {None}, prompt: Prompts, limit: {0}]
NoRequest == [op |-> None, model |-> None, prompt |-> 0, limit |-> 0]
NoOutcome == [status |-> None, by |-> None]
EmptyCache == [owner |-> None, cells |-> 0]

Held == IF ctx = None THEN None ELSE file
Infers(p) == call[p].op \in {"stream", "embed"}

Init ==
    /\ mu = None
    /\ model = None /\ ctx = None /\ file = None /\ heap = {}
    /\ kv = EmptyCache
    /\ tokenCount = 0
    /\ alive = TRUE
    /\ pc = [p \in Calls |-> "idle"]
    /\ call = [p \in Calls |-> NoRequest]
    /\ past = [p \in Calls |-> 0] /\ emitted = [p \in Calls |-> 0]
    /\ reported = [p \in Calls |-> None] /\ late = [p \in Calls |-> 0]
    /\ gone = [p \in Calls |-> FALSE]
    /\ outcome = [p \in Calls |-> NoOutcome]
    /\ before = None

At(p, l) == alive /\ pc[p] = l
Goto(p, l) == pc' = [pc EXCEPT ![p] = l]

\* The deferred Unlock, with which every call ends.
Return(p, status, by) ==
    /\ Goto(p, "idle")
    /\ mu' = None
    /\ outcome' = [outcome EXCEPT ![p] = [status |-> status, by |-> by]]

-----------------------------------------------------------------------------
Begin(p) ==
    /\ At(p, "idle")
    /\ \E r \in Requests : call' = [call EXCEPT ![p] = r]
    /\ Goto(p, "wait")
    /\ past' = [past EXCEPT ![p] = 0] /\ emitted' = [emitted EXCEPT ![p] = 0]
    /\ reported' = [reported EXCEPT ![p] = None] /\ late' = [late EXCEPT ![p] = 0]
    /\ gone' = [gone EXCEPT ![p] = FALSE]
    /\ outcome' = [outcome EXCEPT ![p] = NoOutcome]
    /\ UNCHANGED <<mu, handles, kv, tokenCount, alive, before>>

\* net/http cancels the context of a request whose client is gone.  Only an
\* inference in progress can tell: loads do not look at their context.
Disconnect(p) ==
    /\ alive /\ pc[p] # "idle" /\ ~gone[p]
    /\ Infers(p)
    /\ gone' = [gone EXCEPT ![p] = TRUE]
    /\ UNCHANGED <<mu, handles, kv, tokenCount, alive, pc, call, progress,
                   outcome, before>>

Lock(p) ==
    /\ At(p, "wait")
    /\ mu = None
    /\ mu' = p
    /\ before' = Held
    /\ Goto(p, "locked")
    /\ UNCHANGED <<handles, kv, tokenCount, alive, call, progress, gone, outcome>>

-----------------------------------------------------------------------------
(***************************************************************************)
(* LoadModel and UnloadModel.                                              *)
(***************************************************************************)
Free == /\ heap' = heap \ {model, ctx}
        /\ model' = None /\ ctx' = None /\ file' = None
        /\ kv' = EmptyCache

\* Mutant: the old model is still there when the new file cannot be opened.
KeepOld(p) ==
    /\ At(p, "locked") /\ call[p].op = "load"
    /\ Goto(p, "opening")
    /\ UNCHANGED <<mu, handles, kv, tokenCount, alive, call, progress, gone,
                   outcome, before>>

FreeOld(p) ==
    /\ At(p, "locked") /\ call[p].op = "load"
    /\ IF model # None THEN Free ELSE UNCHANGED <<handles, kv>>
    /\ Goto(p, "opening")
    /\ UNCHANGED <<mu, tokenCount, alive, call, progress, gone, outcome, before>>

\* Mutant: the address is kept where the path belongs.
OpenSwapped(p) ==
    /\ At(p, "opening")
    /\ \E h \in Handles \ heap : model' = h /\ heap' = heap \union {h}
    /\ file' = model'
    /\ Goto(p, "creating")
    /\ UNCHANGED <<mu, ctx, kv, tokenCount, alive, call, progress, gone,
                   outcome, before>>

OpenFile(p) ==
    /\ At(p, "opening")
    /\ \E h \in Handles \ heap : model' = h /\ heap' = heap \union {h}
    /\ file' = call[p].model
    /\ Goto(p, "creating")
    /\ UNCHANGED <<mu, ctx, kv, tokenCount, alive, call, progress, gone,
                   outcome, before>>

OpenFails(p) ==
    /\ At(p, "opening")
    /\ Return(p, "error", None)
    /\ UNCHANGED <<handles, kv, tokenCount, alive, call, progress, gone, before>>

CreateContext(p) ==
    /\ At(p, "creating")
    /\ \E h \in Handles \ heap : ctx' = h /\ heap' = heap \union {h}
    /\ Return(p, "ok", None)
    /\ UNCHANGED <<model, file, kv, tokenCount, alive, call, progress, gone,
                   before>>

\* Mutant: the model is not freed when its context cannot be made.
CreateLeaks(p) ==
    /\ At(p, "creating")
    /\ model' = None /\ file' = None
    /\ Return(p, "error", None)
    /\ UNCHANGED <<ctx, heap, kv, tokenCount, alive, call, progress, gone, before>>

CreateFails(p) ==
    /\ At(p, "creating")
    /\ Free
    /\ Return(p, "error", None)
    /\ UNCHANGED <<tokenCount, alive, call, progress, gone, before>>

Unload(p) ==
    /\ At(p, "locked") /\ call[p].op = "unload"
    /\ Free
    /\ Return(p, "ok", None)
    /\ UNCHANGED <<tokenCount, alive, call, progress, gone, before>>

-----------------------------------------------------------------------------
(***************************************************************************)
(* Stream, Generate and Embed.                                             *)
(***************************************************************************)
\* Mutant: this early return forgets the lock.
NotLoadedKeepsLock(p) ==
    /\ At(p, "locked") /\ Infers(p)
    /\ ctx = None
    /\ Goto(p, "idle")
    /\ outcome' = [outcome EXCEPT ![p] = [status |-> "unloaded", by |-> None]]
    /\ UNCHANGED <<mu, handles, kv, tokenCount, alive, call, progress, gone, before>>

NotLoaded(p) ==
    /\ At(p, "locked") /\ Infers(p)
    /\ ctx = None
    /\ Return(p, "unloaded", None)
    /\ UNCHANGED <<handles, kv, tokenCount, alive, call, progress, gone, before>>

\* Mutant: the counter goes on from the last call.
NeverReset(p) == tokenCount
\* Stream resets the telemetry before it tokenizes, Embed has none.
Counting(p) == IF call[p].op = "stream" THEN 0 ELSE tokenCount

TokenizeFails(p) ==
    /\ At(p, "locked") /\ Infers(p)
    /\ ctx # None
    /\ tokenCount' = Counting(p)
    /\ Return(p, "error", file)
    /\ UNCHANGED <<handles, kv, alive, call, progress, gone, before>>

\* The cache is cleared, and the prompt decoded as one batch.
Prompting(p) ==
    /\ At(p, "locked") /\ Infers(p)
    /\ ctx # None
    /\ tokenCount' = Counting(p)
    /\ UNCHANGED <<handles, call, emitted, reported, late, gone, before>>

PromptAborts(p) ==
    /\ Prompting(p)
    /\ call[p].prompt > BatchSize(file)
    /\ kv' = EmptyCache
    /\ alive' = FALSE
    /\ UNCHANGED <<mu, pc, past, outcome>>

\* No tokens at all, a failed computation, or no embedding to read after it.
PromptFails(p) ==
    /\ Prompting(p)
    /\ call[p].prompt <= BatchSize(file)
    /\ kv' \in {EmptyCache, [owner |-> p, cells |-> call[p].prompt]}
    /\ Return(p, "error", file)
    /\ UNCHANGED <<alive, past>>

\* Mutant: the cells of the previous call stay.
PromptOnOldCache(p) ==
    /\ Prompting(p)
    /\ call[p].prompt \in 1..BatchSize(file)
    /\ kv' = [owner |-> p, cells |-> kv.cells + call[p].prompt]
    /\ past' = [past EXCEPT ![p] = call[p].prompt]
    /\ IF call[p].op = "stream" THEN Goto(p, "loop") /\ UNCHANGED <<mu, outcome>>
                                ELSE Return(p, "ok", file)
    /\ UNCHANGED alive

DecodePrompt(p) ==
    /\ Prompting(p)
    /\ call[p].prompt \in 1..BatchSize(file)
    /\ kv' = [owner |-> p, cells |-> call[p].prompt]
    /\ past' = [past EXCEPT ![p] = call[p].prompt]
    /\ IF call[p].op = "stream" THEN Goto(p, "loop") /\ UNCHANGED <<mu, outcome>>
                                ELSE Return(p, "ok", file)
    /\ UNCHANGED alive

-----------------------------------------------------------------------------
(***************************************************************************)
(* The generation loop.  Every round that does not leave it passes on one  *)
(* token, so the rounds are counted by emitted[p].                         *)
(***************************************************************************)
\* Mutant: one round too many.
RoundsPlusOne(p) == emitted[p] <= MaxTokens(p)

Rounds(p) == emitted[p] < MaxTokens(p)

Cancel(p) ==
    /\ At(p, "loop")
    /\ Rounds(p) /\ gone[p]
    /\ Return(p, "error", file)
    /\ UNCHANGED <<handles, kv, tokenCount, alive, call, progress, gone, before>>

\* Mutant: the context is not looked at.
SampleRegardless(p) ==
    /\ At(p, "loop")
    /\ Rounds(p)
    /\ tokenCount' = tokenCount + 1
    /\ Goto(p, "emit") \/ Goto(p, "final")
    /\ UNCHANGED <<mu, handles, kv, alive, call, progress, gone, outcome, before>>

\* A token, or the end of the generation.
Sample(p) ==
    /\ At(p, "loop")
    /\ Rounds(p) /\ ~gone[p]
    /\ tokenCount' = tokenCount + 1
    /\ Goto(p, "emit") \/ Goto(p, "final")
    /\ UNCHANGED <<mu, handles, kv, alive, call, progress, gone, outcome, before>>

\* The callback; it fails when the token cannot be written to the client.
Emit(p) ==
    /\ At(p, "emit")
    /\ emitted' = [emitted EXCEPT ![p] = @ + 1]
    /\ late' = [late EXCEPT ![p] = IF gone[p] THEN @ + 1 ELSE @]
    /\ \/ Goto(p, "decode") /\ UNCHANGED <<mu, outcome>>
       \/ Return(p, "error", file)
    /\ UNCHANGED <<handles, kv, tokenCount, alive, call, past, reported, gone,
                   before>>

DecodeToken(p) ==
    /\ At(p, "decode")
    /\ kv.cells < Cells(file)
    /\ kv' = [owner |-> kv.owner, cells |-> kv.cells + 1]
    /\ past' = [past EXCEPT ![p] = @ + 1]
    /\ Goto(p, "loop")
    /\ UNCHANGED <<mu, handles, tokenCount, alive, call, emitted, reported, late,
                   gone, outcome, before>>

\* The cache is full, or the computation fails.
DecodeFails(p) ==
    /\ At(p, "decode")
    /\ Return(p, "error", file)
    /\ UNCHANGED <<handles, kv, tokenCount, alive, call, progress, gone, before>>

RunOut(p) ==
    /\ At(p, "loop")
    /\ ~Rounds(p)
    /\ Goto(p, "final")
    /\ UNCHANGED <<mu, handles, kv, tokenCount, alive, call, progress, gone,
                   outcome, before>>

\* The last response; whether the callback takes it does not matter.
Finish(p) ==
    /\ At(p, "final")
    /\ reported' = [reported EXCEPT ![p] = tokenCount]
    /\ Return(p, "ok", file)
    /\ UNCHANGED <<handles, kv, tokenCount, alive, call, past, emitted, late,
                   gone, before>>

-----------------------------------------------------------------------------
Loading(p) ==
    FreeOld(p) \/ OpenFile(p) \/ OpenFails(p) \/ CreateContext(p) \/ CreateFails(p)
Starting(p) ==
    NotLoaded(p) \/ TokenizeFails(p) \/ PromptAborts(p) \/ PromptFails(p)
      \/ DecodePrompt(p)
Generating(p) ==
    \/ Cancel(p) \/ Sample(p) \/ Emit(p) \/ DecodeToken(p) \/ DecodeFails(p)
    \/ RunOut(p) \/ Finish(p)

Work(p) == Loading(p) \/ Unload(p) \/ Starting(p) \/ Generating(p)

Next == \E p \in Calls : Begin(p) \/ Disconnect(p) \/ Lock(p) \/ Work(p)

Spec == Init /\ [][Next]_vars

(***************************************************************************)
(* The holder of b.mu runs on; sync.Mutex hands the lock to a waiter that  *)
(* has waited for a millisecond, so no waiter starves.                     *)
(***************************************************************************)
FairSpec == Spec /\ \A p \in Calls : WF_vars(Work(p)) /\ SF_vars(Lock(p))
-----------------------------------------------------------------------------
TypeOK ==
    /\ mu \in Calls \union {None}
    /\ model \in Handles \union {None} /\ ctx \in Handles \union {None}
    /\ file \in Models \union {None}
    /\ heap \subseteq Handles
    /\ kv \in [owner: Calls \union {None}, cells: Nat]
    /\ tokenCount \in Nat
    /\ alive \in BOOLEAN
    /\ pc \in [Calls -> {"idle", "wait", "locked", "opening", "creating",
                         "loop", "emit", "decode", "final"}]
    /\ call \in [Calls -> Requests \union {NoRequest}]
    /\ past \in [Calls -> Nat] /\ emitted \in [Calls -> Nat]
    /\ reported \in [Calls -> Nat \union {None}] /\ late \in [Calls -> Nat]
    /\ gone \in [Calls -> BOOLEAN]
    /\ outcome \in [Calls -> [status: {"ok", "error", "unloaded", None},
                              by: Models \union {None}]]
    /\ before \in Models \union {None}

(***************************************************************************)
(* Memory of llama.cpp (LoadModel, unloadModel): b.model and b.ctx never   *)
(* point to what has been freed; and whenever b.mu is free, everything     *)
(* allocated is reachable from them, and a model is there with its context *)
(* or not at all, whichever steps of a load have failed before.            *)
(***************************************************************************)
HandlesConsistent ==
    /\ {model, ctx} \ {None} \subseteq heap
    /\ mu = None => /\ heap = {model, ctx} \ {None}
                    /\ model = None <=> ctx = None

(***************************************************************************)
(* The context is decoded for one call at a time (Stream): while a call    *)
(* generates, the cache holds its prompt and the tokens it has passed on,  *)
(* nothing of another call, and n_past is the next free position.          *)
(***************************************************************************)
CacheIsMine ==
    \A p \in Calls : pc[p] \in {"loop", "emit", "decode", "final"} =>
        /\ kv = [owner |-> p, cells |-> past[p]]
        /\ past[p] = call[p].prompt + emitted[p] - (IF pc[p] = "decode" THEN 1 ELSE 0)
        /\ past[p] <= Cells(file)

(***************************************************************************)
(* The length of an answer (Stream): no more tokens than asked for, or     *)
(* than 128 if none were asked for, and no more than fit into the context, *)
(* as llama.cpp has rounded it up, beside the prompt, plus the last one,   *)
(* which need not be decoded.                                              *)
(***************************************************************************)
BoundedOutput ==
    \A p \in Calls : emitted[p] > 0 =>
        LET m == IF pc[p] = "idle" THEN outcome[p].by ELSE file
        IN  /\ emitted[p] <= MaxTokens(p)
            /\ call[p].prompt + emitted[p] <= Cells(m) + 1

(***************************************************************************)
(* Cancellation (Stream, the select on ctx.Done): once its client is gone, *)
(* a call passes on at most one more token.                                *)
(***************************************************************************)
StopsAfterDisconnect == \A p \in Calls : late[p] <= 1

(***************************************************************************)
(* Telemetry (Stream): the last response of a call counts that call's      *)
(* tokens, and the end-of-generation token if there was one; without one   *)
(* it is sent only when the limit was reached, never after a cancellation  *)
(* or an error.                                                            *)
(***************************************************************************)
TelemetryHonest ==
    \A p \in Calls : reported[p] # None =>
        /\ outcome[p].status = "ok"
        /\ \/ reported[p] = emitted[p] + 1
           \/ reported[p] = emitted[p] /\ emitted[p] = MaxTokens(p)

(***************************************************************************)
(* Every call comes back, however many others compete for b.mu, unless     *)
(* llama.cpp aborts the process.                                           *)
(***************************************************************************)
EveryCallReturns ==
    \A p \in Calls : pc[p] # "idle" ~> pc[p] = "idle" \/ ~alive

(***************************************************************************)
(* README.md:12, "Immediate inference cancellation upon client             *)
(* disconnect": no prompt is decoded for a client that is already gone.    *)
(***************************************************************************)
NoWorkForTheGone ==
    [][\A p \in Calls : pc[p] = "locked" /\ gone[p] => kv'.owner # p]_vars

(***************************************************************************)
(* To its callers the backend is a ModelHost: a call takes effect when it  *)
(* returns, and what a load does on its way is not seen.                   *)
(***************************************************************************)
Visible == IF mu = None THEN Held ELSE before
Asked == [p \in Calls |->
    IF pc[p] = "idle" THEN [op |-> None, model |-> None]
    ELSE [op |-> IF Infers(p) THEN "infer" ELSE call[p].op,
          model |-> call[p].model]]

Host == INSTANCE ModelHost
          WITH host <- Visible, asked <- Asked, answer <- outcome
ImplementsHost == Host!Spec
=============================================================================
