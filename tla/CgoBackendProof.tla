--------------------------- MODULE CgoBackendProof ---------------------------
(***************************************************************************)
(* Proofs about CgoBackend, for any number of calls, any models, limits    *)
(* and prompts: its safety properties, and that it implements ModelHost.   *)
(***************************************************************************)
EXTENDS CgoBackend, TLAPS

(***************************************************************************)
(* The inductive invariant.                                                *)
(***************************************************************************)
Locations == {"idle", "wait", "locked", "opening", "creating", "loop", "emit",
              "decode", "final"}
Generates == {"loop", "emit", "decode", "final"}

\* b.mu is held from Lock to the return, by one call at a time.
Owner == \A p \in Calls : mu = p <=> pc[p] \notin {"idle", "wait"}

\* What is allocated, at each stage of a load and outside of loads.
NoLoad == \A p \in Calls : pc[p] \notin {"opening", "creating"}
Memory ==
    /\ \A p \in Calls : pc[p] = "opening" =>
           model = None /\ ctx = None /\ file = None /\ heap = {}
    /\ \A p \in Calls : pc[p] = "creating" =>
           model # None /\ ctx = None /\ file = call[p].model /\ heap = {model}
    /\ NoLoad => /\ heap = {model, ctx} \ {None}
                 /\ model = None <=> ctx = None
                 /\ file = None <=> ctx = None

\* Each location belongs to one kind of call.
Kinds ==
    \A p \in Calls :
        /\ pc[p] # "idle" => call[p] \in Requests
        /\ pc[p] \in {"opening", "creating"} => call[p].op = "load"
        /\ pc[p] \in Generates => call[p].op = "stream" /\ ctx # None

\* A call that has not begun to generate has passed nothing on.
Fresh ==
    \A p \in Calls :
        /\ pc[p] \notin Generates \union {"idle"} => emitted[p] = 0
        /\ pc[p] # "idle" => reported[p] = None

\* The counters of the call that generates.
Counters ==
    \A p \in Calls :
        /\ pc[p] \in Generates => emitted[p] <= MaxTokens(p)
        /\ pc[p] = "emit" => emitted[p] < MaxTokens(p)
        /\ pc[p] \in {"loop", "decode"} => tokenCount = emitted[p]
        /\ pc[p] = "emit" => tokenCount = emitted[p] + 1
        /\ pc[p] = "final" =>
             \/ tokenCount = emitted[p] + 1
             \/ tokenCount = emitted[p] /\ emitted[p] = MaxTokens(p)

\* A token is sampled for a client that is there, and passed on at most one
\* step later.
Latest ==
    \A p \in Calls :
        /\ ~gone[p] \/ pc[p] = "emit" => late[p] = 0
        /\ late[p] \in 0..1

\* While nobody loads, what was held when b.mu was taken is what is held.
Kept == mu # None /\ NoLoad => before = Held

IInv == /\ TypeOK /\ Owner /\ Memory /\ Kinds /\ Fresh /\ Counters /\ Latest /\ Kept
        /\ CacheIsMine /\ BoundedOutput /\ TelemetryHonest
-----------------------------------------------------------------------------
\* A backend that has just been made (NewBackend) satisfies the invariant.
THEOREM Initially == Init => IInv
<1> SUFFICES ASSUME Init PROVE IInv
  OBVIOUS
<1> USE BackendAssumption DEF Init
<1>1. TypeOK
  BY DEF TypeOK, EmptyCache, NoRequest, NoOutcome
<1>2. Owner /\ Memory /\ Kinds /\ Fresh /\ Counters /\ Latest /\ Kept
  BY DEF Owner, Memory, Kinds, Fresh, Counters, Latest, Kept, NoLoad, Generates
<1>3. CacheIsMine /\ BoundedOutput /\ TelemetryHonest
  BY DEF CacheIsMine, BoundedOutput, TelemetryHonest
<1> QED BY <1>1, <1>2, <1>3 DEF IInv

(***************************************************************************)
(* Types.                                                                  *)
(***************************************************************************)
\* What a call may be asked with.
LEMMA CallTyped ==
    ASSUME TypeOK, NEW p \in Calls
    PROVE  /\ call[p].model \in Models \union {None}
           /\ call[p].prompt \in Nat /\ call[p].limit \in Int
<1>1. call[p] \in Requests \union {NoRequest}
  BY DEF TypeOK
<1>2. CASE call[p] = NoRequest
  BY <1>2 DEF NoRequest
<1>3. CASE call[p] \in Requests
  <2>1. CASE call[p] \in [op: {"load"}, model: Models, prompt: {0}, limit: {0}]
    BY <2>1
  <2>2. CASE call[p] \in [op: {"unload"}, model: {None}, prompt: {0}, limit: {0}]
    BY <2>2
  <2>3. CASE call[p] \in [op: {"stream"}, model: {None}, prompt: Prompts,
                         limit: Limits]
    BY <2>3, BackendAssumption
  <2>4. CASE call[p] \in [op: {"embed"}, model: {None}, prompt: Prompts,
                         limit: {0}]
    <3>1. call[p].model = None /\ call[p].prompt \in Prompts /\ call[p].limit = 0
      BY <2>4
    <3>2. Prompts \subseteq Nat
      BY BackendAssumption
    <3>3. call[p].model \in Models \union {None}
      BY <3>1
    <3>4. call[p].prompt \in Nat
      BY <3>1, <3>2
    <3>5. call[p].limit \in Int
      BY <3>1
    <3> QED BY <3>3, <3>4, <3>5
  <2> QED BY <1>3, <2>1, <2>2, <2>3, <2>4, Zenon DEF Requests
<1> QED BY <1>1, <1>2, <1>3

\* A load names a model.
LEMMA LoadNames ==
    ASSUME NEW r \in Requests, r.op = "load"
    PROVE  r.model \in Models /\ r.model # None
<1>1. r \in [op: {"load"}, model: Models, prompt: {0}, limit: {0}]
  <2>1. ASSUME NEW M, NEW P, NEW L, NEW o \in {"unload", "stream", "embed"}
        PROVE  r \notin [op: {o}, model: M, prompt: P, limit: L]
    OBVIOUS
  <2> QED BY <2>1, Zenon DEF Requests
<1> QED BY <1>1, BackendAssumption

\* A return leaves the lock, the locations and the answers typed.
LEMMA ReturnTyped ==
    ASSUME TypeOK, NEW p \in Calls, NEW status \in {"ok", "error", "unloaded"},
           NEW by \in Models \union {None}, Return(p, status, by)
    PROVE  /\ mu' \in Calls \union {None}
           /\ pc' \in [Calls -> Locations]
           /\ outcome' \in [Calls -> [status: {"ok", "error", "unloaded", None},
                                      by: Models \union {None}]]
<1>1. mu' \in Calls \union {None} /\ pc' \in [Calls -> Locations]
  BY DEF TypeOK, Return, Goto, Locations
<1>2. [status |-> status, by |-> by] \in [status: {"ok", "error", "unloaded", None},
                                         by: Models \union {None}]
  OBVIOUS
<1> QED BY <1>1, <1>2 DEF TypeOK, Return

\* Every step keeps the types.
LEMMA TypeStep == ASSUME TypeOK, [Next]_vars PROVE TypeOK'
<1> USE DEF handles, progress, At, Locations
<1> USE BackendAssumption
<1>1. CASE UNCHANGED vars
  BY <1>1 DEF vars, TypeOK
<1>2. ASSUME NEW p \in Calls, Begin(p) PROVE TypeOK'
  BY <1>2 DEF Begin, NoOutcome, Goto, TypeOK
<1>3. ASSUME NEW p \in Calls, Disconnect(p) PROVE TypeOK'
  BY <1>3 DEF Disconnect, TypeOK
<1>4. ASSUME NEW p \in Calls, Lock(p) PROVE TypeOK'
  BY <1>4 DEF Lock, Held, Goto, TypeOK
<1>5. ASSUME NEW p \in Calls, Loading(p) \/ Unload(p) PROVE TypeOK'
  <2>1. CASE FreeOld(p)
    BY <2>1 DEF FreeOld, Free, EmptyCache, Goto, TypeOK
  <2>2. CASE OpenFile(p)
    BY <2>2, CallTyped DEF OpenFile, Goto, TypeOK
  <2>3. CASE OpenFails(p)
    BY <2>3, ReturnTyped DEF OpenFails, TypeOK
  <2>4. CASE CreateContext(p)
    BY <2>4, ReturnTyped DEF CreateContext, TypeOK
  <2>5. CASE CreateFails(p)
    BY <2>5, ReturnTyped DEF CreateFails, Free, EmptyCache, TypeOK
  <2>6. CASE Unload(p)
    BY <2>6, ReturnTyped DEF Unload, Free, EmptyCache, TypeOK
  <2> QED BY <1>5, <2>1, <2>2, <2>3, <2>4, <2>5, <2>6 DEF Loading
<1>6. ASSUME NEW p \in Calls, Starting(p) PROVE TypeOK'
  <2>0. file \in Models \union {None} /\ Counting(p) \in Nat
    BY DEF TypeOK, Counting
  <2>1. CASE NotLoaded(p)
    BY <2>1, ReturnTyped DEF NotLoaded, TypeOK
  <2>2. CASE TokenizeFails(p)
    BY <2>0, <2>2, ReturnTyped DEF TokenizeFails, TypeOK
  <2>3. CASE PromptAborts(p)
    BY <2>0, <2>3 DEF PromptAborts, Prompting, EmptyCache, TypeOK
  <2>4. CASE PromptFails(p)
    <3>1. kv' \in [owner: Calls \union {None}, cells: Nat]
      BY <2>4, CallTyped DEF PromptFails, EmptyCache
    <3> QED
      BY <2>0, <2>4, <3>1, ReturnTyped DEF PromptFails, Prompting, TypeOK
  <2>5. CASE DecodePrompt(p)
    <3>1. /\ kv' \in [owner: Calls \union {None}, cells: Nat]
          /\ past' \in [Calls -> Nat]
      BY <2>5, CallTyped DEF DecodePrompt, TypeOK
    <3>2. /\ mu' \in Calls \union {None}
          /\ pc' \in [Calls -> Locations]
          /\ outcome' \in [Calls -> [status: {"ok", "error", "unloaded", None},
                                     by: Models \union {None}]]
      BY <2>0, <2>5, ReturnTyped DEF DecodePrompt, Goto, TypeOK
    <3> QED
      BY <2>0, <2>5, <3>1, <3>2 DEF DecodePrompt, Prompting, TypeOK
  <2> QED BY <1>6, <2>1, <2>2, <2>3, <2>4, <2>5 DEF Starting
<1>7. ASSUME NEW p \in Calls, Generating(p) PROVE TypeOK'
  <2>0. file \in Models \union {None}
    BY DEF TypeOK
  <2>1. CASE Cancel(p)
    BY <2>0, <2>1, ReturnTyped DEF Cancel, TypeOK
  <2>2. CASE Sample(p)
    BY <2>2 DEF Sample, Goto, TypeOK
  <2>3. CASE Emit(p)
    <3>1. /\ emitted' \in [Calls -> Nat] /\ late' \in [Calls -> Nat]
      BY <2>3 DEF Emit, TypeOK
    <3>2. /\ mu' \in Calls \union {None}
          /\ pc' \in [Calls -> Locations]
          /\ outcome' \in [Calls -> [status: {"ok", "error", "unloaded", None},
                                     by: Models \union {None}]]
      BY <2>0, <2>3, ReturnTyped DEF Emit, Goto, TypeOK
    <3> QED BY <2>3, <3>1, <3>2 DEF Emit, TypeOK
  <2>4. CASE DecodeToken(p)
    BY <2>4 DEF DecodeToken, Goto, TypeOK
  <2>5. CASE DecodeFails(p)
    BY <2>0, <2>5, ReturnTyped DEF DecodeFails, TypeOK
  <2>6. CASE RunOut(p)
    BY <2>6 DEF RunOut, Goto, TypeOK
  <2>7. CASE Finish(p)
    BY <2>0, <2>7, ReturnTyped DEF Finish, TypeOK
  <2> QED BY <1>7, <2>1, <2>2, <2>3, <2>4, <2>5, <2>6, <2>7 DEF Generating
<1> QED BY <1>1, <1>2, <1>3, <1>4, <1>5, <1>6, <1>7 DEF Next, Work
-----------------------------------------------------------------------------
(***************************************************************************)
(* A call that works holds the lock, and the others wait or have returned. *)
(***************************************************************************)
Holding(p) ==
    /\ mu = p /\ pc[p] \notin {"idle", "wait"}
    /\ \A q \in Calls : q # p => pc[q] \in {"idle", "wait"}

\* All that a working call changes of the calls is its own.
OwnOnly(p) ==
    /\ call' = call /\ gone' = gone /\ before' = before
    /\ \A q \in Calls : q # p =>
         /\ pc'[q] = pc[q] /\ past'[q] = past[q] /\ emitted'[q] = emitted[q]
         /\ reported'[q] = reported[q] /\ late'[q] = late[q]
         /\ outcome'[q] = outcome[q]
    /\ \/ mu' = p /\ pc'[p] \notin {"idle", "wait"}
       \/ mu' = None /\ pc'[p] = "idle"

\* Whoever works holds b.mu, and nobody else is past Lock.
LEMMA WorkHolds ==
    ASSUME TypeOK, Owner, NEW p \in Calls, Work(p)
    PROVE  Holding(p)
<1>1. pc[p] \notin {"idle", "wait"}
  <2>1. CASE Loading(p)
    BY <2>1 DEF Loading, FreeOld, OpenFile, OpenFails, CreateContext, CreateFails, At
  <2>2. CASE Unload(p)
    BY <2>2 DEF Unload, At
  <2>3. CASE Starting(p)
    BY <2>3 DEF Starting, NotLoaded, TokenizeFails, PromptAborts, PromptFails,
                DecodePrompt, Prompting, At
  <2>4. CASE Generating(p)
    BY <2>4 DEF Generating, Cancel, Sample, Emit, DecodeToken, DecodeFails, RunOut,
                Finish, At
  <2> QED BY <2>1, <2>2, <2>3, <2>4 DEF Work
<1> QED BY <1>1, BackendAssumption DEF Owner, Holding, TypeOK

\* A return changes its own call's location only.
LEMMA ReturnOwn ==
    ASSUME TypeOK, NEW p \in Calls, NEW status, NEW by, Return(p, status, by)
    PROVE  /\ mu' = None /\ pc'[p] = "idle"
           /\ outcome'[p] = [status |-> status, by |-> by]
           /\ \A q \in Calls : q # p =>
                pc'[q] = pc[q] /\ outcome'[q] = outcome[q]
  BY DEF Return, Goto, TypeOK

\* So does a step to another location.
LEMMA GotoOwn ==
    ASSUME TypeOK, NEW p \in Calls, NEW l, Goto(p, l)
    PROVE  pc'[p] = l /\ \A q \in Calls : q # p => pc'[q] = pc[q]
  BY DEF Goto, TypeOK

\* Whoever works changes its own location and answer only.
LEMMA WorkOwn ==
    ASSUME TypeOK, Owner, NEW p \in Calls, Work(p)
    PROVE  OwnOnly(p)
<1>0. Holding(p)
  BY WorkHolds
<1> USE <1>0, ReturnOwn, GotoOwn DEF OwnOnly, Holding, progress
<1>1. CASE Loading(p)
  <2>1. CASE FreeOld(p)
    BY <2>1 DEF FreeOld
  <2>2. CASE OpenFile(p)
    BY <2>2 DEF OpenFile
  <2>3. CASE OpenFails(p)
    BY <2>3 DEF OpenFails
  <2>4. CASE CreateContext(p)
    BY <2>4 DEF CreateContext
  <2>5. CASE CreateFails(p)
    BY <2>5 DEF CreateFails
  <2> QED BY <1>1, <2>1, <2>2, <2>3, <2>4, <2>5 DEF Loading
<1>2. CASE Unload(p)
  BY <1>2 DEF Unload
<1>3. CASE Starting(p)
  <2>1. CASE NotLoaded(p)
    BY <2>1 DEF NotLoaded
  <2>2. CASE TokenizeFails(p)
    BY <2>2 DEF TokenizeFails
  <2>3. CASE PromptAborts(p)
    BY <2>3 DEF PromptAborts, Prompting
  <2>4. CASE PromptFails(p)
    BY <2>4 DEF PromptFails, Prompting
  <2>5. CASE DecodePrompt(p)
    <3>1. \A q \in Calls : q # p => past'[q] = past[q]
      BY <2>5 DEF DecodePrompt, TypeOK
    <3>2. \/ Return(p, "ok", file) \/ Return(p, "error", file)
          \/ /\ mu' = p /\ outcome' = outcome
             /\ Goto(p, "loop") \/ Goto(p, "decode")
      BY <2>5 DEF DecodePrompt
    <3>3. /\ \A q \in Calls : q # p => pc'[q] = pc[q] /\ outcome'[q] = outcome[q]
          /\ \/ mu' = p /\ pc'[p] \notin {"idle", "wait"}
             \/ mu' = None /\ pc'[p] = "idle"
      <4>1. CASE Return(p, "ok", file)
        BY <4>1
      <4>2. CASE Return(p, "error", file)
        BY <4>2
      <4>3. CASE mu' = p /\ outcome' = outcome /\ Goto(p, "loop")
        BY <4>3
      <4>4. CASE mu' = p /\ outcome' = outcome /\ Goto(p, "decode")
        BY <4>4
      <4> QED BY <3>2, <4>1, <4>2, <4>3, <4>4
    <3> QED BY <2>5, <3>1, <3>3 DEF DecodePrompt, Prompting
  <2> QED BY <1>3, <2>1, <2>2, <2>3, <2>4, <2>5 DEF Starting
<1>4. CASE Generating(p)
  <2>1. CASE Cancel(p)
    BY <2>1 DEF Cancel
  <2>2. CASE Sample(p)
    BY <2>2 DEF Sample
  <2>3. CASE Emit(p)
    <3>1. \A q \in Calls : q # p =>
            emitted'[q] = emitted[q] /\ late'[q] = late[q]
      BY <2>3 DEF Emit, TypeOK
    <3>2. \/ Return(p, "ok", file) \/ Return(p, "error", file)
          \/ /\ mu' = p /\ outcome' = outcome
             /\ Goto(p, "loop") \/ Goto(p, "decode")
      BY <2>3 DEF Emit
    <3>3. /\ \A q \in Calls : q # p => pc'[q] = pc[q] /\ outcome'[q] = outcome[q]
          /\ \/ mu' = p /\ pc'[p] \notin {"idle", "wait"}
             \/ mu' = None /\ pc'[p] = "idle"
      <4>1. CASE Return(p, "ok", file)
        BY <4>1
      <4>2. CASE Return(p, "error", file)
        BY <4>2
      <4>3. CASE mu' = p /\ outcome' = outcome /\ Goto(p, "loop")
        BY <4>3
      <4>4. CASE mu' = p /\ outcome' = outcome /\ Goto(p, "decode")
        BY <4>4
      <4> QED BY <3>2, <4>1, <4>2, <4>3, <4>4
    <3> QED BY <2>3, <3>1, <3>3 DEF Emit
  <2>4. CASE DecodeToken(p)
    <3>1. \A q \in Calls : q # p => past'[q] = past[q]
      BY <2>4 DEF DecodeToken, TypeOK
    <3> QED BY <2>4, <3>1 DEF DecodeToken
  <2>5. CASE DecodeFails(p)
    BY <2>5 DEF DecodeFails
  <2>6. CASE RunOut(p)
    BY <2>6 DEF RunOut
  <2>7. CASE Finish(p)
    <3>1. \A q \in Calls : q # p => reported'[q] = reported[q]
      BY <2>7 DEF Finish, TypeOK
    <3> QED BY <2>7, <3>1 DEF Finish
  <2> QED BY <1>4, <2>1, <2>2, <2>3, <2>4, <2>5, <2>6, <2>7 DEF Generating
<1> QED BY <1>1, <1>2, <1>3, <1>4 DEF Work
(***************************************************************************)
(* The steps that do no work.                                              *)
(***************************************************************************)
LEMMA BeginStep == ASSUME IInv, NEW p \in Calls, Begin(p) PROVE IInv'
<1> USE BackendAssumption DEF Begin, At, handles, Generates
<1>0. TypeOK /\ TypeOK'
  BY TypeStep DEF IInv, Next
<1>1. /\ pc[p] = "idle" /\ pc'[p] = "wait"
      /\ call'[p] \in Requests /\ emitted'[p] = 0 /\ late'[p] = 0
      /\ reported'[p] = None /\ ~gone'[p]
      /\ \A q \in Calls : q # p =>
           /\ pc'[q] = pc[q] /\ call'[q] = call[q] /\ past'[q] = past[q]
           /\ emitted'[q] = emitted[q] /\ reported'[q] = reported[q]
           /\ late'[q] = late[q] /\ gone'[q] = gone[q] /\ outcome'[q] = outcome[q]
  BY <1>0 DEF TypeOK, Goto
<1>2. Owner' /\ Memory' /\ Kept'
  BY <1>0, <1>1 DEF IInv, Owner, Memory, Kept, NoLoad, Held
<1>3. Kinds' /\ Fresh' /\ Latest'
  BY <1>1 DEF IInv, Kinds, Fresh, Latest
<1>4. Counters' /\ CacheIsMine' /\ BoundedOutput' /\ TelemetryHonest'
  BY <1>1 DEF IInv, Counters, MaxTokens, CacheIsMine, BoundedOutput, TelemetryHonest
<1> QED BY <1>0, <1>2, <1>3, <1>4 DEF IInv

\* A client that leaves changes nothing that the call relies on.
LEMMA DisconnectStep == ASSUME IInv, NEW p \in Calls, Disconnect(p) PROVE IInv'
<1> USE DEF Disconnect, handles, progress
<1>0. TypeOK /\ TypeOK'
  BY TypeStep DEF IInv, Next
<1>1. \A q \in Calls : gone[q] => gone'[q]
  BY <1>0 DEF TypeOK
<1>2. Owner' /\ Memory' /\ Kept' /\ Kinds' /\ Fresh' /\ Latest'
  BY <1>1 DEF IInv, Owner, Memory, Kept, NoLoad, Held, Kinds, Fresh, Latest
<1>3. Counters' /\ CacheIsMine' /\ BoundedOutput' /\ TelemetryHonest'
  BY DEF IInv, Counters, MaxTokens, CacheIsMine, BoundedOutput, TelemetryHonest
<1> QED BY <1>0, <1>2, <1>3 DEF IInv

\* b.mu.Lock finds the backend at rest.
LEMMA LockStep == ASSUME IInv, NEW p \in Calls, Lock(p) PROVE IInv'
<1> USE BackendAssumption DEF Lock, At, handles, progress, Generates
<1>0. TypeOK /\ TypeOK'
  BY TypeStep DEF IInv, Next
<1>1. /\ pc[p] = "wait" /\ pc'[p] = "locked"
      /\ \A q \in Calls : q # p =>
           pc'[q] = pc[q] /\ pc[q] \in {"idle", "wait"}
  BY <1>0 DEF TypeOK, Goto, IInv, Owner
<1>2. Owner'
  BY <1>0, <1>1 DEF TypeOK, Owner
<1>3. Memory' /\ Kept'
  BY <1>1 DEF IInv, Memory, Kept, NoLoad, Held
<1>4. Kinds' /\ Fresh' /\ Latest'
  BY <1>1 DEF IInv, Kinds, Fresh, Latest
<1>5. Counters' /\ CacheIsMine' /\ BoundedOutput' /\ TelemetryHonest'
  BY <1>1 DEF IInv, Counters, MaxTokens, CacheIsMine, BoundedOutput, TelemetryHonest
<1> QED BY <1>0, <1>2, <1>3, <1>4, <1>5 DEF IInv

\* The invariant is about the variables only.
LEMMA StutterStep == ASSUME IInv, UNCHANGED vars PROVE IInv'
<1> USE DEF vars, handles, progress
<1>0. TypeOK'
  BY TypeStep DEF IInv
<1>1. Owner' /\ Memory' /\ Kept' /\ Kinds' /\ Fresh' /\ Latest'
  BY DEF IInv, Owner, Memory, Kept, NoLoad, Held, Kinds, Fresh, Latest
<1>2. Counters' /\ CacheIsMine' /\ BoundedOutput' /\ TelemetryHonest'
  BY DEF IInv, Counters, MaxTokens, CacheIsMine, BoundedOutput, TelemetryHonest
<1> QED BY <1>0, <1>1, <1>2 DEF IInv

(***************************************************************************)
(* The steps that work.  Only the holder of the lock is in a location that *)
(* the invariant says much about, so each conjunct is about that call.     *)
(***************************************************************************)
\* A call that keeps or returns the lock leaves at most one holder.
LEMMA OwnerStep ==
    ASSUME IInv, NEW p \in Calls, Work(p)
    PROVE  Holding(p) /\ OwnOnly(p) /\ TypeOK /\ TypeOK' /\ Owner'
<1>1. TypeOK /\ TypeOK' /\ Owner
  BY TypeStep DEF IInv, Next
<1>2. Holding(p) /\ OwnOnly(p)
  BY <1>1, WorkHolds, WorkOwn
<1> QED BY <1>1, <1>2, BackendAssumption DEF Owner, Holding, OwnOnly

\* Every step of LoadModel and unloadModel keeps the invariant.
LEMMA LoadStep ==
    ASSUME IInv, NEW p \in Calls, Loading(p) \/ Unload(p)
    PROVE  IInv'
<1>0. Holding(p) /\ OwnOnly(p) /\ TypeOK /\ TypeOK' /\ Owner'
  BY OwnerStep DEF Work
<1>1. emitted' = emitted /\ reported' = reported /\ late' = late
  BY DEF Loading, FreeOld, OpenFile, OpenFails, CreateContext, CreateFails, Unload,
         progress
<1>2. pc[p] \in {"locked", "opening", "creating"}
      /\ pc'[p] \in {"opening", "creating", "idle"}
      /\ (pc'[p] # "idle" => call[p].op = "load")
  <2>1. CASE FreeOld(p) \/ OpenFile(p)
    BY <2>1, <1>0, GotoOwn DEF FreeOld, OpenFile, At, IInv, Kinds
  <2>2. CASE OpenFails(p) \/ CreateContext(p)
    BY <2>2, <1>0, ReturnOwn DEF OpenFails, CreateContext, At
  <2>3. CASE CreateFails(p) \/ Unload(p)
    BY <2>3, <1>0, ReturnOwn DEF CreateFails, Unload, At
  <2> QED BY <2>1, <2>2, <2>3 DEF Loading
<1>3. Kinds' /\ Fresh' /\ Latest'
  BY <1>0, <1>1, <1>2 DEF IInv, Holding, OwnOnly, Kinds, Fresh, Latest, Generates
<1>4. CacheIsMine' /\ Counters' /\ TelemetryHonest'
  BY <1>0, <1>1, <1>2 DEF IInv, Holding, OwnOnly, CacheIsMine, Counters, Generates,
     Fresh, TelemetryHonest, MaxTokens
<1>5. BoundedOutput'
  BY <1>0, <1>1, <1>2, BackendAssumption
     DEF IInv, Holding, OwnOnly, Fresh, BoundedOutput, MaxTokens, Generates
<1>6. Memory' /\ Kept'
  <2>1. CASE FreeOld(p)
    <3>1. pc[p] = "locked" /\ pc'[p] = "opening"
      BY <2>1, <1>0, GotoOwn DEF FreeOld, At
    <3>2. /\ heap = {model, ctx} \ {None} /\ (model = None <=> ctx = None)
          /\ (file = None <=> ctx = None)
      BY <1>0, <3>1 DEF IInv, Memory, NoLoad, Holding
    <3>3. heap' = {} /\ model' = None /\ ctx' = None /\ file' = None
      BY <2>1, <3>2 DEF FreeOld, Free, handles
    <3> QED BY <1>0, <3>1, <3>3 DEF Memory, Kept, NoLoad, Holding, OwnOnly
  <2>2. CASE OpenFile(p)
    <3>1. pc[p] = "opening" /\ pc'[p] = "creating"
      BY <2>2, <1>0, GotoOwn DEF OpenFile, At
    <3>2. model = None /\ ctx = None /\ heap = {}
      BY <3>1 DEF IInv, Memory
    <3>3. /\ heap' = {model'} /\ model' # None /\ ctx' = None
          /\ file' = call[p].model
      BY <2>2, <3>2, BackendAssumption DEF OpenFile
    <3> QED BY <1>0, <3>1, <3>3 DEF Memory, Kept, NoLoad, Holding, OwnOnly
  <2>3. CASE OpenFails(p)
    <3>1. pc[p] = "opening" /\ pc'[p] = "idle" /\ mu' = None
      BY <2>3, <1>0, ReturnOwn DEF OpenFails, At
    <3>2. model = None /\ ctx = None /\ heap = {} /\ file = None
      BY <3>1 DEF IInv, Memory
    <3> QED BY <2>3, <1>0, <3>1, <3>2
        DEF OpenFails, handles, Memory, Kept, NoLoad, Holding, OwnOnly
  <2>4. CASE CreateContext(p)
    <3>1. pc[p] = "creating" /\ pc'[p] = "idle" /\ mu' = None
      BY <2>4, <1>0, ReturnOwn DEF CreateContext, At
    <3>2. /\ model # None /\ heap = {model} /\ file = call[p].model
          /\ call[p].op = "load" /\ call[p] \in Requests
      BY <3>1 DEF IInv, Memory, Kinds
    <3>3. file # None
      BY <3>2, LoadNames
    <3>4. /\ heap' = {model', ctx'} \ {None} /\ model' # None /\ ctx' # None
          /\ file' # None
      BY <2>4, <3>2, <3>3, BackendAssumption DEF CreateContext
    <3> QED BY <1>0, <3>1, <3>4 DEF Memory, Kept, NoLoad, Holding, OwnOnly
  <2>5. CASE CreateFails(p)
    <3>1. pc[p] = "creating" /\ pc'[p] = "idle" /\ mu' = None
      BY <2>5, <1>0, ReturnOwn DEF CreateFails, At
    <3>2. ctx = None /\ heap = {model}
      BY <3>1 DEF IInv, Memory
    <3>3. heap' = {} /\ model' = None /\ ctx' = None /\ file' = None
      BY <2>5, <3>2 DEF CreateFails, Free
    <3> QED BY <1>0, <3>1, <3>3 DEF Memory, Kept, NoLoad, Holding, OwnOnly
  <2>6. CASE Unload(p)
    <3>1. pc[p] = "locked" /\ pc'[p] = "idle" /\ mu' = None
      BY <2>6, <1>0, ReturnOwn DEF Unload, At
    <3>2. heap = {model, ctx} \ {None}
      BY <1>0, <3>1 DEF IInv, Memory, NoLoad, Holding
    <3>3. heap' = {} /\ model' = None /\ ctx' = None /\ file' = None
      BY <2>6, <3>2 DEF Unload, Free
    <3> QED BY <1>0, <3>1, <3>3 DEF Memory, Kept, NoLoad, Holding, OwnOnly
  <2> QED BY <2>1, <2>2, <2>3, <2>4, <2>5, <2>6 DEF Loading
<1> QED BY <1>0, <1>3, <1>4, <1>5, <1>6 DEF IInv

\* A call that ends without a word has disturbed nothing.
LEMMA LeaveStep ==
    ASSUME IInv, NEW p \in Calls, Work(p), NoLoad,
           NEW status, NEW by, Return(p, status, by),
           emitted[p] > 0 => by = file,
           UNCHANGED <<handles, emitted, reported, late>>
    PROVE  IInv'
<1>0. Holding(p) /\ OwnOnly(p) /\ TypeOK /\ TypeOK' /\ Owner'
  BY OwnerStep
<1>1. /\ mu' = None /\ pc'[p] = "idle" /\ outcome'[p].by = by
      /\ pc[p] \notin {"idle", "wait"}
  <2>1. /\ mu' = None /\ pc'[p] = "idle"
        /\ outcome'[p] = [status |-> status, by |-> by]
    BY <1>0, ReturnOwn
  <2>2. outcome'[p].by = by
    BY <2>1
  <2> QED BY <1>0, <2>1, <2>2 DEF Holding
<1> USE <1>0, <1>1 DEF IInv, Holding, OwnOnly, handles, Generates
<1>2. Memory' /\ Kept'
  BY DEF Memory, Kept, NoLoad
<1>3. Kinds' /\ Fresh' /\ Latest'
  BY DEF Kinds, Fresh, Latest
<1>4. CacheIsMine' /\ Counters' /\ TelemetryHonest'
  BY DEF CacheIsMine, Counters, TelemetryHonest, Fresh, MaxTokens
<1>5. BoundedOutput'
  BY DEF BoundedOutput, MaxTokens, Fresh
<1> QED BY <1>2, <1>3, <1>4, <1>5

\* What is known of the model that a prompt is decoded with.
LEMMA Sizes ==
    ASSUME TypeOK, NEW m \in Models
    PROVE  /\ Cells(m) \in Nat /\ BatchSize(m) \in Nat
           /\ BatchSize(m) <= Cells(m)
<1>1. /\ ContextSize(m) \in Nat /\ BatchSize(m) \in Nat
      /\ BatchSize(m) <= ContextSize(m) /\ CtxPad \in Nat \ {0}
  BY BackendAssumption DEF ContextSize, BatchSize, Least
<1>2. (ContextSize(m) + CtxPad - 1) % CtxPad \in 0..(CtxPad - 1)
  BY <1>1
<1> QED BY <1>1, <1>2 DEF Cells, Padded

\* The limit of an answer is a number of tokens, at least one.
LEMMA Limited ==
    ASSUME TypeOK, NEW p \in Calls
    PROVE  MaxTokens(p) \in Nat \ {0}
  BY CallTyped, BackendAssumption DEF MaxTokens

\* Every step of a call up to its prompt's decoding keeps the invariant.
LEMMA StartStep ==
    ASSUME IInv, NEW p \in Calls, Starting(p)
    PROVE  IInv'
<1>0. Holding(p) /\ OwnOnly(p) /\ TypeOK /\ TypeOK' /\ Owner' /\ Work(p)
  BY OwnerStep DEF Work
<1>1. pc[p] = "locked" /\ Infers(p)
  BY DEF Starting, NotLoaded, TokenizeFails, PromptAborts, PromptFails,
         DecodePrompt, Prompting, At
<1>2. NoLoad /\ emitted[p] = 0 /\ reported[p] = None
  BY <1>0, <1>1 DEF Holding, NoLoad, IInv, Fresh, Generates
<1>3. CASE NotLoaded(p)
  BY <1>0, <1>2, <1>3, LeaveStep DEF NotLoaded, progress
<1>4. CASE TokenizeFails(p)
  BY <1>0, <1>2, <1>4, LeaveStep DEF TokenizeFails, progress
<1>5. CASE PromptFails(p)
  BY <1>0, <1>2, <1>5, LeaveStep DEF PromptFails, Prompting
<1>6. CASE PromptAborts(p)
  <2> USE <1>0, <1>1, <1>6 DEF PromptAborts, Prompting, IInv, Holding, OwnOnly,
          handles, Generates
  <2>1. Memory' /\ Kept'
    BY DEF Memory, Kept, NoLoad, Held
  <2>2. Kinds' /\ Fresh' /\ Latest'
    BY DEF Kinds, Fresh, Latest
  <2>3. CacheIsMine' /\ Counters' /\ TelemetryHonest'
    BY DEF CacheIsMine, Counters, TelemetryHonest, MaxTokens
  <2>4. BoundedOutput'
    BY DEF BoundedOutput, MaxTokens
  <2> QED BY <2>1, <2>2, <2>3, <2>4
<1>7. CASE DecodePrompt(p)
  <2>1. CASE call[p].op # "stream"
    BY <1>0, <1>2, <1>7, <2>1, LeaveStep DEF DecodePrompt, Prompting
  <2>2. CASE call[p].op = "stream"
    <3>1. /\ pc'[p] = "loop" /\ mu' = mu /\ outcome' = outcome
          /\ tokenCount' = 0 /\ past'[p] = call[p].prompt
          /\ kv' = [owner |-> p, cells |-> past'[p]]
      BY <1>0, <1>7, <2>2, GotoOwn DEF DecodePrompt, Prompting, Counting, TypeOK
    <3>2. /\ UNCHANGED <<handles, emitted, reported, late>> /\ ctx # None
          /\ call[p].prompt <= BatchSize(file)
      BY <1>7 DEF DecodePrompt, Prompting
    <3>3. file \in Models
      BY <1>0, <1>2, <3>2 DEF IInv, Memory, TypeOK
    <3>4. past'[p] <= Cells(file) /\ MaxTokens(p) > 0
      BY <1>0, <3>1, <3>2, <3>3, Sizes, Limited, CallTyped
    <3> USE <1>0, <1>1, <1>2, <3>1, <3>2 DEF IInv, Holding, OwnOnly, handles, Generates
    <3>5. Memory' /\ Kept'
      BY DEF Memory, Kept, NoLoad, Held
    <3>6. Kinds' /\ Fresh' /\ Latest'
      BY <2>2 DEF Kinds, Fresh, Latest
    <3>7. Counters' /\ TelemetryHonest'
      <4>1. /\ \A q \in Calls : MaxTokens(q)' = MaxTokens(q)
            /\ emitted'[p] <= MaxTokens(p)
        BY <3>4, Limited DEF MaxTokens
      <4>2. Counters'
        BY <4>1 DEF Counters
      <4>3. TelemetryHonest'
        BY <4>1 DEF TelemetryHonest
      <4> QED BY <4>2, <4>3
    <3>8. CacheIsMine'
      BY <3>4, CallTyped DEF CacheIsMine, Cells, Padded, ContextSize
    <3>9. BoundedOutput'
      BY DEF BoundedOutput, MaxTokens, Fresh
    <3> QED BY <3>5, <3>6, <3>7, <3>8, <3>9
  <2> QED BY <2>1, <2>2
<1> QED BY <1>3, <1>4, <1>5, <1>6, <1>7 DEF Starting

\* Every step of the generation loop of Stream keeps the invariant.
LEMMA GenerateStep ==
    ASSUME IInv, NEW p \in Calls, Generating(p)
    PROVE  IInv'
<1>0. Holding(p) /\ OwnOnly(p) /\ TypeOK /\ TypeOK' /\ Owner' /\ Work(p)
  BY OwnerStep DEF Work
<1>1. pc[p] \in Generates /\ alive
  BY DEF Generating, Cancel, Sample, Emit, DecodeToken, DecodeFails, RunOut, Finish,
         At, Generates
<1>2. NoLoad /\ reported[p] = None /\ call[p] \in Requests
      /\ call[p].op = "stream" /\ ctx # None /\ handles' = handles
  BY <1>0, <1>1 DEF Holding, NoLoad, IInv, Fresh, Kinds, Generates, Generating, Cancel,
     Sample, Emit, DecodeToken, DecodeFails, RunOut, Finish
<1>3. \A q \in Calls : MaxTokens(q)' = MaxTokens(q)
  BY <1>0 DEF OwnOnly, MaxTokens
<1>4. /\ file \in Models /\ Cells(file) \in Nat /\ MaxTokens(p) \in Nat
      /\ call[p].prompt \in Nat /\ emitted[p] \in Nat /\ past[p] \in Nat
      /\ tokenCount \in Nat
  <2>1. file \in Models
    BY <1>0, <1>2 DEF IInv, Memory, TypeOK
  <2> QED BY <2>1, <1>0, Sizes, Limited, CallTyped DEF TypeOK
<1>5. CASE Cancel(p) \/ DecodeFails(p)
  BY <1>0, <1>2, <1>5, LeaveStep DEF Cancel, DecodeFails, progress
\* The steps within the loop.
<1>6. ASSUME pc'[p] \in Generates, mu' = mu, outcome' = outcome, reported' = reported
      PROVE  Memory' /\ Kept' /\ Kinds' /\ Fresh' /\ TelemetryHonest'
  <2> USE <1>0, <1>1, <1>2, <1>6 DEF IInv, Holding, OwnOnly, handles, Generates
  <2>1. Memory' /\ Kept'
    BY DEF Memory, Kept, NoLoad, Held
  <2>2. Kinds' /\ Fresh'
    BY DEF Kinds, Fresh
  <2>3. TelemetryHonest'
    BY <1>3 DEF TelemetryHonest
  <2> QED BY <2>1, <2>2, <2>3
<1>7. CASE Sample(p)
  <2>1. /\ pc[p] = "loop" /\ pc'[p] \in {"emit", "final"}
        /\ mu' = mu /\ outcome' = outcome /\ reported' = reported
        /\ tokenCount' = tokenCount + 1 /\ kv' = kv
        /\ past' = past /\ emitted' = emitted /\ late' = late
        /\ ~gone[p] /\ emitted[p] < MaxTokens(p)
    BY <1>0, <1>7, GotoOwn DEF Sample, At, Rounds, progress
  <2> USE <1>0, <1>1, <1>2, <1>3, <1>4, <2>1 DEF IInv, Holding, OwnOnly, handles,
          Generates
  <2>2. Latest' /\ Counters'
    BY DEF Latest, Counters
  <2>3. CacheIsMine'
    BY DEF CacheIsMine, Cells, Padded, ContextSize
  <2>4. BoundedOutput'
    BY DEF BoundedOutput, Cells, Padded, ContextSize
  <2> QED BY <1>6, <2>2, <2>3, <2>4
<1>8. CASE RunOut(p)
  <2>1. /\ pc[p] = "loop" /\ pc'[p] = "final"
        /\ mu' = mu /\ outcome' = outcome /\ reported' = reported
        /\ tokenCount' = tokenCount /\ kv' = kv
        /\ past' = past /\ emitted' = emitted /\ late' = late
        /\ ~(emitted[p] < MaxTokens(p))
    BY <1>0, <1>8, GotoOwn DEF RunOut, At, Rounds, progress
  <2> USE <1>0, <1>1, <1>2, <1>3, <1>4, <2>1 DEF IInv, Holding, OwnOnly, handles,
          Generates
  <2>2. Latest' /\ Counters'
    BY DEF Latest, Counters
  <2>3. CacheIsMine'
    BY DEF CacheIsMine, Cells, Padded, ContextSize
  <2>4. BoundedOutput'
    BY DEF BoundedOutput, Cells, Padded, ContextSize
  <2> QED BY <1>6, <2>2, <2>3, <2>4
<1>9. CASE DecodeToken(p)
  <2>1. /\ pc[p] = "decode" /\ pc'[p] = "loop"
        /\ mu' = mu /\ outcome' = outcome /\ reported' = reported
        /\ tokenCount' = tokenCount /\ kv.cells < Cells(file)
        /\ kv' = [owner |-> kv.owner, cells |-> kv.cells + 1]
        /\ past'[p] = past[p] + 1 /\ emitted' = emitted /\ late' = late
    BY <1>0, <1>9, GotoOwn DEF DecodeToken, At, TypeOK
  <2> USE <1>0, <1>1, <1>2, <1>3, <1>4, <2>1 DEF IInv, Holding, OwnOnly, handles,
          Generates
  <2>2. Latest' /\ Counters'
    BY DEF Latest, Counters
  <2>3. CacheIsMine'
    BY DEF CacheIsMine, Cells, Padded, ContextSize
  <2>4. BoundedOutput'
    BY DEF BoundedOutput, Cells, Padded, ContextSize
  <2> QED BY <1>6, <2>2, <2>3, <2>4
<1>10. CASE Emit(p)
  <2>1. /\ pc[p] = "emit" /\ emitted'[p] = emitted[p] + 1
        /\ late'[p] = IF gone[p] THEN late[p] + 1 ELSE late[p]
        /\ tokenCount' = tokenCount /\ kv' = kv /\ past' = past
        /\ reported' = reported
    BY <1>0, <1>10 DEF Emit, At, TypeOK
  <2>2. late[p] = 0 /\ emitted[p] < MaxTokens(p) /\ tokenCount = emitted[p] + 1
    BY <2>1 DEF IInv, Latest, Counters
  <2>3. /\ past[p] = call[p].prompt + emitted[p] /\ past[p] <= Cells(file)
        /\ kv = [owner |-> p, cells |-> past[p]]
    BY <1>4, <2>1 DEF IInv, CacheIsMine
  <2>4. Latest'
    <3>1. pc'[p] # "emit"
      <4>1. Goto(p, "decode") \/ Return(p, "error", file)
        BY <1>10 DEF Emit
      <4>2. CASE Goto(p, "decode")
        BY <1>0, <4>2, GotoOwn
      <4>3. CASE Return(p, "error", file)
        BY <1>0, <4>3, ReturnOwn
      <4> QED BY <4>1, <4>2, <4>3
    <3>2. late'[p] \in 0..1 /\ (gone[p] \/ late'[p] = 0)
      BY <2>1, <2>2
    <3> QED BY <1>0, <3>1, <3>2 DEF IInv, Latest, OwnOnly
  <2>5. CASE mu' = mu /\ outcome' = outcome /\ Goto(p, "decode")
    <3>1. pc'[p] = "decode"
      BY <1>0, <2>5, GotoOwn
    <3> USE <1>0, <1>1, <1>2, <1>3, <1>4, <2>1, <2>2, <2>3, <2>5, <3>1
        DEF IInv, Holding, OwnOnly, handles, Generates
    <3>2. Counters'
      BY DEF Counters
    <3>3. CacheIsMine'
      BY DEF CacheIsMine, Cells, Padded, ContextSize
    <3>4. BoundedOutput'
      BY DEF BoundedOutput, Cells, Padded, ContextSize
    <3> QED BY <1>6, <2>4, <3>2, <3>3, <3>4
  <2>6. CASE Return(p, "error", file)
    <3>1. outcome'[p] = [status |-> "error", by |-> file]
      BY <1>0, <2>6, ReturnOwn
    <3>2. pc'[p] = "idle" /\ mu' = None /\ outcome'[p].by = file
      BY <1>0, <2>6, <3>1, ReturnOwn
    <3> USE <1>0, <1>1, <1>2, <1>3, <1>4, <2>1, <2>2, <2>3, <3>2
        DEF IInv, Holding, OwnOnly, handles, Generates
    <3>3. Memory' /\ Kept'
      BY DEF Memory, Kept, NoLoad
    <3>4. Kinds' /\ Fresh'
      BY DEF Kinds, Fresh
    <3>5. Counters' /\ CacheIsMine' /\ TelemetryHonest'
      BY DEF Counters, CacheIsMine, TelemetryHonest
    <3>6. BoundedOutput'
      BY DEF BoundedOutput, Cells, Padded, ContextSize
    <3> QED BY <2>4, <3>3, <3>4, <3>5, <3>6
  <2> QED BY <1>10, <2>5, <2>6 DEF Emit
<1>11. CASE Finish(p)
  <2>1. /\ pc[p] = "final" /\ reported'[p] = tokenCount
        /\ emitted' = emitted /\ late' = late
    BY <1>0, <1>11 DEF Finish, At, TypeOK
  <2>2. outcome'[p] = [status |-> "ok", by |-> file]
    BY <1>0, <1>11, ReturnOwn DEF Finish
  <2>3. /\ pc'[p] = "idle" /\ mu' = None
        /\ outcome'[p].by = file /\ outcome'[p].status = "ok"
    BY <1>0, <1>11, <2>2, ReturnOwn DEF Finish
  <2>4. \/ tokenCount = emitted[p] + 1
        \/ tokenCount = emitted[p] /\ emitted[p] = MaxTokens(p)
    BY <2>1 DEF IInv, Counters
  <2> USE <1>0, <1>1, <1>2, <1>3, <1>4, <2>1, <2>3
      DEF IInv, Holding, OwnOnly, handles, Generates
  <2>5. Memory' /\ Kept'
    BY DEF Memory, Kept, NoLoad
  <2>6. Kinds' /\ Fresh' /\ Latest'
    BY DEF Kinds, Fresh, Latest
  <2>7. Counters' /\ CacheIsMine'
    BY DEF Counters, CacheIsMine
  <2>8. BoundedOutput'
    BY DEF BoundedOutput, Cells, Padded, ContextSize
  <2>9. TelemetryHonest'
    BY <2>4 DEF TelemetryHonest
  <2> QED BY <2>5, <2>6, <2>7, <2>8, <2>9
<1> QED BY <1>5, <1>7, <1>8, <1>9, <1>10, <1>11 DEF Generating

-----------------------------------------------------------------------------
\* The inductive invariant holds in every reachable state, between any two
\* steps of any calls.
THEOREM Invariant == Spec => []IInv
<1>1. ASSUME IInv, [Next]_vars PROVE IInv'
  BY <1>1, BeginStep, DisconnectStep, LockStep, LoadStep, StartStep, GenerateStep,
     StutterStep DEF Next, Work
<1> QED BY Initially, <1>1, PTL DEF Spec

\* Every variable stays in its type.
THEOREM TypeCorrect == Spec => []TypeOK
<1> QED BY Invariant, PTL DEF IInv

\* LoadModel and unloadModel: b.model and b.ctx never dangle, and whenever b.mu
\* is free they point to all that is allocated.
THEOREM MemorySafe == Spec => []HandlesConsistent
<1>1. IInv => HandlesConsistent
  <2> SUFFICES ASSUME IInv PROVE HandlesConsistent
    OBVIOUS
  <2> USE DEF IInv, HandlesConsistent
  <2>1. CASE NoLoad
    BY <2>1 DEF Memory
  <2>2. CASE ~NoLoad
    <3>1. PICK p \in Calls : pc[p] \in {"opening", "creating"}
      BY <2>2 DEF NoLoad
    <3>2. mu # None
      BY <3>1, BackendAssumption DEF Owner
    <3>3. {model, ctx} \ {None} \subseteq heap
      BY <3>1 DEF Memory
    <3> QED BY <3>2, <3>3
  <2> QED BY <2>1, <2>2
<1> QED BY <1>1, Invariant, PTL

\* Stream: a call generates on its own prompt and its own tokens.
THEOREM CachePrivate == Spec => []CacheIsMine
<1> QED BY Invariant, PTL DEF IInv

\* Stream: an answer is no longer than asked for and than the context allows.
THEOREM OutputBounded == Spec => []BoundedOutput
<1> QED BY Invariant, PTL DEF IInv

\* Stream, the select on ctx.Done: at most one token is passed on after the
\* client has gone.
THEOREM CancellationPrompt == Spec => []StopsAfterDisconnect
<1>1. IInv => StopsAfterDisconnect
  <2>1. Latest => \A p \in Calls : late[p] \in 0..1
    BY DEF Latest
  <2>2. ASSUME Latest, NEW p \in Calls PROVE late[p] <= 1
    BY <2>1, <2>2
  <2> QED BY <2>2 DEF IInv, StopsAfterDisconnect
<1> QED BY <1>1, Invariant, PTL

\* Stream: a last response counts the tokens of its own call, although the
\* counter is the backend's.
THEOREM TelemetryTrue == Spec => []TelemetryHonest
<1> QED BY Invariant, PTL DEF IInv
-----------------------------------------------------------------------------
(***************************************************************************)
(* The refinement.                                                         *)
(***************************************************************************)
LEMMA HostInit == Init => Host!Init
  BY DEF Init, Host!Init, Visible, Held, Asked, Host!NoCall, Host!NoAnswer, NoOutcome

\* As the Engine sees it, a call asks from Begin to its return.
LEMMA AskedBusy ==
    ASSUME NEW p \in Calls, pc[p] # "idle"
    PROVE  Asked[p] = [op |-> IF Infers(p) THEN "infer" ELSE call[p].op,
                       model |-> call[p].model]
  BY DEF Asked

\* Steps between the two leave it asking the same.
LEMMA AskedSame ==
    ASSUME call' = call, \A p \in Calls : pc'[p] = "idle" <=> pc[p] = "idle"
    PROVE  Asked' = Asked
<1>1. \A p \in Calls : Infers(p)' = Infers(p)
  BY DEF Infers
<1> QED BY <1>1 DEF Asked

\* A return takes its own call out of those that ask.
LEMMA AskedReturns ==
    ASSUME NEW p \in Calls, call' = call, pc'[p] = "idle",
           \A q \in Calls : q # p => pc'[q] = pc[q]
    PROVE  Asked' = [Asked EXCEPT ![p] = Host!NoCall]
<1>1. \A q \in Calls : Infers(q)' = Infers(q)
  BY DEF Infers
<1>2. Asked' = [q \in Calls |-> IF q = p THEN Host!NoCall ELSE Asked[q]]
  BY <1>1 DEF Asked, Host!NoCall
<1> QED BY <1>2 DEF Asked

\* While nobody holds a call's lock, or nobody loads, what is held is seen.
LEMMA SeesHeld == ASSUME IInv, NoLoad PROVE Visible = Held
  BY DEF Visible, IInv, Kept

\* What is held is the file that the context was made for.
LEMMA HeldFile ==
    ASSUME IInv, NoLoad
    PROVE  (ctx = None <=> Held = None) /\ (ctx # None => Held = file)
  BY DEF Held, IInv, Memory

\* A step in the middle of a call is not seen.
LEMMA Unseen ==
    ASSUME IInv, NEW p \in Calls, Work(p), pc'[p] # "idle", outcome' = outcome,
           alive' = alive
    PROVE  UNCHANGED Host!vars
<1>1. Holding(p) /\ OwnOnly(p)
  BY OwnerStep
<1>2. Visible' = Visible
  BY <1>1, BackendAssumption DEF Holding, OwnOnly, Visible
<1>3. Asked' = Asked
  BY <1>1, AskedSame DEF Holding, OwnOnly
<1> QED BY <1>2, <1>3 DEF Host!vars

\* A return is one in the abstract.
LEMMA Returns ==
    ASSUME IInv, NEW p \in Calls, Work(p), alive, alive' = alive,
           NEW status, NEW by, Return(p, status, by)
    PROVE  /\ Host!Return(p, IF Infers(p) THEN "infer" ELSE call[p].op, status, by)
           /\ Visible' = Held' /\ Asked[p].model = call[p].model
<1>1. Holding(p) /\ OwnOnly(p) /\ TypeOK
  BY OwnerStep
<1>2. pc'[p] = "idle" /\ mu' = None
  BY <1>1, ReturnOwn
<1>3. Asked' = [Asked EXCEPT ![p] = Host!NoCall]
  BY <1>1, <1>2, AskedReturns DEF OwnOnly
<1>4. /\ Asked[p].op = IF Infers(p) THEN "infer" ELSE call[p].op
      /\ Asked[p].model = call[p].model
  <2>1. Asked[p] = [op |-> IF Infers(p) THEN "infer" ELSE call[p].op,
                    model |-> call[p].model]
    BY <1>1, AskedBusy DEF Holding
  <2> QED BY <2>1
<1> QED BY <1>2, <1>3, <1>4 DEF Host!Return, Return, Visible

\* A load's steps are unseen, until its return, a load of the host.
LEMMA HostLoads ==
    ASSUME IInv, NEW p \in Calls, Loading(p) \/ Unload(p)
    PROVE  [Host!Next]_(Host!vars)
<1>0. Holding(p) /\ OwnOnly(p) /\ TypeOK /\ Work(p)
  BY OwnerStep DEF Work
<1>1. alive /\ alive' = alive
  BY DEF Loading, FreeOld, OpenFile, OpenFails, CreateContext, CreateFails, Unload, At
<1>2. CASE FreeOld(p)
  <2>1. pc'[p] # "idle" /\ outcome' = outcome
    BY <1>0, <1>2, GotoOwn DEF FreeOld
  <2> QED BY <1>0, <1>1, <2>1, Unseen
<1>3. CASE OpenFile(p)
  <2>1. pc'[p] # "idle" /\ outcome' = outcome
    BY <1>0, <1>3, GotoOwn DEF OpenFile
  <2> QED BY <1>0, <1>1, <2>1, Unseen
<1>4. ASSUME OpenFails(p) \/ CreateFails(p)
      PROVE  Host!Load(p)
  <2>1. Return(p, "error", None) /\ pc[p] \in {"opening", "creating"}
    BY <1>4 DEF OpenFails, CreateFails, At
  <2>2. Held' = None
    BY <1>4, <2>1 DEF OpenFails, CreateFails, Free, Held, handles, IInv, Memory, At
  <2>3. call[p].op = "load" /\ ~Infers(p)
    BY <2>1 DEF IInv, Kinds, Infers
  <2>4. Host!Return(p, "load", "error", None) /\ Visible' = None
    BY <1>0, <1>1, <2>1, <2>2, <2>3, Returns
  <2> QED BY <2>4 DEF Host!Load
<1>5. ASSUME CreateContext(p) PROVE Host!Load(p)
  <2>1. Return(p, "ok", None) /\ pc[p] = "creating"
    BY <1>5 DEF CreateContext, At
  <2>2. call[p].op = "load" /\ ~Infers(p)
    BY <2>1 DEF IInv, Kinds, Infers
  <2>3. Held' = call[p].model
    BY <1>5, <2>1, BackendAssumption DEF CreateContext, Held, IInv, Memory
  <2>4. Host!Return(p, "load", "ok", None) /\ Visible' = Asked[p].model
    BY <1>0, <1>1, <2>1, <2>2, <2>3, Returns
  <2> QED BY <2>4 DEF Host!Load
<1>6. ASSUME Unload(p) PROVE Host!Unload(p)
  <2>1. Return(p, "ok", None) /\ call[p].op = "unload" /\ ~Infers(p) /\ Held' = None
    BY <1>6 DEF Unload, Free, Held, Infers
  <2>2. Host!Return(p, "unload", "ok", None) /\ Visible' = None
    BY <1>0, <1>1, <2>1, Returns
  <2> QED BY <2>2 DEF Host!Unload
<1> QED BY <1>2, <1>3, <1>4, <1>5, <1>6 DEF Loading, Host!Next

\* An inference that returns without a step of the model's.
LEMMA HostInfers ==
    ASSUME IInv, NEW p \in Calls, Work(p), NoLoad, Infers(p), alive, alive' = alive,
           handles' = handles, NEW status,
           \/ ctx = None /\ status = "unloaded" /\ Return(p, status, None)
           \/ ctx # None /\ status \in {"ok", "error"} /\ Return(p, status, file)
    PROVE  Host!Infer(p)
<1>1. Visible = Held /\ Held' = Held
  BY SeesHeld DEF handles, Held
<1>2. CASE ctx = None
  <2>1. Held = None /\ Return(p, "unloaded", None)
    BY <1>2, HeldFile
  <2>2. Host!Return(p, "infer", "unloaded", None) /\ Visible' = Visible
    BY <1>1, <2>1, Returns
  <2> QED BY <1>1, <2>1, <2>2 DEF Host!Infer
<1>3. CASE ctx # None
  <2>1. Held = file /\ Held # None /\ status \in {"ok", "error"}
        /\ Return(p, status, file)
    BY <1>3, HeldFile
  <2>2. Host!Return(p, "infer", status, Visible) /\ Visible' = Visible
    BY <1>1, <2>1, Returns
  <2> QED BY <1>1, <2>1, <2>2 DEF Host!Infer
<1> QED BY <1>2, <1>3

\* An inference's first steps are unseen, or its return.
LEMMA HostStarts ==
    ASSUME IInv, NEW p \in Calls, Starting(p)
    PROVE  [Host!Next]_(Host!vars)
<1>0. Holding(p) /\ OwnOnly(p) /\ TypeOK /\ Work(p)
  BY OwnerStep DEF Work
<1>1. /\ pc[p] = "locked" /\ Infers(p) /\ alive
      /\ handles' = handles
  BY DEF Starting, NotLoaded, TokenizeFails, PromptAborts, PromptFails,
         DecodePrompt, Prompting, At
<1>2. NoLoad
  BY <1>0, <1>1 DEF Holding, NoLoad
<1>3. CASE NotLoaded(p)
  <2>1. ctx = None /\ alive' = alive /\ Return(p, "unloaded", None)
    BY <1>3 DEF NotLoaded
  <2> QED BY <1>0, <1>1, <1>2, <2>1, HostInfers DEF Host!Next
<1>4. CASE TokenizeFails(p)
  <2>1. ctx # None /\ alive' = alive /\ Return(p, "error", file)
    BY <1>4 DEF TokenizeFails
  <2> QED BY <1>0, <1>1, <1>2, <2>1, HostInfers DEF Host!Next
<1>5. CASE PromptFails(p)
  <2>1. ctx # None /\ alive' = alive /\ Return(p, "error", file)
    BY <1>5 DEF PromptFails, Prompting
  <2> QED BY <1>0, <1>1, <1>2, <2>1, HostInfers DEF Host!Next
<1>6. CASE PromptAborts(p)
  <2>1. /\ ctx # None /\ alive' = FALSE
        /\ UNCHANGED <<mu, pc, call, outcome, handles, before>>
    BY <1>0, <1>6 DEF PromptAborts, Prompting, OwnOnly
  <2>2. Visible = Held /\ Held # None
    BY <1>2, <2>1, SeesHeld, HeldFile
  <2>3. Visible' = Visible /\ Asked' = Asked
    BY <2>1, AskedSame DEF Visible, Held, handles
  <2>4. Asked[p] = [op |-> IF Infers(p) THEN "infer" ELSE call[p].op,
                    model |-> call[p].model]
    BY <1>1, AskedBusy
  <2>5. Asked[p].op = "infer"
    BY <1>1, <2>4
  <2>6. Host!Abort(p)
    BY <1>1, <2>1, <2>2, <2>3, <2>5 DEF Host!Abort
  <2> QED BY <2>6 DEF Host!Next
<1>7. CASE DecodePrompt(p)
  <2>1. ctx # None /\ alive' = alive
    BY <1>7 DEF DecodePrompt, Prompting
  <2>2. CASE call[p].op = "stream"
    <3>1. pc'[p] # "idle" /\ outcome' = outcome
      BY <1>0, <1>7, <2>2, GotoOwn DEF DecodePrompt
    <3> QED BY <1>0, <2>1, <3>1, Unseen
  <2>3. CASE call[p].op # "stream"
    <3>1. Return(p, "ok", file)
      BY <1>7, <2>3 DEF DecodePrompt
    <3> QED BY <1>0, <1>1, <1>2, <2>1, <3>1, HostInfers DEF Host!Next
  <2> QED BY <2>2, <2>3
<1> QED BY <1>3, <1>4, <1>5, <1>6, <1>7 DEF Starting

\* Those of its loop too.
LEMMA HostGenerates ==
    ASSUME IInv, NEW p \in Calls, Generating(p)
    PROVE  [Host!Next]_(Host!vars)
<1>0. Holding(p) /\ OwnOnly(p) /\ TypeOK /\ Work(p)
  BY OwnerStep DEF Work
<1>1. pc[p] \in Generates /\ alive /\ alive' = alive /\ handles' = handles
  BY DEF Generating, Cancel, Sample, Emit, DecodeToken, DecodeFails, RunOut, Finish,
         At, Generates
<1>2. NoLoad /\ Infers(p) /\ ctx # None
  BY <1>0, <1>1 DEF Holding, NoLoad, IInv, Kinds, Infers, Generates
<1>3. ASSUME Return(p, "error", file) \/ Return(p, "ok", file)
      PROVE  [Host!Next]_(Host!vars)
  BY <1>0, <1>1, <1>2, <1>3, HostInfers DEF Host!Next
<1>4. ASSUME NEW l \in Generates, Goto(p, l), outcome' = outcome
      PROVE  [Host!Next]_(Host!vars)
  <2>1. pc'[p] # "idle"
    BY <1>0, <1>4, GotoOwn DEF Generates
  <2> QED BY <1>0, <1>1, <1>4, <2>1, Unseen
<1>5. CASE Cancel(p) \/ DecodeFails(p) \/ Finish(p)
  BY <1>3, <1>5 DEF Cancel, DecodeFails, Finish
<1>6. CASE Sample(p) \/ DecodeToken(p) \/ RunOut(p)
  BY <1>4, <1>6 DEF Sample, DecodeToken, RunOut, Generates
<1>7. CASE Emit(p)
  BY <1>3, <1>4, <1>7 DEF Emit, Generates
<1> QED BY <1>5, <1>6, <1>7 DEF Generating

\* Begin is the host's, Disconnect and Lock are unseen.
LEMMA HostBegins ==
    ASSUME IInv, NEW p \in Calls, Begin(p)
    PROVE  [Host!Next]_(Host!vars)
<1>0. TypeOK
  BY DEF IInv
<1>1. /\ alive /\ pc[p] = "idle" /\ pc'[p] = "wait"
      /\ \A q \in Calls : q # p => pc'[q] = pc[q] /\ call'[q] = call[q]
      /\ outcome' = [outcome EXCEPT ![p] = Host!NoAnswer]
      /\ UNCHANGED <<mu, handles, before, alive>>
  BY <1>0 DEF Begin, At, Goto, TypeOK, NoOutcome, Host!NoAnswer
<1>2. PICK r \in Requests : call'[p] = r
  BY <1>0 DEF Begin, TypeOK
<1> DEFINE op == IF r.op \in {"stream", "embed"} THEN "infer" ELSE r.op
<1>3. /\ op \in Host!Operations /\ r.model \in Models \union {None}
      /\ op = "load" <=> r.model # None
  <2>1. r.op \in {"load", "unload", "stream", "embed"}
        /\ (r.op # "load" => r.model = None)
    BY DEF Requests
  <2>2. CASE r.op = "load"
    BY <2>1, <2>2, LoadNames DEF Host!Operations
  <2>3. CASE r.op # "load"
    BY <2>1, <2>3 DEF Host!Operations
  <2> QED BY <2>2, <2>3
<1>4. Asked' = [Asked EXCEPT ![p] = [op |-> op, model |-> r.model]]
  <2>1. \A q \in Calls : q # p => Infers(q)' = Infers(q)
    BY <1>1 DEF Infers
  <2>2. Infers(p)' = (r.op \in {"stream", "embed"})
    BY <1>2 DEF Infers
  <2>3. Asked' = [q \in Calls |-> IF q = p THEN [op |-> op, model |-> r.model]
                                 ELSE Asked[q]]
    BY <1>1, <1>2, <2>1, <2>2 DEF Asked
  <2> QED BY <2>3 DEF Asked
<1>5. Asked[p] = Host!NoCall
  BY <1>1 DEF Asked, Host!NoCall
<1>6. Visible' = Visible
  BY <1>1 DEF Visible, Held, handles
<1> HIDE DEF op
<1>7. Host!Ask(p)
  BY <1>1, <1>3, <1>4, <1>5, <1>6 DEF Host!Ask
<1> QED BY <1>7 DEF Host!Next

\* The CGO backend implements the model host: what LoadModel, UnloadModel and
\* Stream do on their way under b.mu is not seen, and each takes effect at once.
THEOREM Refinement == Spec => ImplementsHost
<1>1. ASSUME IInv, [Next]_vars PROVE [Host!Next]_(Host!vars)
  <2>1. ASSUME NEW p \in Calls, Disconnect(p) PROVE UNCHANGED Host!vars
    <3>1. UNCHANGED <<mu, handles, before, pc, call, outcome, alive>>
      BY <2>1 DEF Disconnect
    <3> QED BY <3>1, AskedSame DEF Host!vars, Visible, Held, handles
  <2>2. ASSUME NEW p \in Calls, Lock(p) PROVE UNCHANGED Host!vars
    <3>1. Visible' = Visible
      BY <2>2, BackendAssumption DEF Lock, Visible
    <3>2. Asked' = Asked
      BY <1>1, <2>2, GotoOwn, AskedSame DEF Lock, At, IInv
    <3> QED BY <2>2, <3>1, <3>2 DEF Lock, Host!vars
  <2>3. ASSUME UNCHANGED vars PROVE UNCHANGED Host!vars
    BY <2>3, AskedSame DEF vars, handles, Host!vars, Visible, Held
  <2> QED
    BY <1>1, <2>1, <2>2, <2>3, HostBegins, HostLoads, HostStarts, HostGenerates
       DEF Next, Work
<1> QED BY HostInit, <1>1, Invariant, PTL DEF Spec, ImplementsHost, Host!Spec
=============================================================================
