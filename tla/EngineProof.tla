----------------------------- MODULE EngineProof -----------------------------
(***************************************************************************)
(* Proofs about EngineIsolation, for any number of clients, any catalogue  *)
(* and both backends.                                                      *)
(***************************************************************************)
EXTENDS EngineIsolation, TLAPS

(***************************************************************************)
(* The inductive invariant.                                                *)
(***************************************************************************)

\* Nothing has happened before the server is started.
BootQuiet ==
    Serving \/ /\ loaded = None /\ activeModel = None /\ calm = {}
               /\ \A p \in Clients : pc[p] = "idle"

\* llama-cli is started per request: the backend itself never holds a model.
CliHoldsNothing == Backend = "cli" => loaded = None

\* The lock's holder is where the lock is held, and nobody else is.
LockHeld == \A p \in Clients : writer = p <=> pc[p] = "storing"

\* Without a clash at most one change waits to be stored, and it is the one
\* the backend made last (or the backend lost its model since).
OnePending ==
    ~clash => /\ \A p, q \in Clients : Changed(p) /\ Changed(q) => p = q
              /\ \A p \in Clients :
                   Changed(p) => loaded \in {None, Target(name[p])}

\* What waits to be stored has been accepted by the backend.
PendingLoaded ==
    \A p \in Clients : Changed(p) =>
        /\ name[p] # None => PathOf(name[p]) \in Files
        /\ IsInference(p) => name[p] # None

\* An unload asks for no model, and will store "".
UnloadNamesNone ==
    \A p \in Clients :
        /\ req[p].op = "unload"
             => name[p] = None /\ pc[p] \notin {"snapshot", "check"}
        /\ pc[p] = "unload" => req[p].op = "unload"

\* A calm request has no change beside it, except its own.
CalmAlone ==
    \A p \in calm :
        /\ pc[p] \notin {"idle", "snapshot"}
        /\ pc[p] # "done" => ~clash
        /\ pc[p] \in {"check", "lookup", "load", "unload", "dispatch"}
             => NoneChanged

\* A calm request finds its own model at the backend, or none.
CalmAgrees ==
    \A p \in calm :
        /\ pc[p] = "dispatch"
        /\ req[p].op \in {"generate", "embed"}
        => name[p] # None /\ loaded \in {None, Instance(name[p])}

IInv == /\ TypeOK /\ BootQuiet /\ CliHoldsNothing /\ LockHeld
        /\ OnePending /\ PendingLoaded /\ UnloadNamesNone
        /\ CalmAlone /\ CalmAgrees
        /\ ActiveAgrees /\ ActiveWasLoaded /\ IsolatedServe
-----------------------------------------------------------------------------
(***************************************************************************)
(* Type correctness is inductive by itself.                                *)
(***************************************************************************)
LEMMA TypeInit == HInit => TypeOK
<1> SUFFICES ASSUME HInit PROVE TypeOK
  OBVIOUS
<1>1. NoRequest \in Requests /\ NoResult \in Results
  BY DEF NoRequest, Requests, NoResult, Results
<1>2. req \in [Clients -> Requests] /\ result \in [Clients -> Results]
  BY <1>1 DEF HInit, Init
<1>3. pc \in [Clients -> Locations]
  BY DEF HInit, Init, Locations
<1> QED BY <1>2, <1>3 DEF HInit, Init, TypeOK

\* An answer leaves the program counters and the results typed.
LEMMA AnswerTyped ==
  ASSUME NEW p \in Clients, NEW st \in Statuses,
         NEW sv \in Instances \union {None},
         TypeOK, Answer(p, st, sv)
  PROVE  pc' \in [Clients -> Locations] /\ result' \in [Clients -> Results]
<1>1. [status |-> st, served |-> sv] \in Results
  BY DEF Results
<1> QED BY <1>1 DEF Answer, Goto, TypeOK, Locations

\* Every step keeps the types.
LEMMA TypeStep == TypeOK /\ [HNext]_hvars => TypeOK'
<1> SUFFICES ASSUME TypeOK, [HNext]_hvars PROVE TypeOK'
  OBVIOUS
<1> USE EngineAssumption DEF TypeOK, Locations, Results, Statuses
<1>1. CASE HBoot
  <2>1. ASSUME NEW c \in ConfigFiles, RegisterConfig(c) PROVE TypeOK'
    BY <1>1, <2>1 DEF HBoot, RegisterConfig
  <2>2. ASSUME NEW m \in ModelFiles, RegisterModel(m) PROVE TypeOK'
    BY <1>1, <2>2 DEF HBoot, RegisterModel
  <2> QED BY <1>1, <2>1, <2>2 DEF HBoot, Boot
<1>2. ASSUME NEW p \in Clients, HArrive(p) PROVE TypeOK'
  BY <1>2 DEF HArrive, Arrive, catalogue, Goto, Requests, NoResult
<1>3. ASSUME NEW p \in Clients, HSnapshot(p) PROVE TypeOK'
  BY <1>3 DEF HSnapshot, Snapshot, catalogue, Goto, Requests
<1>4. ASSUME NEW p \in Clients, HChanging(p) PROVE TypeOK'
  <2>1. CASE LoadSucceeds(p)
    <3>1. name[p] \in Names /\ PathOf(name[p]) \in Names \union Paths
      BY <2>1 DEF LoadSucceeds, LoadTo
    <3>2. Instance(name[p]) \in Instances
      BY <3>1 DEF Instance, Instances
    <3>3. loaded' \in Instances \union {None}
      BY <2>1, <3>2 DEF LoadSucceeds, LoadTo
    <3> QED BY <1>4, <2>1, <3>3 DEF HChanging, LoadSucceeds, LoadTo, catalogue,
                 Goto, NoneChanged
  <2>2. CASE UnloadBackend(p)
    BY <1>4, <2>2 DEF HChanging, UnloadBackend, UnloadTo, catalogue, Goto,
         NoneChanged
  <2> QED BY <1>4, <2>1, <2>2 DEF HChanging, Changing
<1>5. ASSUME NEW p \in Clients, HOther(p) PROVE TypeOK'
  <2>1. CASE Lookup(p) \/ BeginStore(p)
    BY <1>5, <2>1 DEF HOther, Lookup, BeginStore, catalogue, Goto
  <2>2. CASE NoModelGiven(p) \/ ReadHalfStored(p)
    <3>1. \/ Answer(p, "refused", None)
          \/ Answer(p, "aborted", None)
      BY <2>2 DEF NoModelGiven, ReadHalfStored
    <3>2. pc' \in [Clients -> Locations] /\ result' \in [Clients -> Results]
      BY <3>1, AnswerTyped
    <3> QED BY <1>5, <2>2, <3>2 DEF HOther, NoModelGiven, ReadHalfStored,
              catalogue
  <2>7. CASE AutoLoad(p) \/ SkipLoad(p)
    <3>1. /\ Goto(p, "lookup") \/ Goto(p, "dispatch")
          /\ UNCHANGED <<catalogue, activeModel, writer, loaded, req, name,
                         result>>
      BY <2>7, Zenon DEF AutoLoad, SkipLoad
    <3> QED BY <1>5, <3>1 DEF HOther, catalogue, Goto
  <2>3. CASE LoadFails(p)
    BY <1>5, <2>3 DEF HOther, LoadFails, catalogue, Goto, Answer
  <2>4. CASE EndStore(p)
    BY <1>5, <2>4 DEF HOther, EndStore, StoreAs, catalogue, Goto, Answer
  <2>5. CASE NotRegistered(p) \/ ServeNotLoaded(p) \/ ServeFails(p)
    <3>1. \E st \in Statuses : Answer(p, st, None)
      BY <2>5 DEF NotRegistered, ServeNotLoaded, ServeFails
    <3>2. pc' \in [Clients -> Locations] /\ result' \in [Clients -> Results]
      BY <3>1, AnswerTyped
    <3> QED BY <1>5, <2>5, <3>2 DEF HOther, NotRegistered, ServeNotLoaded,
              ServeFails, ReachesBackend, catalogue
  <2>6. CASE Serve(p)
    <3>1. CliInstance(p) \in Instances
      BY DEF CliInstance, Known, Instances, Requests
    <3>2. \E sv \in Instances \union {None} : Answer(p, "ok", sv)
      BY <2>6, <3>1 DEF Serve
    <3>3. pc' \in [Clients -> Locations] /\ result' \in [Clients -> Results]
      BY <3>2, AnswerTyped
    <3> QED BY <1>5, <2>6, <3>3 DEF HOther, Serve, ReachesBackend, catalogue
  <2> QED BY <1>5, <2>1, <2>2, <2>3, <2>4, <2>5, <2>6, <2>7
          DEF HOther, Checking, Dispatching
<1>6. CASE UNCHANGED hvars
  BY <1>6 DEF hvars, vars
<1> QED BY <1>1, <1>2, <1>3, <1>4, <1>5, <1>6 DEF HNext, HStep

(***************************************************************************)
(* Every state of the Engine is well typed.                                *)
(***************************************************************************)
THEOREM TypeCorrect == HSpec => []TypeOK
<1> QED BY TypeInit, TypeStep, PTL DEF HSpec
-----------------------------------------------------------------------------
(***************************************************************************)
(* A step that only moves its request on, away from loads and unloads,     *)
(* keeps every part of the invariant that is about the shared state.       *)
(***************************************************************************)
Move(p) ==
    /\ pc[p] \in {"check", "lookup", "dispatch"}
    /\ \E l \in {"lookup", "load", "unload", "dispatch", "done"} :
         Goto(p, l) /\ (l = "unload" => req[p].op = "unload")
    /\ UNCHANGED <<catalogue, activeModel, writer, loaded, req, name,
                   clash, calm>>

SharedInv == /\ BootQuiet /\ CliHoldsNothing /\ LockHeld /\ OnePending
             /\ PendingLoaded /\ UnloadNamesNone /\ CalmAlone
             /\ ActiveAgrees /\ ActiveWasLoaded

\* A step that only moves a request on keeps them.
LEMMA MoveStep ==
  ASSUME IInv, NEW p \in Clients, Move(p)
  PROVE  SharedInv'
<1> USE DEF Move, catalogue, Goto, Changed, NoneChanged, IInv, TypeOK
<1>1. BootQuiet' /\ CliHoldsNothing'
  BY DEF BootQuiet, CliHoldsNothing, Serving
<1>2. LockHeld'
  BY DEF LockHeld
<1>3. OnePending'
  BY DEF OnePending, Target, Instance, PathOf
<1>4. PendingLoaded' /\ UnloadNamesNone'
  BY DEF PendingLoaded, UnloadNamesNone, PathOf, IsInference
<1>5. CalmAlone'
  BY DEF CalmAlone
<1>6. ActiveAgrees' /\ ActiveWasLoaded'
  BY DEF ActiveAgrees, ActiveWasLoaded, Target, Instance, PathOf
<1> QED BY <1>1, <1>2, <1>3, <1>4, <1>5, <1>6 DEF SharedInv

(***************************************************************************)
(* The initial states satisfy the invariant, and every step keeps it.      *)
(***************************************************************************)
LEMMA IInvInit == HInit => IInv
<1> SUFFICES ASSUME HInit PROVE IInv
  OBVIOUS
<1>1. TypeOK
  BY TypeInit
<1>2. BootQuiet /\ CliHoldsNothing /\ LockHeld /\ UnloadNamesNone
  BY EngineAssumption DEF HInit, Init, BootQuiet, CliHoldsNothing, LockHeld,
       UnloadNamesNone
<1>3. OnePending /\ PendingLoaded
  BY DEF HInit, Init, OnePending, PendingLoaded, Changed
<1>4. CalmAlone /\ CalmAgrees
  BY DEF HInit, Init, CalmAlone, CalmAgrees
<1>5. ActiveAgrees /\ ActiveWasLoaded /\ IsolatedServe
  BY DEF HInit, Init, ActiveAgrees, ActiveWasLoaded, IsolatedServe
<1> QED BY <1>1, <1>2, <1>3, <1>4, <1>5 DEF IInv

\* Every step keeps the invariant.
LEMMA IInvStep == IInv /\ [HNext]_hvars => IInv'
<1> SUFFICES ASSUME IInv, [HNext]_hvars PROVE IInv'
  OBVIOUS
<1>t. TypeOK'
  BY TypeStep DEF IInv
<1> USE EngineAssumption DEF IInv, TypeOK, catalogue, Goto, Answer, Changed,
      NoneChanged
<1>1. ASSUME NEW p \in Clients, HArrive(p) PROVE IInv'
  <2>1. BootQuiet' /\ CliHoldsNothing'
    BY <1>1 DEF HArrive, Arrive, BootQuiet, CliHoldsNothing, Serving,
         Quiescent
  <2>2. LockHeld'
    BY <1>1 DEF HArrive, Arrive, LockHeld, Quiescent
  <2>3. OnePending'
    BY <1>1 DEF HArrive, Arrive, OnePending, Quiescent, Target, Instance,
         PathOf
  <2>4. PendingLoaded' /\ UnloadNamesNone'
    BY <1>1 DEF HArrive, Arrive, PendingLoaded, UnloadNamesNone, Quiescent,
         PathOf, IsInference
  <2>5. CalmAlone'
    BY <1>1 DEF HArrive, Arrive, CalmAlone, Quiescent
  <2>6. CalmAgrees'
    BY <1>1 DEF HArrive, Arrive, CalmAgrees, CalmAlone, Quiescent, Instance,
         PathOf
  <2>7. ActiveAgrees'
    BY <1>1 DEF HArrive, Arrive, ActiveAgrees, OnePending, Quiescent,
         Target, Instance, PathOf
  <2>8. ActiveWasLoaded'
    BY <1>1 DEF HArrive, Arrive, ActiveWasLoaded, PendingLoaded, PathOf
  <2>9. IsolatedServe'
    BY <1>1 DEF HArrive, Arrive, IsolatedServe, Quiescent, Instance, PathOf
  <2> QED BY <1>t, <2>1, <2>2, <2>3, <2>4, <2>5, <2>6, <2>7, <2>8, <2>9
<1>2. ASSUME NEW p \in Clients, HSnapshot(p) PROVE IInv'
  <2>1. BootQuiet' /\ CliHoldsNothing'
    BY <1>2 DEF HSnapshot, Snapshot, BootQuiet, CliHoldsNothing, Serving
  <2>2. LockHeld'
    BY <1>2 DEF HSnapshot, Snapshot, LockHeld
  <2>3. OnePending'
    BY <1>2 DEF HSnapshot, Snapshot, OnePending, Target, Instance, PathOf
  <2>4. PendingLoaded' /\ UnloadNamesNone'
    BY <1>2 DEF HSnapshot, Snapshot, PendingLoaded, UnloadNamesNone, PathOf,
         IsInference
  <2>5. CalmAlone'
    BY <1>2 DEF HSnapshot, Snapshot, CalmAlone, OnePending
  <2>6. CalmAgrees'
    BY <1>2 DEF HSnapshot, Snapshot, CalmAgrees, CalmAlone, Instance, PathOf
  <2>7. ActiveAgrees'
    BY <1>2 DEF HSnapshot, Snapshot, ActiveAgrees, OnePending, Target,
         Instance, PathOf
  <2>8. ActiveWasLoaded'
    BY <1>2 DEF HSnapshot, Snapshot, ActiveWasLoaded, PendingLoaded, PathOf
  <2>9. IsolatedServe'
    BY <1>2 DEF HSnapshot, Snapshot, IsolatedServe, Instance, PathOf
  <2> QED BY <1>t, <2>1, <2>2, <2>3, <2>4, <2>5, <2>6, <2>7, <2>8, <2>9
<1>3. ASSUME NEW p \in Clients, HChanging(p), LoadSucceeds(p) PROVE IInv'
  <2>1. BootQuiet' /\ CliHoldsNothing'
    BY <1>3 DEF HChanging, LoadSucceeds, LoadTo, BootQuiet, CliHoldsNothing,
         Serving
  <2>2. LockHeld'
    BY <1>3 DEF HChanging, LoadSucceeds, LoadTo, LockHeld
  <2>3. OnePending'
    <3>1. \A q \in Clients : Changed(q)' <=> Changed(q) \/ q = p
      BY <1>3 DEF LoadSucceeds, LoadTo
    <3>2. loaded' \in {None, Target(name[p])'}
      BY <1>3 DEF LoadSucceeds, LoadTo, CliHoldsNothing, Target, Instance,
           PathOf
    <3> QED BY <1>3, <3>1, <3>2 DEF HChanging, LoadSucceeds, LoadTo, OnePending
  <2>4. PendingLoaded' /\ UnloadNamesNone'
    BY <1>3 DEF HChanging, LoadSucceeds, LoadTo, PendingLoaded,
         UnloadNamesNone, PathOf, IsInference
  <2>5. CalmAlone'
    BY <1>3 DEF HChanging, LoadSucceeds, LoadTo, CalmAlone
  <2>6. CalmAgrees'
    BY <1>3 DEF HChanging, LoadSucceeds, LoadTo, CalmAgrees, CalmAlone,
         Instance, PathOf
  <2>7. ActiveAgrees'
    BY <1>3 DEF HChanging, LoadSucceeds, LoadTo, ActiveAgrees, OnePending,
         Target, Instance, PathOf, LockHeld
  <2>8. ActiveWasLoaded'
    BY <1>3 DEF HChanging, LoadSucceeds, LoadTo, ActiveWasLoaded,
         PendingLoaded, PathOf
  <2>9. IsolatedServe'
    BY <1>3 DEF HChanging, LoadSucceeds, LoadTo, IsolatedServe, Instance,
         PathOf
  <2> QED BY <1>t, <2>1, <2>2, <2>3, <2>4, <2>5, <2>6, <2>7, <2>8, <2>9
<1>4. ASSUME NEW p \in Clients, HChanging(p), UnloadBackend(p) PROVE IInv'
  <2>1. BootQuiet' /\ CliHoldsNothing'
    BY <1>4 DEF HChanging, UnloadBackend, UnloadTo, BootQuiet, CliHoldsNothing,
         Serving
  <2>2. LockHeld'
    BY <1>4 DEF HChanging, UnloadBackend, UnloadTo, LockHeld
  <2>3. OnePending'
    BY <1>4 DEF HChanging, UnloadBackend, UnloadTo, OnePending,
         CliHoldsNothing, Target, Instance, PathOf
  <2>4. PendingLoaded' /\ UnloadNamesNone'
    BY <1>4 DEF HChanging, UnloadBackend, UnloadTo, PendingLoaded,
         UnloadNamesNone, PathOf, IsInference
  <2>5. CalmAlone'
    BY <1>4 DEF HChanging, UnloadBackend, UnloadTo, CalmAlone
  <2>6. CalmAgrees'
    BY <1>4 DEF HChanging, UnloadBackend, UnloadTo, CalmAgrees, CalmAlone,
         Instance, PathOf
  <2>7. ActiveAgrees'
    BY <1>4 DEF HChanging, UnloadBackend, UnloadTo, ActiveAgrees, OnePending,
         Target, Instance, PathOf
  <2>8. ActiveWasLoaded'
    BY <1>4 DEF HChanging, UnloadBackend, UnloadTo, ActiveWasLoaded,
         PendingLoaded, PathOf
  <2>9. IsolatedServe'
    BY <1>4 DEF HChanging, UnloadBackend, UnloadTo, IsolatedServe, Instance,
         PathOf
  <2> QED BY <1>t, <2>1, <2>2, <2>3, <2>4, <2>5, <2>6, <2>7, <2>8, <2>9
<1>5. ASSUME NEW p \in Clients, HOther(p), BeginStore(p) PROVE IInv'
  <2>1. BootQuiet' /\ CliHoldsNothing'
    BY <1>5 DEF HOther, BeginStore, BootQuiet, CliHoldsNothing, Serving
  <2>2. LockHeld'
    BY <1>5 DEF HOther, BeginStore, LockHeld
  <2>3. OnePending'
    BY <1>5 DEF HOther, BeginStore, OnePending, Target, Instance, PathOf
  <2>4. PendingLoaded' /\ UnloadNamesNone'
    BY <1>5 DEF HOther, BeginStore, PendingLoaded, UnloadNamesNone, PathOf,
         IsInference
  <2>5. CalmAlone'
    BY <1>5 DEF HOther, BeginStore, CalmAlone
  <2>6. CalmAgrees'
    BY <1>5 DEF HOther, BeginStore, CalmAgrees, CalmAlone, Instance, PathOf
  <2>7. ActiveAgrees'
    BY <1>5 DEF HOther, BeginStore, ActiveAgrees, OnePending, Target,
         Instance, PathOf
  <2>8. ActiveWasLoaded'
    BY <1>5 DEF HOther, BeginStore, ActiveWasLoaded, PendingLoaded, PathOf
  <2>9. IsolatedServe'
    BY <1>5 DEF HOther, BeginStore, IsolatedServe, Instance, PathOf
  <2> QED BY <1>t, <2>1, <2>2, <2>3, <2>4, <2>5, <2>6, <2>7, <2>8, <2>9
<1>6. ASSUME NEW p \in Clients, HOther(p), LoadFails(p) PROVE IInv'
  <2>1. BootQuiet' /\ CliHoldsNothing'
    BY <1>6 DEF HOther, LoadFails, BootQuiet, CliHoldsNothing, Serving
  <2>2. LockHeld'
    BY <1>6 DEF HOther, LoadFails, LockHeld
  <2>3. OnePending'
    BY <1>6 DEF HOther, LoadFails, OnePending, Target, Instance, PathOf
  <2>4. PendingLoaded' /\ UnloadNamesNone'
    BY <1>6 DEF HOther, LoadFails, PendingLoaded, UnloadNamesNone, PathOf,
         IsInference
  <2>5. CalmAlone'
    BY <1>6 DEF HOther, LoadFails, CalmAlone
  <2>6. CalmAgrees'
    BY <1>6 DEF HOther, LoadFails, CalmAgrees, CalmAlone, Instance, PathOf
  <2>7. ActiveAgrees'
    BY <1>6 DEF HOther, LoadFails, ActiveAgrees, OnePending, Target,
         Instance, PathOf
  <2>8. ActiveWasLoaded'
    BY <1>6 DEF HOther, LoadFails, ActiveWasLoaded, PendingLoaded, PathOf
  <2>9. IsolatedServe'
    BY <1>6 DEF HOther, LoadFails, IsolatedServe, Instance, PathOf
  <2> QED BY <1>t, <2>1, <2>2, <2>3, <2>4, <2>5, <2>6, <2>7, <2>8, <2>9
<1>7. ASSUME NEW p \in Clients, HOther(p), EndStore(p) PROVE IInv'
  <2>1. BootQuiet' /\ CliHoldsNothing'
    BY <1>7 DEF HOther, EndStore, StoreAs, BootQuiet, CliHoldsNothing, Serving
  <2>2. LockHeld'
    BY <1>7 DEF HOther, EndStore, StoreAs, LockHeld
  <2>3. OnePending'
    BY <1>7 DEF HOther, EndStore, StoreAs, OnePending, Target, Instance, PathOf
  <2>4. PendingLoaded' /\ UnloadNamesNone'
    BY <1>7 DEF HOther, EndStore, StoreAs, PendingLoaded, UnloadNamesNone,
         PathOf, IsInference
  <2>5. CalmAlone'
    BY <1>7 DEF HOther, EndStore, StoreAs, CalmAlone, OnePending
  <2>6. CalmAgrees'
    BY <1>7 DEF HOther, EndStore, StoreAs, CalmAgrees, CalmAlone, OnePending,
         PendingLoaded, Target, Instance, PathOf, IsInference
  <2>7. ActiveAgrees'
    BY <1>7 DEF HOther, EndStore, StoreAs, ActiveAgrees, OnePending, Target,
         Instance, PathOf, LockHeld
  <2>8. ActiveWasLoaded'
    BY <1>7 DEF HOther, EndStore, StoreAs, ActiveWasLoaded, PendingLoaded,
         PathOf
  <2>9. IsolatedServe'
    BY <1>7 DEF HOther, EndStore, StoreAs, IsolatedServe, Instance, PathOf,
         IsInference
  <2> QED BY <1>t, <2>1, <2>2, <2>3, <2>4, <2>5, <2>6, <2>7, <2>8, <2>9
<1>8. ASSUME NEW p \in Clients, HOther(p),
            Lookup(p) \/ AutoLoad(p) \/ NoModelGiven(p) \/ ReadHalfStored(p)
      PROVE IInv'
  <2>1. Move(p)
    BY <1>8 DEF Move, HOther, Lookup, AutoLoad, NoModelGiven, ReadHalfStored
  <2>2. SharedInv'
    BY <2>1, MoveStep
  <2>3. \/ UNCHANGED result /\ (\E l \in {"lookup", "load", "unload"} : Goto(p, l))
        \/ Answer(p, "refused", None) \/ Answer(p, "aborted", None)
    BY <1>8, Zenon DEF Lookup, AutoLoad, NoModelGiven, ReadHalfStored
  <2>4. CalmAgrees'
    BY <2>1, <2>3 DEF Move, CalmAgrees, Instance, PathOf
  <2>5. IsolatedServe'
    BY <2>1, <2>3 DEF Move, IsolatedServe, Instance, PathOf
  <2> QED BY <1>t, <2>2, <2>4, <2>5 DEF SharedInv
<1>9. ASSUME NEW p \in Clients, HOther(p), SkipLoad(p) PROVE IInv'
  <2>1. Move(p)
    BY <1>9 DEF Move, HOther, SkipLoad
  <2>2. SharedInv'
    BY <2>1, MoveStep
  <2>3. ASSUME p \in calm, ~FromHub(p)
        PROVE  name[p] # None /\ loaded \in {None, Instance(name[p])}
    <3>1. ~clash /\ NoneChanged /\ writer = None
      BY <1>9, <2>3 DEF CalmAlone, LockHeld, SkipLoad
    <3>2. FoundActive(p) = {name[p] = activeModel}
      BY <3>1 DEF FoundActive
    <3>3. name[p] # None /\ TRUE \in FoundActive(p)
      BY <1>9, <2>3, Zenon DEF SkipLoad
    <3>4. name[p] = activeModel
      BY <3>2, <3>3
    <3> QED BY <3>1, <3>3, <3>4 DEF ActiveAgrees, Target
  <2>4. CalmAgrees'
    BY <2>1, <2>3 DEF Move, CalmAgrees, FromHub, Instance, PathOf
  <2>5. IsolatedServe'
    BY <1>9, <2>1 DEF Move, SkipLoad, IsolatedServe, Instance, PathOf
  <2> QED BY <1>t, <2>2, <2>4, <2>5 DEF SharedInv
<1>10. ASSUME NEW p \in Clients, HOther(p), Dispatching(p) PROVE IInv'
  <2>1. Move(p)
    BY <1>10 DEF Move, HOther, Dispatching, NotRegistered, Serve,
         ServeNotLoaded, ServeFails, ReachesBackend
  <2>2. SharedInv'
    BY <2>1, MoveStep
  <2>3. CalmAgrees'
    BY <1>10, <2>1 DEF Move, Dispatching, NotRegistered, Serve, ServeNotLoaded,
         ServeFails, CalmAgrees, Instance, PathOf
  <2>4. CASE NotRegistered(p) \/ ServeNotLoaded(p) \/ ServeFails(p)
    <3>1. IsolatedServe'
      BY <2>1, <2>4 DEF Move, NotRegistered, ServeNotLoaded, ServeFails,
           IsolatedServe, Instance, PathOf
    <3> QED BY <1>t, <2>2, <2>3, <3>1 DEF SharedInv
  <2>5. CASE Serve(p)
    <3>1. IsolatedServe'
      BY <2>1, <2>5 DEF Move, Serve, ReachesBackend, IsolatedServe, CalmAgrees,
           CliInstance, Known, Instance, PathOf
    <3> QED BY <1>t, <2>2, <2>3, <3>1 DEF SharedInv
  <2> QED BY <1>10, <2>4, <2>5 DEF Dispatching
<1>11. CASE HBoot
  <2>1. /\ ~Serving
        /\ \A p \in Clients : pc[p] = "idle"
        /\ calm = {} /\ loaded = None /\ activeModel = None
        /\ UNCHANGED <<activeModel, writer, loaded, pc, req, name, result,
                       clash, calm>>
    BY <1>11 DEF HBoot, Boot, RegisterConfig, RegisterModel, BootQuiet, Serving
  <2>2. BootQuiet' /\ CliHoldsNothing' /\ LockHeld' /\ UnloadNamesNone'
    BY <2>1 DEF BootQuiet, CliHoldsNothing, LockHeld, UnloadNamesNone
  <2>3. OnePending' /\ PendingLoaded' /\ CalmAlone' /\ CalmAgrees'
    BY <2>1 DEF OnePending, PendingLoaded, CalmAlone, CalmAgrees
  <2>4. ActiveAgrees' /\ ActiveWasLoaded' /\ IsolatedServe'
    BY <2>1 DEF ActiveAgrees, ActiveWasLoaded, IsolatedServe
  <2> QED BY <1>t, <2>2, <2>3, <2>4
<1>12. CASE UNCHANGED hvars
  <2> USE <1>12 DEF hvars, vars
  <2>1. BootQuiet' /\ CliHoldsNothing' /\ LockHeld' /\ UnloadNamesNone'
    BY DEF BootQuiet, CliHoldsNothing, LockHeld, UnloadNamesNone, Serving,
         IsInference
  <2>2. OnePending' /\ PendingLoaded' /\ CalmAlone' /\ CalmAgrees'
    BY DEF OnePending, PendingLoaded, CalmAlone, CalmAgrees, Target, Instance,
         PathOf, IsInference
  <2>3. ActiveAgrees' /\ ActiveWasLoaded' /\ IsolatedServe'
    BY DEF ActiveAgrees, ActiveWasLoaded, IsolatedServe, Target, Instance,
         PathOf
  <2> QED BY <1>t, <2>1, <2>2, <2>3
<1> QED BY <1>1, <1>2, <1>3, <1>4, <1>5, <1>6, <1>7, <1>8, <1>9, <1>10,
          <1>11, <1>12
       DEF HNext, HStep, HChanging, Changing, HOther, Checking

-----------------------------------------------------------------------------
(***************************************************************************)
(* The inductive invariant holds in every state.                           *)
(***************************************************************************)
THEOREM Invariant == HSpec => []IInv
<1> QED BY IInvInit, IInvStep, PTL DEF HSpec

(***************************************************************************)
(* A request that no other request's load or unload overtakes is answered  *)
(* by the model it asked for; with llama-cli every request is.             *)
(***************************************************************************)
THEOREM Isolation == HSpec => []IsolatedServe
<1>1. IInv => IsolatedServe
  BY DEF IInv
<1> QED BY <1>1, Invariant, PTL

(***************************************************************************)
(* Between changes that did not overlap, the Engine's active model is what *)
(* the backend holds, unless the backend holds nothing.                    *)
(***************************************************************************)
THEOREM Agreement == HSpec => []ActiveAgrees
<1>1. IInv => ActiveAgrees
  BY DEF IInv
<1> QED BY <1>1, Invariant, PTL

(***************************************************************************)
(* Only a model whose file the backend accepted becomes active.            *)
(***************************************************************************)
THEOREM ActiveAccepted == HSpec => []ActiveWasLoaded
<1>1. IInv => ActiveWasLoaded
  BY DEF IInv
<1> QED BY <1>1, Invariant, PTL

-----------------------------------------------------------------------------
(***************************************************************************)
(* A step of the Engine after which the history variables are c and k, as  *)
(* HNext would record them: their old values appear, their new ones do not.*)
(***************************************************************************)
Recorded(c, k) ==
    \/ Boot /\ c = clash /\ k = calm
    \/ \E p \in Clients :
         \/ Arrive(p) /\ c = clash /\ k = calm \ {p}
         \/ /\ Snapshot(p)
            /\ c = clash
            /\ k = IF NoneChanged /\ ~clash THEN calm \union {p} ELSE calm \ {p}
         \/ Changing(p) /\ c = ~NoneChanged /\ k = calm \intersect {p}
         \/ /\ \/ Lookup(p) \/ BeginStore(p) \/ Checking(p)
               \/ LoadFails(p) \/ EndStore(p) \/ Dispatching(p)
            /\ c = clash /\ k = calm

\* HNext is a recorded step.
LEMMA RecordedIsHNext == HNext <=> Recorded(clash', calm')
<1>1. HBoot <=> Boot /\ clash' = clash /\ calm' = calm
  BY DEF HBoot
<1>2. ASSUME NEW p \in Clients
      PROVE  /\ HArrive(p) <=> Arrive(p) /\ clash' = clash /\ calm' = calm \ {p}
             /\ HSnapshot(p) <=>
                  /\ Snapshot(p)
                  /\ clash' = clash
                  /\ calm' = IF NoneChanged /\ ~clash THEN calm \union {p}
                                                       ELSE calm \ {p}
             /\ HChanging(p) <=> /\ Changing(p)
                                 /\ clash' = ~NoneChanged
                                 /\ calm' = calm \intersect {p}
             /\ HOther(p) <=>
                  /\ \/ Lookup(p) \/ BeginStore(p) \/ Checking(p)
                     \/ LoadFails(p) \/ EndStore(p) \/ Dispatching(p)
                  /\ clash' = clash /\ calm' = calm
  BY Zenon DEF HArrive, HSnapshot, HChanging, HOther
<1> QED BY <1>1, <1>2, Zenon DEF HNext, HStep, Recorded

(***************************************************************************)
(* The history variables restrict nothing.  HNext is a recorded step; and  *)
(* whatever they hold, every step of the module Engine can be recorded, and*)
(* every initial state of Engine is one of HSpec with the first history.   *)
(* So every behaviour of Spec is one of HSpec when clash and calm are added*)
(* to it, state by state: what is proved of HSpec and does not name them   *)
(* holds of engine.go as modelled.                                         *)
(***************************************************************************)
THEOREM HistoryRestrictsNothing ==
    ASSUME TypeOK
    PROVE  /\ HInit <=> Init /\ clash = FALSE /\ calm = {}
           /\ HNext <=> Recorded(clash', calm')
           /\ Next => \E c \in BOOLEAN, k \in SUBSET Clients : Recorded(c, k)
<1>1. HInit <=> Init /\ clash = FALSE /\ calm = {}
  BY DEF HInit
<1>2. clash \in BOOLEAN /\ calm \in SUBSET Clients /\ (~NoneChanged) \in BOOLEAN
  BY DEF TypeOK, NoneChanged
<1>3. ASSUME Next PROVE \E c \in BOOLEAN, k \in SUBSET Clients : Recorded(c, k)
  <2>1. CASE Boot
    <3>1. Recorded(clash, calm)
      BY <2>1, Zenon DEF Recorded
    <3> QED BY <1>2, <3>1, Zenon
  <2>2. ASSUME NEW p \in Clients, Arrive(p) \/ Step(p)
        PROVE  \E c \in BOOLEAN, k \in SUBSET Clients : Recorded(c, k)
    <3>1. CASE Arrive(p)
      <4>1. Recorded(clash, calm \ {p})
        BY <3>1, Zenon DEF Recorded
      <4>2. calm \ {p} \in SUBSET Clients
        BY <1>2
      <4> QED BY <1>2, <4>1, <4>2, Zenon
    <3>2. CASE Snapshot(p)
      <4> DEFINE k == IF NoneChanged /\ ~clash THEN calm \union {p} ELSE calm \ {p}
      <4>1. Recorded(clash, k)
        BY <3>2, Zenon DEF Recorded
      <4>2. k \in SUBSET Clients
        BY <1>2
      <4> QED BY <1>2, <4>1, <4>2, Zenon
    <3>3. CASE Changing(p)
      <4>1. Recorded(~NoneChanged, calm \intersect {p})
        BY <3>3, Zenon DEF Recorded
      <4>2. calm \intersect {p} \in SUBSET Clients
        BY <1>2
      <4> QED BY <1>2, <4>1, <4>2, Zenon
    <3>4. CASE \/ Lookup(p) \/ BeginStore(p) \/ Checking(p)
               \/ LoadFails(p) \/ EndStore(p) \/ Dispatching(p)
      <4>1. Recorded(clash, calm)
        BY <3>4, Zenon DEF Recorded
      <4> QED BY <1>2, <4>1, Zenon
    <3> QED BY <2>2, <3>1, <3>2, <3>3, <3>4, Zenon DEF Step, Locking
  <2> QED BY <1>3, <2>1, <2>2, Zenon DEF Next
<1> QED BY <1>1, <1>3, RecordedIsHNext
=============================================================================
