------------------------------- MODULE Engine -------------------------------
(***************************************************************************)
(* The request coordinator of Gllama (internal/engine/engine.go): the      *)
(* model catalogue, the name of the active model and the auto-load that    *)
(* precedes an inference.  Every HTTP request runs in a goroutine of its   *)
(* own and enters the Engine through Generate or Stream (their control is  *)
(* the same: "generate", or "hf" when the options name a Hugging Face      *)
(* repository), Embed, LoadModel or UnloadModel.  The mutex e.mu is held   *)
(* for single reads and single stores only, so requests interleave between *)
(* any two of the steps below.                                             *)
(*                                                                         *)
(* A backend call is one step here: CGOBackend holds its own mutex for the *)
(* whole call (module CgoBackend), and CLIBackend keeps no state.          *)
(***************************************************************************)

CONSTANTS Clients,      \* requests in flight, one goroutine each
          Names,        \* model names, "" excluded
          Paths,        \* paths of model files
          Profiles,     \* distinguishable `options` sections of the configs
          Files,        \* what the backend can load: a name is tried as a path
          ConfigFiles,  \* the parsed configs/*.yaml
          ModelFiles,   \* the models/*.gguf
          Backend,      \* "cgo" or "cli" (the -backend flag)
          Ops,          \* the operations clients ask for
          None          \* "" for a name or a path, nil for a pointer

(***************************************************************************)
(* LoadConfigsFromDir returns a map keyed by name, so a name has at most   *)
(* one config; a config need not give a path.                              *)
(***************************************************************************)
ASSUME EngineAssumption ==
    /\ None \notin Clients \union Names \union Paths \union Profiles
    /\ Files \subseteq Names \union Paths
    /\ ConfigFiles \subseteq
         [name: Names, path: Paths \union {None}, profile: Profiles]
    /\ \A c, d \in ConfigFiles : c.name = d.name => c = d
    /\ ModelFiles \subseteq [name: Names, path: Paths]
    /\ Backend \in {"cgo", "cli"}
    /\ Ops \subseteq {"generate", "hf", "embed", "load", "unload"}
    /\ None \notin Ops

VARIABLES
    models,        \* e.models: name -> path
    modelConfigs,  \* e.modelConfigs: name -> options of the config
    unregistered,  \* directory entries main has yet to register
    activeModel,   \* e.activeModel
    writer,        \* the goroutine storing e.activeModel under e.mu
    loaded,        \* what the backend holds (b.model, b.ctx)
    pc,            \* where a request stands
    req,           \* what it asked for: the operation and opts.Model
    name,          \* its modelName, or LoadModel's argument
    result         \* its answer

vars == <<models, modelConfigs, unregistered, activeModel, writer, loaded,
          pc, req, name, result>>
catalogue == <<models, modelConfigs, unregistered>>

Requests == [op: Ops \union {None}, model: Names \union {None}]
Instances == [path: Names \union Paths \union {None},
              profile: Profiles \union {None}]
Statuses == {"ok", "refused", "failed", "notloaded", "aborted"}
Results == [status: Statuses \union {None}, served: Instances \union {None}]

Locations == {"idle", "snapshot", "check", "lookup", "load", "unload",
              "acquire", "storing", "dispatch", "done"}

Serving == unregistered = {}
Quiescent(p) == pc[p] \in {"idle", "done"}
IsInference(p) == req[p].op \in {"generate", "hf", "embed"}
FromHub(p) == req[p].op = "hf"

PathOf(n) == IF n \in Names /\ models[n] # None THEN models[n] ELSE n

\* What CGOBackend.LoadModel builds for the name n: the file at its path with
\* the load options of its config (defaults if it has none).
Instance(n) == [path |-> PathOf(n), profile |-> modelConfigs[n]]

NoRequest == [op |-> None, model |-> None]
NoResult == [status |-> None, served |-> None]

Init ==
    /\ models = [n \in Names |-> None]
    /\ modelConfigs = [n \in Names |-> None]
    /\ unregistered = ConfigFiles \union ModelFiles
    /\ activeModel = None
    /\ writer = None
    /\ loaded = None
    /\ pc = [p \in Clients |-> "idle"]
    /\ req = [p \in Clients |-> NoRequest]
    /\ name = [p \in Clients |-> None]
    /\ result = [p \in Clients |-> NoResult]

-----------------------------------------------------------------------------
(***************************************************************************)
(* Start-up: main registers every config, then every model file, and only  *)
(* then starts the server.                                                 *)
(***************************************************************************)
RegisterConfig(c) ==
    /\ c \in unregistered
    /\ unregistered' = unregistered \ {c}
    /\ modelConfigs' = [modelConfigs EXCEPT ![c.name] = c.profile]
    /\ models' = IF c.path # None THEN [models EXCEPT ![c.name] = c.path]
                                  ELSE models
    /\ UNCHANGED <<activeModel, writer, loaded, pc, req, name, result>>

RegisterModel(m) ==
    /\ m \in unregistered
    /\ unregistered \intersect ConfigFiles = {}
    /\ unregistered' = unregistered \ {m}
    /\ models' = [models EXCEPT ![m.name] = m.path]
    /\ UNCHANGED <<modelConfigs, activeModel, writer, loaded, pc, req, name,
                   result>>

-----------------------------------------------------------------------------
Goto(p, l) == pc' = [pc EXCEPT ![p] = l]

Answer(p, status, served) ==
    /\ Goto(p, "done")
    /\ result' = [result EXCEPT ![p] = [status |-> status, served |-> served]]

\* A request reaches its handler.  /api/models/load accepts an empty name.
Arrive(p) ==
    /\ Serving
    /\ Quiescent(p)
    /\ \E op \in Ops, m \in Names \union {None} :
         /\ op = "unload" => m = None
         /\ req' = [req EXCEPT ![p] = [op |-> op, model |-> m]]
         /\ name' = [name EXCEPT ![p] = IF op = "load" THEN m ELSE None]
         /\ Goto(p, IF op \in {"load", "unload"} THEN "lookup" ELSE "snapshot")
    /\ result' = [result EXCEPT ![p] = NoResult]
    /\ UNCHANGED <<catalogue, activeModel, writer, loaded>>

\* The section under RLock: the model asked for, or the active one.
Snapshot(p) ==
    /\ pc[p] = "snapshot"
    /\ writer = None
    /\ name' = [name EXCEPT ![p] = IF req[p].model # None THEN req[p].model
                                                          ELSE activeModel]
    /\ Goto(p, "check")
    /\ UNCHANGED <<catalogue, activeModel, writer, loaded, req, result>>

(***************************************************************************)
(* The comparison with e.activeModel is made after RUnlock.  It races with *)
(* the store under e.mu: a string is two words, stored one after the       *)
(* other, so while a store is under way the comparison can come out either *)
(* way, and dereferences nil when the half-stored string has the length of *)
(* a name and the pointer of "" (net/http recovers the panic and drops the *)
(* connection).                                                            *)
(***************************************************************************)
FoundActive(p) == IF writer = None THEN {name[p] = activeModel} ELSE BOOLEAN

NoModelGiven(p) ==
    /\ pc[p] = "check"
    /\ name[p] = None /\ ~FromHub(p)
    /\ Answer(p, "refused", None)
    /\ UNCHANGED <<catalogue, activeModel, writer, loaded, req, name>>

AutoLoad(p) ==
    /\ pc[p] = "check"
    /\ name[p] # None /\ ~FromHub(p)
    /\ FALSE \in FoundActive(p)
    /\ Goto(p, "lookup")
    /\ UNCHANGED <<catalogue, activeModel, writer, loaded, req, name, result>>

SkipLoad(p) ==
    /\ pc[p] = "check"
    /\ \/ FromHub(p)
       \/ name[p] # None /\ TRUE \in FoundActive(p)
    /\ Goto(p, "dispatch")
    /\ UNCHANGED <<catalogue, activeModel, writer, loaded, req, name, result>>

ReadHalfStored(p) ==
    /\ pc[p] = "check"
    /\ name[p] # None
    /\ writer # None
    /\ (activeModel = None) # (name[writer] = None)
    /\ Answer(p, "aborted", None)
    /\ UNCHANGED <<catalogue, activeModel, writer, loaded, req, name>>

-----------------------------------------------------------------------------
(***************************************************************************)
(* LoadModel and UnloadModel: e.mu is released during the backend call.    *)
(***************************************************************************)
Lookup(p) ==
    /\ pc[p] = "lookup"
    /\ writer = None
    /\ Goto(p, IF req[p].op = "unload" THEN "unload" ELSE "load")
    /\ UNCHANGED <<catalogue, activeModel, writer, loaded, req, name, result>>

\* CGOBackend frees the old model first and keeps the new one; CLIBackend
\* only looks whether the file is there.
LoadTo(p, instance) ==
    /\ pc[p] = "load"
    /\ name[p] # None /\ PathOf(name[p]) \in Files
    /\ loaded' = IF Backend = "cgo" THEN instance ELSE loaded
    /\ Goto(p, "acquire")
    /\ UNCHANGED <<catalogue, activeModel, writer, req, name, result>>

\* Mutant: a backend that already holds a model keeps it.
LoadKeepsOld(p) ==
    LoadTo(p, IF loaded = None THEN Instance(name[p]) ELSE loaded)

LoadSucceeds(p) == LoadTo(p, Instance(name[p]))

\* Mutant: the error of b.LoadModel is dropped.
LoadErrorDropped(p) ==
    /\ pc[p] = "load"
    /\ loaded' = IF Backend = "cgo" THEN None ELSE loaded
    /\ Goto(p, "acquire")
    /\ UNCHANGED <<catalogue, activeModel, writer, req, name, result>>

\* A missing or unreadable file, or no memory for the context.  By then
\* CGOBackend has freed the old model; e.activeModel keeps its name.
LoadFails(p) ==
    /\ pc[p] = "load"
    /\ loaded' = IF Backend = "cgo" THEN None ELSE loaded
    /\ Answer(p, "failed", None)
    /\ UNCHANGED <<catalogue, activeModel, writer, req, name>>

\* CLIBackend.CurrentCmd is never set, so its UnloadModel does nothing.
UnloadTo(p, instance) ==
    /\ pc[p] = "unload"
    /\ loaded' = IF Backend = "cgo" THEN instance ELSE loaded
    /\ Goto(p, "acquire")
    /\ UNCHANGED <<catalogue, activeModel, writer, req, name, result>>

\* Mutant: the unload never reaches CGOBackend.
UnloadNothing(p) == UnloadTo(p, loaded)

UnloadBackend(p) == UnloadTo(p, None)

BeginStore(p) ==
    /\ pc[p] = "acquire"
    /\ writer = None
    /\ writer' = p
    /\ Goto(p, "storing")
    /\ UNCHANGED <<catalogue, activeModel, loaded, req, name, result>>

StoreAs(p, stored, holder) ==
    /\ pc[p] = "storing"
    /\ activeModel' = stored
    /\ writer' = holder
    /\ IF IsInference(p) THEN Goto(p, "dispatch") /\ UNCHANGED result
                         ELSE Answer(p, "ok", None)
    /\ UNCHANGED <<catalogue, loaded, req, name>>

\* Mutants: LoadModel stores the path where the name belongs; the Unlock is
\* missing on the way to an inference.
StorePath(p) == StoreAs(p, PathOf(name[p]), None)
StoreKeepsLock(p) ==
    StoreAs(p, name[p], IF IsInference(p) THEN writer ELSE None)

\* name[p] is None for an unload.
EndStore(p) == StoreAs(p, name[p], None)

-----------------------------------------------------------------------------
(***************************************************************************)
(* The hand-over to the backend.                                           *)
(***************************************************************************)
Known(p) == name[p] # None /\ models[name[p]] # None

\* Mutant: the path is that of whatever model is active by now.
CliInstanceOfActive(p) ==
    [path |-> IF Known(p) /\ activeModel # None
                THEN PathOf(activeModel) ELSE req[p].model,
     profile |-> None]

\* The file that llama-cli is started with (-m); a Hugging Face request for a
\* name that is not in the catalogue passes the name on.
CliInstance(p) ==
    [path |-> IF Known(p) THEN models[name[p]] ELSE req[p].model,
     profile |-> None]

\* Embed makes no such test.
NotRegistered(p) ==
    /\ pc[p] = "dispatch"
    /\ req[p].op = "generate" /\ ~Known(p)
    /\ Answer(p, "refused", None)
    /\ UNCHANGED <<catalogue, activeModel, writer, loaded, req, name>>

ReachesBackend(p) ==
    /\ pc[p] = "dispatch"
    /\ req[p].op \in {"embed", "hf"} \/ Known(p)
    /\ UNCHANGED <<catalogue, activeModel, writer, loaded, req, name>>

Serve(p) ==
    /\ ReachesBackend(p)
    /\ IF Backend = "cgo"
         THEN loaded # None /\ Answer(p, "ok", loaded)
         ELSE req[p].op # "embed" /\ Answer(p, "ok", CliInstance(p))

\* "no model loaded"
ServeNotLoaded(p) ==
    /\ ReachesBackend(p)
    /\ Backend = "cgo" /\ loaded = None
    /\ Answer(p, "notloaded", None)

\* A decode error, a failed process, a cancelled context; embeddings always,
\* with llama-cli.
ServeFails(p) ==
    /\ ReachesBackend(p)
    /\ Backend = "cgo" => loaded # None
    /\ Answer(p, "failed", None)

-----------------------------------------------------------------------------
Locking(p) == Snapshot(p) \/ Lookup(p) \/ BeginStore(p)
Checking(p) ==
    NoModelGiven(p) \/ AutoLoad(p) \/ SkipLoad(p) \/ ReadHalfStored(p)
Changing(p) == LoadSucceeds(p) \/ UnloadBackend(p)
Dispatching(p) ==
    NotRegistered(p) \/ Serve(p) \/ ServeNotLoaded(p) \/ ServeFails(p)

Step(p) == \/ Locking(p) \/ Checking(p) \/ Changing(p) \/ LoadFails(p)
           \/ EndStore(p) \/ Dispatching(p)

Boot == \/ \E c \in ConfigFiles : RegisterConfig(c)
        \/ \E m \in ModelFiles : RegisterModel(m)

Next == Boot \/ \E p \in Clients : Arrive(p) \/ Step(p)

Spec == Init /\ [][Next]_vars

(***************************************************************************)
(* A goroutine runs on while it can, and sync.RWMutex starves neither its  *)
(* readers nor its writers: whoever asks for the lock gets it, although    *)
(* the lock is taken by others in between.                                 *)
(***************************************************************************)
Fairness == \A p \in Clients :
    WF_vars(Step(p)) /\ SF_vars(Locking(p))

FairSpec == Spec /\ Fairness
=============================================================================
