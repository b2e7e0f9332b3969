--------------------------- MODULE EngineIsolation ---------------------------
(***************************************************************************)
(* What the Engine promises to a request while other requests load and     *)
(* unload models.  Two history variables record what the promises depend   *)
(* on and the code does not keep:                                          *)
(*                                                                         *)
(*   clash  the last change of the backend's model was made while another  *)
(*          change waited to be stored in e.activeModel, so the two may be *)
(*          stored in the other order                                      *)
(*   calm   the requests that no other request's change has touched since  *)
(*          they read e.activeModel under the lock                         *)
(***************************************************************************)
EXTENDS Engine

VARIABLES clash, calm

hvars == <<vars, clash, calm>>

\* The backend has changed its model and e.activeModel does not say so yet.
Changed(p) == pc[p] \in {"acquire", "storing"}
NoneChanged == \A p \in Clients : ~Changed(p)

HInit == Init /\ clash = FALSE /\ calm = {}

HArrive(p) == Arrive(p) /\ calm' = calm \ {p} /\ UNCHANGED clash

HSnapshot(p) ==
    /\ Snapshot(p)
    /\ calm' = IF NoneChanged /\ ~clash THEN calm \union {p} ELSE calm \ {p}
    /\ UNCHANGED clash

HChanging(p) ==
    /\ Changing(p)
    /\ clash' = ~NoneChanged
    /\ calm' = calm \intersect {p}

HOther(p) ==
    /\ \/ Lookup(p) \/ BeginStore(p) \/ Checking(p)
       \/ LoadFails(p) \/ EndStore(p) \/ Dispatching(p)
    /\ UNCHANGED <<clash, calm>>

HBoot == Boot /\ UNCHANGED <<clash, calm>>

HStep(p) == HSnapshot(p) \/ HChanging(p) \/ HOther(p)

HNext == HBoot \/ \E p \in Clients : HArrive(p) \/ HStep(p)

HSpec == HInit /\ [][HNext]_hvars

HFairSpec == HSpec /\ \A p \in Clients :
    WF_hvars(HStep(p)) /\ SF_hvars(HStep(p) /\ Locking(p))

-----------------------------------------------------------------------------
Target(n) == IF n = None THEN None ELSE Instance(n)

(***************************************************************************)
(* Types, and the use of the lock: activeModel is being stored by the      *)
(* holder of e.mu and by nobody else.                                      *)
(***************************************************************************)
TypeOK ==
    /\ models \in [Names -> Paths \union {None}]
    /\ modelConfigs \in [Names -> Profiles \union {None}]
    /\ unregistered \subseteq ConfigFiles \union ModelFiles
    /\ activeModel \in Names \union {None}
    /\ writer \in Clients \union {None}
    /\ loaded \in Instances \union {None}
    /\ pc \in [Clients -> Locations]
    /\ req \in [Clients -> Requests]
    /\ name \in [Clients -> Names \union {None}]
    /\ result \in [Clients -> Results]
    /\ clash \in BOOLEAN
    /\ calm \subseteq Clients

(***************************************************************************)
(* Isolation (engine.go, Generate/Stream/Embed): a request that reads      *)
(* e.activeModel while no change is under way, and that no other request's *)
(* load or unload overtakes, is answered by the model and the load options *)
(* of the name it asked for, or by those of the model that was active when *)
(* it named none.  With llama-cli, which is started afresh with the        *)
(* request's own path, this holds of every request.                        *)
(***************************************************************************)
IsolatedServe ==
    \A p \in Clients :
        /\ pc[p] = "done"
        /\ req[p].op \in {"generate", "embed"}
        /\ result[p].status = "ok"
        /\ Backend = "cgo" => p \in calm
        => /\ name[p] # None
           /\ result[p].served.path = PathOf(name[p])
           /\ Backend = "cgo" => result[p].served = Instance(name[p])

(***************************************************************************)
(* Agreement of the Engine with its backend (engine.go LoadModel,          *)
(* UnloadModel): when no change waits to be stored, and the last one was   *)
(* not made during another, the backend holds the active model, or none.   *)
(***************************************************************************)
ActiveAgrees ==
    NoneChanged /\ ~clash => loaded \in {None, Target(activeModel)}

(***************************************************************************)
(* The active model is one the backend has accepted: a name never becomes  *)
(* active without a successful load of its file (engine.go:70-76).         *)
(***************************************************************************)
ActiveWasLoaded == activeModel # None => PathOf(activeModel) \in Files

(***************************************************************************)
(* Every request is answered, whatever the others do.                      *)
(***************************************************************************)
EveryRequestAnswered ==
    \A p \in Clients : ~Quiescent(p) ~> pc[p] = "done"

(***************************************************************************)
(* engine.go:118, "Auto-load if not the active model": an inference that   *)
(* succeeds has been made by the model it asked for.                       *)
(***************************************************************************)
ServedByRequestedModel ==
    \A p \in Clients :
        /\ pc[p] = "done"
        /\ req[p].op \in {"generate", "embed"}
        /\ result[p].status = "ok"
        => result[p].served.path = PathOf(name[p])

(***************************************************************************)
(* When nothing is in progress, a model that is active is one that the     *)
(* backend can serve.                                                      *)
(***************************************************************************)
ActiveIsServable ==
    (\A p \in Clients : Quiescent(p)) /\ activeModel # None => loaded # None
=============================================================================
