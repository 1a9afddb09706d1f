------------------------------ MODULE Registry ------------------------------
(***************************************************************************)
(* The two registries of loaded models: the map of internal/model/model.go *)
(* and the one of the ONNX engine. The model handlers update them one      *)
(* after the other, each under its own lock (LoadModelWithTracing and      *)
(* UnloadModelWithTracing of onnx_runtime.go), so that requests interleave *)
(* between the two. What the engine does inside its lock is OnnxEngine.    *)
(*                                                                         *)
(* A name is an id and a version without ':' (docs/API.md:29), so that     *)
(* names and the keys id:version correspond.                               *)
(***************************************************************************)
CONSTANTS
    Id, Version, NoVersion,  \* NoVersion is the empty string
    Request                  \* handler goroutines

ASSUME RegistryAssumption == NoVersion \notin Version

Name == Id \X (Version \cup {NoVersion})

VARIABLES
    manager,   \* the keys of ModelManager.models
    engine,    \* the keys of e.models
    step,      \* where each handler is
    name,      \* the model it loads or unloads
    refused,   \* history: registered by a load that failed afterwards
    overlap    \* history: loaded and unloaded at the same time

rvars == <<manager, engine, step, name, refused, overlap>>

RegistryTypeOK ==
    /\ manager \subseteq Name
    /\ engine \subseteq Name
    /\ step \in [Request -> {"idle", "checked", "registered", "unregistered"}]
    /\ name \in [Request -> Name]
    /\ refused \subseteq Name
    /\ overlap \subseteq Name

RegistryInit ==
    /\ manager = {}
    /\ engine = {}
    /\ step = [r \in Request |-> "idle"]
    /\ name \in [Request -> Name]
    /\ refused = {}
    /\ overlap = {}

(* The handlers of a model that are between the two updates. *)
Loading(n) == {r \in Request : step[r] = "registered" /\ name[r] = n}
Unloading(n) == {r \in Request : step[r] = "unregistered" /\ name[r] = n}

MeetsAny(n, handlers) == IF handlers = {} THEN overlap ELSE overlap \cup {n}

Return(r) == step' = [step EXCEPT ![r] = "idle"] /\ UNCHANGED name

-----------------------------------------------------------------------------
(* POST /models: the engine has the model, 409. *)
LoadConflict(r, n) ==
    /\ step[r] = "idle"
    /\ n \in engine
    /\ UNCHANGED rvars

(* The engine does not have it, the handler goes on. *)
LoadCheck(r, n) ==
    /\ step[r] = "idle"
    /\ n \notin engine
    /\ step' = [step EXCEPT ![r] = "checked"]
    /\ name' = [name EXCEPT ![r] = n]
    /\ UNCHANGED <<manager, engine, refused, overlap>>

(* The manager knows the model, or cannot read its file: 500. *)
ManagerRefuses(r) ==
    /\ step[r] = "checked"
    /\ Return(r)
    /\ UNCHANGED <<manager, engine, refused, overlap>>

(* A bug: ModelManager.LoadModel without the check for an existing key. *)
BugManagerOverwrites(r) ==
    /\ step[r] = "checked"
    /\ manager' = manager \cup {name[r]}
    /\ step' = [step EXCEPT ![r] = "registered"]
    /\ overlap' = MeetsAny(name[r], Unloading(name[r]))
    /\ UNCHANGED <<engine, name, refused>>

(* ModelManager.LoadModel: checksum and registration. The handler passes no *)
(* metadata, so that the verification of a signature is not asked for.     *)
ManagerLoads(r) ==
    /\ step[r] = "checked"
    /\ name[r] \notin manager
    /\ manager' = manager \cup {name[r]}
    /\ step' = [step EXCEPT ![r] = "registered"]
    /\ overlap' = MeetsAny(name[r], Unloading(name[r]))
    /\ UNCHANGED <<engine, name, refused>>

(* ONNXRuntimeEngine.LoadModel returns an error, because it has the model  *)
(* or cannot load the file: the registration stays.                        *)
EngineRefuses(r) ==
    /\ step[r] = "registered"
    /\ refused' = refused \cup {name[r]}
    /\ Return(r)
    /\ UNCHANGED <<manager, engine, overlap>>

EngineLoads(r) ==
    /\ step[r] = "registered"
    /\ name[r] \notin engine
    /\ engine' = engine \cup {name[r]}
    /\ Return(r)
    /\ UNCHANGED <<manager, refused, overlap>>

-----------------------------------------------------------------------------
(* DELETE, with or without a version in the path: the handler passes no    *)
(* version.                                                                *)
Target(n) == <<n[1], NoVersion>>

(* ModelManager.UnloadModel does not know the model: 404. *)
UnloadUnknown(r, n) ==
    /\ step[r] = "idle"
    /\ Target(n) \notin manager
    /\ UNCHANGED rvars

(* ModelManager.UnloadModel removes it. *)
ManagerUnloads(r, n) ==
    /\ step[r] = "idle"
    /\ Target(n) \in manager
    /\ manager' = manager \ {Target(n)}
    /\ refused' = refused \ {Target(n)}
    /\ step' = [step EXCEPT ![r] = "unregistered"]
    /\ name' = [name EXCEPT ![r] = Target(n)]
    /\ overlap' = MeetsAny(Target(n), Loading(Target(n)))
    /\ UNCHANGED engine

(* A bug: the second step is skipped when the handler's client has left. *)
BugEngineKeeps(r) ==
    /\ step[r] = "unregistered"
    /\ Return(r)
    /\ UNCHANGED <<manager, engine, refused, overlap>>

(* ONNXRuntimeEngine.UnloadModel: 404 when the engine has no such model. *)
EngineUnloads(r) ==
    /\ step[r] = "unregistered"
    /\ engine' = engine \ {name[r]}
    /\ Return(r)
    /\ UNCHANGED <<manager, refused, overlap>>

-----------------------------------------------------------------------------
RegistryNext ==
    \E r \in Request :
        \/ \E n \in Name :
              \/ LoadConflict(r, n)
              \/ LoadCheck(r, n)
              \/ UnloadUnknown(r, n)
              \/ ManagerUnloads(r, n)
        \/ ManagerRefuses(r)
        \/ ManagerLoads(r)
        \/ EngineRefuses(r)
        \/ EngineLoads(r)
        \/ EngineUnloads(r)

RegistrySpec == RegistryInit /\ [][RegistryNext]_rvars

-----------------------------------------------------------------------------
(* The registries agree on a model that nobody is loading or unloading:    *)
(* they can only come apart, and then stay so, when a load fails after its *)
(* registration (until the model is unloaded), or when a load and an       *)
(* unload of the model overlap (onnx_runtime.go:438-453).                  *)
RegistriesAgree ==
    \A n \in Name \ overlap :
        Loading(n) = {} /\ Unloading(n) = {} =>
            (n \in engine <=> n \in manager \ refused)

(* The check of the handler (handlers.go:264) is stale when the model is   *)
(* registered, yet two loads of one model are never both on their way to   *)
(* the engine, unless an unload overlapped.                                *)
LoadersExclusive ==
    \A n \in Name \ overlap : \A q, r \in Loading(n) : q = r
=============================================================================
