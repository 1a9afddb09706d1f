---------------------------- MODULE TFLiteEngine ----------------------------
(***************************************************************************)
(* The TensorFlow Lite engines of internal/inference: the one over the C   *)
(* API (tflite_engine_cgo.go) and the one of a build without it            *)
(* (tflite_engine_mock.go). Both keep two registries: BaseEngine.models    *)
(* (engine.go), by id and version, and their own, by id alone.             *)
(*                                                                         *)
(* LoadModel, UnloadModel and Close hold the engine's lock, Predict holds  *)
(* it only while it looks the model up. A loaded model of the cgo build    *)
(* owns one C interpreter, whose tensors all calls share: a generation.    *)
(* Input data are the call they come from.                                 *)
(***************************************************************************)
EXTENDS Integers

CONSTANTS
    Id, Version, NoVersion,  \* NoVersion is the empty string
    Client,                  \* goroutines that call Predict: the workers
    NoData,                  \* what a tensor holds before its first use
    MaxLoads                 \* bound on the number of loads

ASSUME TFLiteAssumption ==
    /\ NoVersion \notin Version
    /\ NoData \notin Client
    /\ MaxLoads \in Nat

Gen == 1 .. MaxLoads

(* The keys id and id:version of BaseEngine; ids have no ':'. *)
Name == Id \X (Version \cup {NoVersion})

VARIABLES
    build,      \* the build tag
    base,       \* the keys of BaseEngine.models
    models,     \* e.models: the generation under each id, 0 for none
    live,       \* the interpreters that are created and not deleted
    nextGen,    \* the generation that LoadModel makes next
    admin,      \* what the holder of e.mu.Lock() is doing
    aname,      \* the model it loads
    ppc,        \* where each Predict call is
    pgen,       \* tfModel: the generation it found
    input,      \* whose data the input tensor of each interpreter holds
    output,     \* whose result its output tensor holds
    result,     \* whose result each call returned
    irregular,  \* history: the ids with a version, or whose load panicked
    disturbed   \* history: the calls whose interpreter was shared or deleted

adminVars == <<admin, aname, nextGen>>
clientVars == <<ppc, pgen, input, output, result>>
tvars == <<build, base, models, live, adminVars, clientVars, irregular,
           disturbed>>

InProgress(c) == ppc[c] \in {"found", "filled", "invoked"}

Users(g) == {c \in Client : InProgress(c) /\ pgen[c] = g}

TFLiteTypeOK ==
    /\ build \in {"cgo", "mock"}
    /\ base \subseteq Name
    /\ models \in [Id -> Gen \cup {0}]
    /\ live \subseteq Gen
    /\ nextGen \in 1 .. MaxLoads + 1
    /\ admin \in {"free", "loading"}
    /\ aname \in Name
    /\ ppc \in [Client -> {"idle", "found", "filled", "invoked", "fault",
                        "panicked"}]
    /\ pgen \in [Client -> Gen \cup {0}]
    /\ input \in [Gen -> Client \cup {NoData}]
    /\ output \in [Gen -> Client \cup {NoData}]
    /\ result \in [Client -> Client \cup {NoData}]
    /\ irregular \subseteq Id
    /\ disturbed \subseteq Client

(* A fault, or a panic of a worker, ends the process. *)
Alive == \A c \in Client : ppc[c] \notin {"fault", "panicked"}

(* NewTFLiteEngine *)
TFLiteInit ==
    /\ build \in {"cgo", "mock"}
    /\ base = {}
    /\ models = [i \in Id |-> 0]
    /\ live = {}
    /\ nextGen = 1
    /\ admin = "free"
    /\ aname \in Name
    /\ ppc = [c \in Client |-> "idle"]
    /\ pgen = [c \in Client |-> 0]
    /\ input = [g \in Gen |-> NoData]
    /\ output = [g \in Gen |-> NoData]
    /\ result = [c \in Client |-> NoData]
    /\ irregular = {}
    /\ disturbed = {}

-----------------------------------------------------------------------------
(* BaseEngine.LoadModel refuses a key it has. *)
BaseKnows(n) == n \in base

(* BaseEngine.UnloadModel(id, ""), whose error the callers ignore. *)
BaseForgets(ids) == base' = base \ {<<i, NoVersion>> : i \in ids}

(* LoadModel takes the lock and registers the model with the base engine,  *)
(* whose readers need another lock and see it from now on.                 *)
LoadBegin(n) ==
    /\ Alive
    /\ admin = "free"
    /\ ~BaseKnows(n)
    /\ nextGen <= MaxLoads
    /\ base' = base \cup {n}
    /\ admin' = "loading"
    /\ aname' = n
    /\ irregular' = IF n[2] = NoVersion THEN irregular
                                        ELSE irregular \cup {n[1]}
    /\ UNCHANGED <<build, models, live, nextGen, clientVars, disturbed>>

(* A bug: the interpreter is deleted on the way out of a good load too. *)
BugLoadEndDeletes ==
    /\ Alive
    /\ build = "cgo"
    /\ admin = "loading"
    /\ models' = [models EXCEPT ![aname[1]] = nextGen]
    /\ nextGen' = nextGen + 1
    /\ admin' = "free"
    /\ UNCHANGED <<build, base, live, aname, clientVars, irregular, disturbed>>

(* The model is registered under its id, over any other version of it. *)
LoadEnd ==
    /\ Alive
    /\ build = "cgo"
    /\ admin = "loading"
    /\ models' = [models EXCEPT ![aname[1]] = nextGen]
    /\ live' = live \cup {nextGen}
    /\ nextGen' = nextGen + 1
    /\ admin' = "free"
    /\ UNCHANGED <<build, base, aname, clientVars, irregular, disturbed>>

(* The mock makes a model of constants, whatever the file. *)
MockLoadEnd ==
    /\ Alive
    /\ build = "mock"
    /\ admin = "loading"
    /\ models' = [models EXCEPT ![aname[1]] = nextGen]
    /\ nextGen' = nextGen + 1
    /\ admin' = "free"
    /\ UNCHANGED <<build, base, live, aname, clientVars, irregular, disturbed>>

(* A bug: an error path without the roll-back. *)
BugLoadFailsKeeps ==
    /\ Alive
    /\ build = "cgo"
    /\ admin = "loading"
    /\ admin' = "free"
    /\ UNCHANGED <<build, base, models, live, aname, nextGen, clientVars,
                   irregular, disturbed>>

(* The file cannot be read, or the C API refuses it: what was created is   *)
(* deleted, and the base engine forgets the id without its version.        *)
LoadFails ==
    /\ Alive
    /\ build = "cgo"
    /\ admin = "loading"
    /\ BaseForgets({aname[1]})
    /\ admin' = "free"
    /\ UNCHANGED <<build, models, live, aname, nextGen, clientVars, irregular,
                   disturbed>>

(* The file is empty: &data[0] panics, past the roll-back; the deferred    *)
(* Unlock runs and the caller's goroutine recovers.                        *)
LoadPanics ==
    /\ Alive
    /\ build = "cgo"
    /\ admin = "loading"
    /\ admin' = "free"
    /\ irregular' = irregular \cup {aname[1]}
    /\ UNCHANGED <<build, base, models, live, aname, nextGen, clientVars,
                   disturbed>>

(* destroyModel of each id, or the mock's unloadModel. *)
Destroy(ids) ==
    LET gens == {models[i] : i \in ids}
    IN  /\ models' = [i \in Id |-> IF i \in ids THEN 0 ELSE models[i]]
        /\ live' = live \ gens
        /\ BaseForgets(ids)
        /\ disturbed' = disturbed \cup
                        {c \in Client : InProgress(c) /\ pgen[c] \in gens}
        /\ UNCHANGED <<build, adminVars, clientVars, irregular>>

(* UnloadModel ignores the version; an id without a model is an error. *)
UnloadModel(i) ==
    /\ Alive
    /\ build = "cgo"
    /\ admin = "free"
    /\ models[i] # 0
    /\ Destroy({i})

(* The mock passes the id to the base engine, model or not. *)
MockUnloadModel(i) ==
    /\ Alive
    /\ build = "mock"
    /\ admin = "free"
    /\ Destroy({i})

Close ==
    /\ Alive
    /\ admin = "free"
    /\ Destroy({i \in Id : models[i] # 0})

-----------------------------------------------------------------------------
(* Predict looks the model up by its id. The mock answers from constants,  *)
(* so that its calls end here.                                             *)
PredictLookup(c, i) ==
    /\ Alive
    /\ build = "cgo"
    /\ admin = "free"
    /\ ppc[c] = "idle"
    /\ models[i] # 0
    /\ ppc' = [ppc EXCEPT ![c] = "found"]
    /\ pgen' = [pgen EXCEPT ![c] = models[i]]
    /\ result' = [result EXCEPT ![c] = NoData]
    /\ disturbed' = IF Users(models[i]) = {}
                    THEN disturbed \ {c}
                    ELSE disturbed \cup Users(models[i]) \cup {c}
    /\ UNCHANGED <<build, base, models, live, adminVars, input, output,
                   irregular>>

(* What a step of a call on its interpreter leaves alone. *)
PredictFrame ==
    UNCHANGED <<build, base, models, live, adminVars, pgen, irregular,
                disturbed>>

(* TfLiteTensorCopyFromBuffer *)
PredictFill(c) ==
    /\ Alive
    /\ ppc[c] = "found"
    /\ input' = [input EXCEPT ![pgen[c]] = c]
    /\ ppc' = [ppc EXCEPT ![c] = "filled"]
    /\ UNCHANGED <<output, result>>
    /\ PredictFrame

(* A bug: the status of TfLiteInterpreterInvoke is not looked at. *)
BugInvokeUnchecked(c) ==
    /\ Alive
    /\ ppc[c] = "filled"
    /\ \E o \in {input[pgen[c]], output[pgen[c]]} :
           output' = [output EXCEPT ![pgen[c]] = o]
    /\ ppc' = [ppc EXCEPT ![c] = "invoked"]
    /\ UNCHANGED <<input, result>>
    /\ PredictFrame

(* TfLiteInterpreterInvoke *)
PredictInvoke(c) ==
    /\ Alive
    /\ ppc[c] = "filled"
    /\ output' = [output EXCEPT ![pgen[c]] = input[pgen[c]]]
    /\ ppc' = [ppc EXCEPT ![c] = "invoked"]
    /\ UNCHANGED <<input, result>>
    /\ PredictFrame

(* TfLiteTensorCopyToBuffer, and the call returns. *)
PredictRead(c) ==
    /\ Alive
    /\ ppc[c] = "invoked"
    /\ result' = [result EXCEPT ![c] = output[pgen[c]]]
    /\ ppc' = [ppc EXCEPT ![c] = "idle"]
    /\ UNCHANGED <<input, output>>
    /\ PredictFrame

(* The input has a wrong type or size, or the C API reports an error. *)
PredictError(c) ==
    /\ Alive
    /\ InProgress(c)
    /\ ppc' = [ppc EXCEPT ![c] = "idle"]
    /\ UNCHANGED <<input, output, result>>
    /\ PredictFrame

(* The input, or the output tensor, is empty: &inputData[0] or             *)
(* &outputData[0] panics, and no worker recovers.                          *)
PredictPanics(c) ==
    /\ Alive
    /\ ppc[c] \in {"found", "invoked"}
    /\ ppc' = [ppc EXCEPT ![c] = "panicked"]
    /\ UNCHANGED <<input, output, result>>
    /\ PredictFrame

(* The interpreter has been deleted: the call goes on as if it had not, or *)
(* faults.                                                                 *)
PredictFault(c) ==
    /\ Alive
    /\ InProgress(c)
    /\ pgen[c] \notin live
    /\ ppc' = [ppc EXCEPT ![c] = "fault"]
    /\ UNCHANGED <<input, output, result>>
    /\ PredictFrame

-----------------------------------------------------------------------------
PredictStep(c) ==
    \/ PredictFill(c)
    \/ PredictInvoke(c)
    \/ PredictRead(c)
    \/ PredictError(c)
    \/ PredictPanics(c)
    \/ PredictFault(c)

TFLiteNext ==
    \/ \E n \in Name : LoadBegin(n)
    \/ LoadEnd
    \/ MockLoadEnd
    \/ LoadFails
    \/ LoadPanics
    \/ \E i \in Id : UnloadModel(i) \/ MockUnloadModel(i)
    \/ Close
    \/ \E c \in Client : (\E i \in Id : PredictLookup(c, i)) \/ PredictStep(c)

TFLiteSpec == TFLiteInit /\ [][TFLiteNext]_tvars

-----------------------------------------------------------------------------
Registered == {models[i] : i \in Id} \ {0}

(* The two registries agree on an id that has never been loaded with a     *)
(* version and whose load has not panicked: what Predict can find is what  *)
(* GetModel and ListModels report (tflite_engine_cgo.go:79, :96).          *)
RegistriesMatch ==
    admin = "free" =>
        \A i \in Id \ irregular : BaseKnows(<<i, NoVersion>>) <=> models[i] # 0

(* What Predict finds has not been deleted; and as long as no id has been  *)
(* used with versions and no load has panicked no interpreter is lost, so  *)
(* that "Close releases all resources used by the TFLiteEngine"            *)
(* (tflite_engine_cgo.go:48).                                              *)
InterpretersOwned ==
    build = "cgo" =>
        /\ Registered \subseteq live
        /\ irregular = {} => live \subseteq Registered

(* A Predict call that had its interpreter to itself, and whose model was  *)
(* not unloaded meanwhile, returns the result of its own input and does    *)
(* not touch a deleted interpreter, whatever happened to the interpreter   *)
(* before (tflite_engine_cgo.go:191-237).                                  *)
SoloCallsSafe ==
    \A c \in Client \ disturbed :
        ppc[c] # "fault" /\ result[c] \in {c, NoData}
=============================================================================
