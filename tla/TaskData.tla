------------------------------ MODULE TaskData ------------------------------
(***************************************************************************)
(* What happens to the data of a task: how each caller of Submit makes the *)
(* input, both runs of the pipeline, the types the engine takes and gives, *)
(* and the replacement of the pipeline in between.                         *)
(*                                                                         *)
(* Tasks share nothing but the pipeline, so that one worker and one task   *)
(* at a time are enough. The server builds the ONNX engine; the pool takes *)
(* any, and the TFLite engine of the cgo build differs in what it returns. *)
(***************************************************************************)
EXTENDS Pipeline

CONSTANTS
    Unit,        \* the numbers below are multiples of 1 / Unit
    Array,       \* the arrays of numbers in JSON requests
    Tensor,      \* the []float32 that gRPC delivers and models predict
    Config,      \* the pipelines that the configuration may hold
    MaxReloads   \* bound on the number of reloads

ASSUME TaskDataAssumption ==
    /\ MaxReloads \in Nat
    /\ Unit \in Nat \ {0}
    /\ \A a \in Array : a \in Seq(Int)
    /\ \A a \in Tensor :
          /\ a \in Seq(Int \cup {PosInf, NegInf, NaN})
          /\ \A i \in DOMAIN a : Finite(a[i]) => Float32(a[i], Unit) = a[i]

(* A configuration is a list of steps; the threshold of a step that has    *)
(* one is a fraction.                                                      *)
ASSUME ConfigAssumption ==
    \A c \in Config :
        /\ c \in Seq(Range(c))
        /\ \A i \in DOMAIN c :
              c[i].type = "apply_threshold" /\ c[i].param # NoParam =>
                  c[i].param.num \in Int /\ c[i].param.den \in Nat \ {0}

VARIABLES
    engine,      \* the engine of the pool
    pipeline,    \* p.pipeline.Steps
    reloads,
    entry,       \* the caller of Submit
    stage,       \* what the worker is doing
    steps,       \* the steps that Run has still to execute
    data,        \* data
    outcome,     \* the reply
    start,       \* history: data at the beginning of Run
    used,        \* history: the pipeline in force at that time
    seen,        \* history: the pipelines in force for this task
    early,       \* history: Run has returned early
    engineFailed \* history: the engine has failed on data that it takes

runVars == <<steps, data, start, used, early>>
dvars == <<engine, pipeline, reloads, entry, stage, outcome, seen,
           engineFailed, runVars>>

(* Values that no step and no engine looks into: []interface{}, a map from *)
(* input or output names, and *worker.Task.                                *)
Opaque(kind) == [kind |-> kind]

TaskDataTypeOK ==
    /\ engine \in {"onnx", "tflite"}
    /\ pipeline \in Config /\ WellFormed(pipeline)
    /\ reloads \in 0 .. MaxReloads
    /\ entry \in {"none", "predict", "named", "batch", "grpc", "recovered"}
    /\ stage \in {"idle", "pre", "post"}
    /\ outcome \in {"none", "result", "error"}
    /\ data.kind \in {"floats", "ints", "labels", "list", "map", "task"}
    /\ data.kind = "floats" =>
          /\ data.den \in Nat \ {0}
          /\ \A i \in DOMAIN data.num : Finite(data.num[i]) =>
                data.num[i] \in -(MaxFloat * data.den) .. MaxFloat * data.den
    /\ data.kind = "ints" => data.arr \in Seq({0, 1})
    /\ \E c \in Config : Range(steps) \subseteq Range(c)
    /\ used \in Config \cup {<<>>}
    /\ seen \subseteq Config
    /\ early \in BOOLEAN
    /\ engineFailed \in BOOLEAN

(* NewServerWithConfig fails on a configuration that is not well formed.   *)
TaskDataInit ==
    /\ engine \in {"onnx", "tflite"}
    /\ pipeline \in {c \in Config : WellFormed(c)}
    /\ reloads = 0
    /\ entry = "none"
    /\ stage = "idle"
    /\ steps = <<>>
    /\ data = Opaque("list")
    /\ outcome = "none"
    /\ start = data
    /\ used = <<>>
    /\ seen = {}
    /\ early = FALSE
    /\ engineFailed = FALSE

-----------------------------------------------------------------------------
(* Run reads the pipeline once. *)
BeginRun(v) ==
    /\ steps' = pipeline
    /\ data' = v
    /\ start' = v
    /\ used' = pipeline
    /\ early' = FALSE

(* Predict converts a JSON array, of float64, to []float32, and passes a   *)
(* map through.                                                            *)
ConvertedInputs ==
    {Floats([i \in DOMAIN a |-> Float32(a[i], Unit)], Unit) : a \in Array}
NamedInput == Opaque("map")

(* BatchPredict wraps each input in a Task. *)
BatchInput == Opaque("task")

(* Infer and StreamInfer have a []float32. *)
InferInputs == {Floats(a, Unit) : a \in Tensor}

(* JSON gives recovery a []interface{} for an array and a map for a map; a *)
(* Task, with its channels, it could not write.                            *)
RecoveredInputs == {Opaque("list"), Opaque("map")}

Submitted ==
    ({"predict"} \X ConvertedInputs) \cup {<<"named", NamedInput>>} \cup
    {<<"batch", BatchInput>>} \cup ({"grpc"} \X InferInputs) \cup
    ({"recovered"} \X RecoveredInputs)

(* A worker takes a task and begins its pre-processing. *)
Take(e, v) ==
    /\ stage = "idle"
    /\ <<e, v>> \in Submitted
    /\ entry' = e
    /\ stage' = "pre"
    /\ outcome' = "none"
    /\ seen' = {pipeline}
    /\ engineFailed' = FALSE
    /\ BeginRun(v)
    /\ UNCHANGED <<engine, pipeline, reloads>>

(* The loop of Run goes on to its next step. *)
RunStep ==
    /\ steps # <<>>
    /\ ~Fails(Head(steps), data)
    /\ ~ReturnsEarly(Head(steps), data)
    /\ data' \in Results(Head(steps), data)
    /\ steps' = Tail(steps)
    /\ UNCHANGED <<engine, pipeline, reloads, entry, stage, outcome, start,
                   used, seen, early, engineFailed>>

RunReturnsEarly ==
    /\ steps # <<>>
    /\ ReturnsEarly(Head(steps), data)
    /\ steps' = <<>>
    /\ early' = TRUE
    /\ UNCHANGED <<engine, pipeline, reloads, entry, stage, outcome, data,
                   start, used, seen, engineFailed>>

(* The worker sends the error and takes the next task. *)
RunFails ==
    /\ steps # <<>>
    /\ Fails(Head(steps), data)
    /\ stage' = "idle"
    /\ steps' = <<>>
    /\ outcome' = "error"
    /\ UNCHANGED <<engine, pipeline, reloads, entry, data, start, used, seen,
                   early, engineFailed>>

(* resolveInputs and toFloat32Slice take a slice of numbers, of which only *)
(* []float32 gets here: not []int, and no []interface{} inside a map.      *)
EngineTakes(v) == v.kind = "floats"

(* runSlot returns a map, TFLiteEngine.Predict of the cgo build a          *)
(* []float32.                                                              *)
EngineReturns ==
    IF engine = "onnx" THEN {Opaque("map")}
                       ELSE {Floats(a, Unit) : a \in Tensor}

(* A bug: the pipeline is read once for both runs. *)
BugPredictOldPipeline ==
    /\ stage = "pre"
    /\ steps = <<>>
    /\ EngineTakes(data)
    /\ stage' = "post"
    /\ \E v \in EngineReturns : data' = v /\ start' = v
    /\ steps' = used
    /\ used' = pipeline
    /\ seen' = seen \cup {pipeline}
    /\ early' = FALSE
    /\ UNCHANGED <<engine, pipeline, reloads, entry, outcome, engineFailed>>

(* Predict returns and the post-processing begins, with the pipeline that  *)
(* is in force now.                                                        *)
Predict ==
    /\ stage = "pre"
    /\ steps = <<>>
    /\ EngineTakes(data)
    /\ stage' = "post"
    /\ \E v \in EngineReturns : BeginRun(v)
    /\ seen' = seen \cup {pipeline}
    /\ UNCHANGED <<engine, pipeline, reloads, entry, outcome, engineFailed>>

(* No such model, data of a wrong type or size, or a failing session. *)
PredictFails ==
    /\ stage = "pre"
    /\ steps = <<>>
    /\ stage' = "idle"
    /\ outcome' = "error"
    /\ engineFailed' = EngineTakes(data)
    /\ UNCHANGED <<engine, pipeline, reloads, entry, seen, runVars>>

(* The worker sends the result. *)
Reply ==
    /\ stage = "post"
    /\ steps = <<>>
    /\ stage' = "idle"
    /\ outcome' = "result"
    /\ UNCHANGED <<engine, pipeline, reloads, entry, seen, engineFailed,
                   runVars>>

(* A bug: the reload does not look at the error. *)
BugReloadUnchecked(c) ==
    /\ reloads < MaxReloads
    /\ reloads' = reloads + 1
    /\ pipeline' = c
    /\ UNCHANGED <<engine, entry, stage, outcome, seen, engineFailed, runVars>>

(* Start reloads the configuration; the pool's pipeline is replaced unless *)
(* the new one is refused.                                                 *)
Reload(c) ==
    /\ reloads < MaxReloads
    /\ reloads' = reloads + 1
    /\ pipeline' = IF WellFormed(c) THEN c ELSE pipeline
    /\ UNCHANGED <<engine, entry, stage, outcome, seen, engineFailed, runVars>>

TaskDataNext ==
    \/ \E s \in Submitted : Take(s[1], s[2])
    \/ RunStep
    \/ RunReturnsEarly
    \/ RunFails
    \/ Predict
    \/ PredictFails
    \/ Reply
    \/ \E c \in Config : Reload(c)

TaskDataSpec == TaskDataInit /\ [][TaskDataNext]_dvars

-----------------------------------------------------------------------------
Elements(v) == IF v.kind = "floats" THEN v.num ELSE v.arr

(* Whatever the steps, an element that was not above another one when Run  *)
(* began is not above it afterwards: no step turns the order of the scores *)
(* around, for negative scores, ties, vanishing weights and quotients that *)
(* overflow either (pipeline.go:47-58, :65-79, :90-97). NaN counts as the  *)
(* lowest: apply_threshold makes it 0. The exception is an element that is *)
(* +Inf, sent as such or as a number beyond float32: normalize makes it    *)
(* NaN, which ends below the numbers that it was above.                    *)
OrderKept ==
    start.kind = "floats" /\ data.kind \in {"floats", "ints"} =>
        \A i, j \in DOMAIN start.num :
            start.num[j] # PosInf /\ Below(start.num[i], start.num[j]) =>
                Below(Elements(data)[i], Elements(data)[j])

(* The type that a step of a pipeline makes. *)
KindAfter(type) ==
    CASE type = "apply_threshold" -> "ints"
      [] type = "map_to_labels"   -> "labels"
      [] OTHER                    -> "floats"

(* A result has the type that the last step makes of the pipeline which    *)
(* was in force when the engine returned, even if another one was in force *)
(* before the engine was called; the exception is a normalize step that    *)
(* found no positive element and made Run return (pool.go:109-118,         *)
(* pipeline.go:53-55).                                                     *)
KindFollowsPipeline ==
    outcome = "result" /\ ~early /\ used # <<>> =>
        data.kind = KindAfter(used[Len(used)].type)

(* A request, in any of the forms of docs/API.md:35-37 and from gRPC, and  *)
(* a recovered task, "recovered and processed automatically"               *)
(* (docs/api_worker_integration.md:37), is answered with the engine's      *)
(* result unless the engine fails on data that it takes. It is what the    *)
(* documents say of the pipelines that they show.                          *)
TasksServed == outcome = "error" => engineFailed

Numeric(p) == \A i \in DOMAIN p : p[i].type \in {"normalize", "softmax"}

(* Which tasks are answered with a result, when the engine does not fail:  *)
(* arrays of numbers, from HTTP or gRPC, if both pipelines that the task   *)
(* has met are made for its data. With the TFLite engine those are the     *)
(* ones of normalize and softmax steps alone; with the ONNX engine, which  *)
(* returns a map, only pipelines without steps. Named inputs, the inputs   *)
(* of a batch and recovered tasks arrive with types that nobody takes      *)
(* (pool.go:86-118, handlers.go:561, onnx_runtime.go:454, :759).           *)
ServedExactly ==
    /\ outcome = "result" =>
          /\ entry \in {"predict", "grpc"}
          /\ engine = "onnx" => used = <<>>
    /\ outcome = "error" /\ entry \in {"predict", "grpc"} =>
          \/ engineFailed
          \/ \E p \in seen : IF engine = "onnx" THEN p # <<>> ELSE ~Numeric(p)
=============================================================================
