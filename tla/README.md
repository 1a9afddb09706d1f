# GoEdgeInfer: a TLA+ model of the inference server

GoEdgeInfer serves ONNX models over HTTP and gRPC. A request becomes a task of a
worker pool; the pool writes it to a disk-backed queue, hands it to a worker
goroutine, and the worker runs it on one of the session slots the engine keeps
for the model. This directory holds TLA+ modules for that path, TLC
configurations that check them on small instances, and TLAPS proofs that hold
for every instance.

## Inventory

| Part | State | Operations | Interacts with | What is hard | What makes it correct |
|---|---|---|---|---|---|
| Persistent queue `internal/persistence/queue.go` | Badger keys on disk; `seq` in memory | Enqueue, Dequeue, Len, Close, open | called by the pool; survives the process | order through errors; restart with keys on disk | first in first out; nothing overwritten |
| Worker pool `internal/worker/pool.go` | tasks channel, context, pipeline, reply channels | Submit, worker loop, recovery, Shutdown, UpdatePipeline | queue, engine, pipeline, handlers | closing channels under senders; full channel; select's free choice | one owner and one reply per task; nothing dropped; everything ends |
| Handlers `internal/api/handlers.go`, `internal/grpcapi/server.go` | a request's progress | Predict, BatchPredict, Infer, StreamInfer; LoadModel, UnloadModel | call Submit, read the reply channels; update the two registries | two ready channels; clients that leave; shutdown in between | every request gets an answer, no panic |
| Server `internal/app/server.go`, `cmd/main.go` | signal and reload channels, Start's loop | start, reload, drain, shut down, exit | all of the above | 30 s timeout racing handlers; repeated signals; order of closing | drain before cancel; a signal ends the process |
| ONNX engine `internal/inference/onnx_runtime.go` | registry, a channel of session slots per model | LoadModel, UnloadModel, Close, Predict | called by workers and by the model handlers | unload under use; failing load; pool at its limit | a slot has one user, is alive while used, comes back |
| Model manager `internal/model/model.go` | a second registry, with checksums | LoadModel, UnloadModel | called before the engine, under another lock | two registries updated one after the other | the registries agree |
| S3 client `internal/model/s3.go` | none | download, list, upload, delete | model handlers | external store | - |
| TFLite engines, base engine `internal/inference/tflite_engine_*.go`, `engine.go` | two registries, one C interpreter per model | LoadModel, UnloadModel, Close, Predict | any pool may use them; the server constructs the ONNX engine | keys with and without version; an interpreter shared by calls and deleted under them | registries match; no interpreter lost or dangling; a call gets its own result |
| Rate limiter `internal/middleware/rate_limit.go` | tokens, last check | Allow | in front of the handlers | refill between requests at any instants | never more than capacity + rate * time, and never less than that allows |
| Pipeline `internal/processing/pipeline.go` | the step that Run is at | Run, NewPipelineFromConfig | the pool, before and after the engine | types along the chain; the early return; replacement between the two runs | order of the scores kept; results of the promised type |
| JWT, API key, request id, router | none | per request | in front of the handlers | - | - |
| Verifier, config, metrics, logging, CLI | none of note | pure functions, I/O | - | - | - |

`PROJECT.json` lists each part with its status, the hazards at the lines where
they bite, and for every definition the source lines it models.

## Modules

| Module | Models | Extends |
|---|---|---|
| `PersistentQueue` | queue.go | |
| `FifoQueue` | the abstract queue that queue.go promises | |
| `QueueRefinement` | the refinement mapping from the queue to `FifoQueue` | `PersistentQueue` |
| `WorkerPool` | pool.go, over the queue; restart of the process | `PersistentQueue` |
| `Server` | handlers, gRPC, Start, main, and of the engine what can hang or end the process, over the pool | `WorkerPool` |
| `MCServer` | TLC instance: a batch of two inputs, and a gRPC call of one | `Server` |
| `OnnxEngine` | registry and session pools of onnx_runtime.go | |
| `Registry` | model manager and engine registries under the model handlers | |
| `TFLiteEngine` | both TFLite engines over the base engine's registry | |
| `RateLimiter` | the token bucket of rate_limit.go | |
| `Pipeline` | the steps of pipeline.go, as operators | |
| `TaskData` | the data of a task: callers, pipeline, engine, pipeline, reply | `Pipeline` |
| `MCTaskData` | TLC instance: arrays and configurations | `TaskData` |
| `PersistentQueueProofs`, `WorkerPoolProofs`, `ServerProofs`, `OnnxEngineProofs`, `RegistryProofs`, `TFLiteEngineProofs`, `RateLimiterProofs`, `TaskDataProofs` | theorems | the module they are about |

### How the modules correspond to the code

**PersistentQueue.** `db` is the Badger database as a function from sequence
numbers to items; `seq` is `q.seq`. Each method holds the mutex for its whole
body and is one action per outcome: Enqueue succeeds (`EnqueueOk`) or fails
after it has consumed a number (`EnqueueErr`: json.Marshal's error or the
transaction's); Dequeue returns the item of the smallest key, loses one that
does not decode (`DequeueUndecodable`), or reports an error. The eight
big-endian bytes of a key order as the number does, so keys are numbers.
`NextSeq` wraps at `SeqSpace` as the uint64 does. `Reopen` is
NewPersistentQueue in a new process: `seq` is 0 again, the database is kept.
`LifeSpec` is one process, in which the numbers do not run out; `QueueSpec` is any
sequence of processes, in which they may wrap round.

**WorkerPool.** An item stands for one Submit call and for what it persists;
`pc` says where the call is. Submit is split where another goroutine may get in:
Enqueue, Len, setting the gauge, the select. The select's outcomes are three
actions (`SubmitSend`, `SubmitCancelled`, `SubmitPanics`), and when several
cases are ready each is possible, as in Go. A reply channel is open, sent (one
value, then closed) or closed; a worker's send is enabled only on an open and
empty channel, and `ReplyReady` shows that this never holds it up. The engine
and the pipeline succeed or fail; an empty pipeline cannot fail. `Restart` is
the end of the process at any point and a start on the same directory. The
constant `Durable` is `persistentQueue != nil`: the server always passes a
queue, tests also run without one.

**Server.** A request is a sequence of inputs that its handler submits one after
the other. `HttpArrive` stands for a request that passes the validation of the
handler; one that does not is answered without any state change. Requests come
in while the server drains, on connections accepted before, and after a drain
that timed out. gin's recovery catches the panic of an HTTP handler; a gRPC
handler's panic and a worker's end the process. `spc` follows Start from its
select through the drain, the send to `ShutdownCh` and the pool's Shutdown to
ShutdownFunc: engine.Close (`MainClosesEngine`), then the queue and the listener
(`MainCloses`). Of the engine the module keeps the lock, which a failed load
never gives back (`elock`, `LoadStuck`), and for each worker whether the model
that its Predict looked up has been unloaded or closed since (`lookup`); from
then on Predict panics, or returns because the context is done. Every step of
`Server` is a step of `WorkerPool` or leaves it alone (`ServerImplementsPool`,
proved).

**OnnxEngine.** Each successful load makes a new generation with its own channel
of slots. `admin` is the holder of the engine's lock; Predict takes the read
lock only to look the model up, and holds on to the generation it found.
What a tensor contains is left out: a run returns, with a result or an error,
and the slot goes back either way. A panic in Predict happens in a worker
goroutine and ends the process (`Alive`).

**Registry.** `manager` and `engine` are the keys of the two maps. A load is
three steps, since other requests get in between: the handler's look at the
engine (`LoadConflict`, `LoadCheck`), the manager's LoadModel under its lock, the
engine's LoadModel under the engine's lock; an unload is two. Each step succeeds
or refuses. The manager's LoadModel can also refuse for its file, the engine's
for the model's file or sessions. The handler passes no version to UnloadModel,
whatever the path says (`Target`), and no metadata to LoadModel, so that the
signature check at model.go:147 is not reached. `refused` and `overlap` are
history: models registered by a load that the engine then refused, and models a
load and an unload of which overlapped. Names have no ':', as docs/API.md:29
demands.

**TFLiteEngine.** `base` holds the keys of BaseEngine.models, by id and version;
`models` those of the engine, by id alone; `build` is the build tag, chosen at
the start. A load registers with the base engine, which other goroutines can
read at once, and then with its own map; in between it can fail and roll back,
or panic on an empty file. Predict of the cgo build keeps the interpreter it
found and fills, invokes and reads it in three steps, without a lock: data in
its tensors are named after the call they come from. A step on a deleted
interpreter goes on as if it were there, or faults. Predict of the mock answers
constants. Two history variables make the limits of the design explicit:
`irregular`, the ids used with a version or whose load panicked, and
`disturbed`, the calls that shared their interpreter or saw it deleted.
TfLiteModelCreate is assumed to keep no reference to the Go buffer it is given.

**RateLimiter.** Allow runs under a mutex and reads the monotonic clock inside
it, so a request is one step. A second has `K` ticks and a token `K` units, so
that a tick pays in `Rate` units and all numbers are integers, at any
resolution. `from` and `admitted` count in a window that an observer may open at
any time; `full` and `since` count from the last time the bucket was full. The
router installs the middleware for `/api/v1` only, so that the two paths it
skips (`Skip`) do not reach it there.

**Pipeline and TaskData.** A value carries its dynamic type, since the steps and
the engine refuse by type. An array of float32 is a sequence of numerators over
one positive denominator, or of infinities and NaN. `Float32` is the conversion
of a number: beyond `MaxFloat` it is infinite. Predict applies it to the numbers
of a JSON request, normalize to its quotients; gRPC and models deliver any
float32. normalize replaces the denominator by the largest positive numerator, and
when that is infinite makes numbers 0 and infinities NaN. Softmax gives any
weights on a grid that sum to one, follow the order of the elements and are 0
where the exponential vanishes; it gives NaN when all vanish or an element is
+Inf or NaN. Rounding within the range is left out: it keeps the order of the
elements, as IEEE division and conversion are monotone. Thresholds are assumed to
be finite (`ConfigAssumption`), though YAML can also write .inf and .nan.

`TaskData` follows one task at a time: the input as each caller of Submit makes
it, Run step by step with its early return and its errors, the engine, Run again
with the pipeline that is in force by then, and the reply. `Reload` replaces the
pipeline at any point. What HTTP inputs and JSON do to types is kept: an array is
converted to []float32 by Predict, wrapped in a Task by BatchPredict, and
[]interface{} after recovery; the ONNX engine returns a map, the TFLite engine
of the cgo build an array. The mock TFLite engine, which takes any input and
returns maps of constants, is not one of the engines of this module.

## Runs

| Run | Bounds | Result |
|---|---|---|
| `queue_lifetime` | 4 items: 2 plain, 1 unserialisable, 1 undecodable; 6 sequence numbers; disk errors | the queue is FIFO and refines `FifoQueue` |
| `pool_restart` | 2 calls, 2 workers, channel of 1, 3 sequence numbers, 1 restart, failing Dequeues, Shutdown and reloads | hand-over safe; what a process persists stays on disk while it runs; every call of a living process is answered unless Shutdown comes; workers end |
| `server_shutdown` | a batch of 2, a gRPC call, 1 worker, 2 signals, reloads, unloads, a load that hangs | HTTP drained before the pool is cancelled; requests answered; which work can make the process panic; which two blocks can keep it from ending |
| `engine_slots` | 2 models, 3 callers, pools of 2 slots, 2 loads | slots exclusive, alive while used, conserved; no caller waits for ever; the lock is released unless a session could not be created |
| `tflite_engine` | 2 ids, with and without 1 version; 2 callers; 2 loads; both builds | without versions and panicking loads the registries match and no interpreter is lost; an undisturbed call gets its own result |
| `rate_limiter` | 5 ticks a second, rate 3, burst 2, 14 ticks | burst plus rate bounds every window; no refusal with room left |
| `task_data` | arrays of up to 3 float32, infinities and NaN among them, JSON numbers beyond float32, 12 configurations, 1 reload, 2 engines, 5 callers | order kept except for +Inf; results of the type of the pipeline in force |
| `registry` | a model, unversioned and with 1 version; 3 handlers | the registries agree unless a load failed late or a load and an unload overlapped; one load at a time goes to the engine |
| `pool_task_lost` | 2 calls, 1 restart | **violated**: a persisted request is overwritten after the restart |
| `recovery_ends` | 1 call, 1 restart | **violated**: recovery re-enqueues what it dequeues and never ends |
| `engine_unload` | 2 models, 2 callers | **violated**: Predict panics when its model is unloaded |
| `tasks_served` | the pipelines that the documents show, every form of request | **violated**: the inputs of a batch are refused, whatever the engine does |

The bounds let the cases meet: two calls against a channel of one with two
workers give a full channel, a blocked sender and two tasks in progress at once;
one restart reuses keys that are on disk, and three sequence numbers make a
restarted process wrap round. In `pool_restart` Dequeue may fail, and Enqueue
and Len may not: recovery over a queue that is not empty ends by nothing else
(`recovery_ends`), so that without a failing Dequeue no request would come in
after the restart. Failing Enqueues are in `server_shutdown`, where no input is
serialisable, and with failing Len in `queue_lifetime`. A pool without a queue
(`Durable = FALSE`, in tests only) is in the theorems and in no run. Six
sequence numbers allow five Enqueue calls in a lifetime; three callers on two
slots make one wait; two loads let a model be unloaded and loaded again under a
caller that holds the old generation; three handlers let two loads of a model
meet an unload of it; two ids and two calls let one call be alone on an
interpreter another one has used; fourteen ticks fill an empty bucket four times
over; the arrays have negative, equal, very small, overflowing, infinite and NaN
elements, and the configurations end with each kind of step, among them the one
of docs/pipeline.md and one that normalizes and then applies the threshold 0.
The gRPC call of `server_shutdown` has one input, so that Infer and a stream of
one are the same to it; the safety properties of longer streams are proved. The
violated properties state what a document or a comment of the repository says;
`PROJECT.json` quotes it under "findings".

CHECK_DEADLOCK is off where the system may stop: the process has ended, or all
requests of the instance are served. The other runs check deadlock:
`queue_lifetime`, `rate_limiter`, `registry` and `task_data`.

### Fairness

`FairPoolSpec` and `FairServerSpec` assume weak fairness of each goroutine: the
Go scheduler runs what can run, the 30 s timer fires, pipelines return, and so
do engine calls: in `Server` only those that get the engine's lock. Start's
select chooses at random among ready cases, so a waiting signal is not passed
over for ever (`WF(StartSignal)`). `FairEngineSpec` adds strong fairness of
`PredictCheckout`: a channel serves its waiting receivers in the order they
came. Nothing is assumed of clients, signals, reloads, loads, unloads or
crashes: they need not come.

### What the models show about the code

Where the code falls short of a plain statement, the property names the
exception. What it shows is that, in the behaviours of its model and at the
bounds of the run, nothing else breaks it; what the models leave out is listed at
the end.

- Shutdown cancels the pool under gRPC calls, which nothing drains
  (grpcapi/server.go:34 dereferences the nil of a closed channel; pool.go:162
  sends on a closed one), and ShutdownFunc closes the engine under workers
  inside Predict (server.go:299), since the pool's Shutdown need not wait for
  them: the context it selects on is the one that it has just cancelled
  (pool.go:213). So the process can panic without any gRPC call: over an HTTP
  request whose drain timed out or whose client has left, or a recovered task.
  An unload under a call has the same effect at any time. `CrashCauses` is this
  list; `HttpUndisturbed` says that no HTTP caller of Submit is among the
  casualties unless the drain timed out.
- Start blocks for ever when a second signal fills `ShutdownCh` before a drain
  that times out sends to it (server.go:324). ShutdownFunc blocks for ever in
  engine.Close when a failed load has the lock (onnx_runtime.go:163, :411).
  `ShutdownCompletes` has both exceptions.
- LoadModel of the ONNX engine never returns, and keeps the lock, when a session
  cannot be created (onnx_runtime.go:411 ranges over an open channel). All
  Predict calls wait from then on. `LockReleased` and `HttpAnswered` except it:
  they show that nothing else holds a lock or a request up, and do not catch it.
- No input of a batch is served, since handlers.go:561 submits the Task and not
  the input: `TasksServed` is violated. Named inputs from JSON and recovered
  tasks are refused too, whatever the pipeline; with the ONNX engine a pipeline
  that has any step refuses every request, since it is also run on the map the
  engine returns (pool.go:111); and the pipeline of docs/pipeline.md already
  fails before the engine, which takes no labels. `ServedExactly`, a theorem
  about the code as it is, says which tasks are left.
- A number of a JSON request beyond float32, or an infinity from gRPC, is +Inf,
  and normalize makes it NaN and the others 0; a threshold that is not positive
  then turns the order round (handlers.go:771, pipeline.go:57, :91). `OrderKept`
  excepts +Inf and nothing else.
- normalize without a positive element skips the rest of the pipeline
  (pipeline.go:55), the exception of `KindFollowsPipeline`. It keeps the order of
  the elements but not the range [0,1] of docs/pipeline.md:23 when some are
  negative.
- The TFLite engine loses an interpreter when two versions of an id are loaded,
  and forgets versions on one side only (tflite_engine_cgo.go:79, :96, :155);
  `InterpretersOwned` and `RegistriesMatch` are about ids without versions whose
  loads did not panic. Concurrent calls on one model mix their data;
  `SoloCallsSafe` is about calls that are alone on their interpreter.

Hazards that are exactly such an exception have no property of their own in
`PROJECT.json`; a note says what is left out.

## Proofs

Every invariant and every action property that a passing run checks is also a
theorem, and so are the type invariants of the queue, the registries and the
TFLite engines and `ServedExactly`, which no run checks. The theorems hold for
any sets of items, workers, requests, models and callers and any capacities,
under the named assumptions on the constants (`QueueAssumption`,
`PoolAssumption`, `ServerAssumption`, `EngineAssumption`, `RegistryAssumption`,
`TFLiteAssumption`, `RateAssumption`, `PipelineAssumption`,
`TaskDataAssumption`, and `ConfigAssumption`: a configuration is a sequence of
steps, and the threshold of a step a fraction).

**Queue.** `QueueTypeCorrect`, `QueueKeysBehindSeq`, `QueueIsFifo`,
`QueueImplementsFifo`. FIFO order follows from one invariant, that no key on disk
is ahead of `seq`: the next Enqueue takes a fresh key behind all others. `Reopen`
breaks that invariant, which is why all but the first are about `LifeSpec`; the
first is about `QueueSpec`, where numbers wrap round and restarts happen. The
refinement of `FifoQueue` maps the disk to the stored items by position, and a
position to the key with that many keys up to it (`Rank`, `KeyAt`). That each
position is taken (`Ranked`) would be an induction over finite sets; it is
proved as an invariant of the behaviour instead, from two lemmas on what a key
added behind the others, or the least one removed, does to the ranks
(`RankAdded`, `RankRemoved`).

**Pool.** `PoolTypeCorrect`, `PoolOneOwner`, `PoolReplyReady`, `PoolNoLostTask`,
`PoolAtMostOneReply`, `PoolRepliesFinal`. The inductive invariant `SafeInv` adds
to the properties that a call which has not reached the channel has fresh reply
channels and no task anywhere (`FreshChannels`, `Unsent`), that only a worker in
the middle of its loop holds a task (`HeldShape`), and that the recovery loop
holds a decoded item while it is inside Submit (`RecoveryShape`).

`PoolPersistedOnDisk` says that what a handler's Submit has persisted stays on
disk while its process runs, in every process, whatever recovery dequeued and
enqueued before. It has the hypothesis `FewCalls`, that there are fewer calls than
sequence numbers (2^64 in the code; the instance of `pool_restart` satisfies it):
without it the number wraps round to keys in use. `DiskInv`: handlers run once
recovery has ended, an item no handler has enqueued is not on disk, and the key
of a persisted item is at most as many numbers behind `seq` as this process has
had calls (`DiskKept`, `Age`), so that the next key is another one, wherever the
numbers of the process began. It follows that a request is lost only after a
restart (`PoolLossNeedsRestart`). Together with the violated run `pool_task_lost`
this places the defect: it takes the reset of `seq` in a new process.

**Server.** `ServerTypeCorrect`, `ServerImplementsPool`, `ServerHandover`,
`ServerHttpDrained`, `ServerHttpUndisturbed`, `ServerCrashCauses`,
`ServerNoTaskLost`. The step simulation carries the pool's theorems to the
server. The drain argument needs two facts: the pool is cancelled only after the
drain, which unless it timed out left no HTTP handler running (`DrainInv`); and a
Submit call for an HTTP request runs only while that request's handler waits for
it (`CallInv`). `CrashCauses` adds three more: a call is cancelled or panics, and
its result channel is closed without a value, only when the pool's context is
done (`StopInv`); a task without a reply belongs to a request that waits for it
or whose client has left, or to recovery (`OwnerInv`); and a lookup is that of a
worker inside Predict, closed only after the pool's Shutdown (`LookupInv`).
The server opens the queue once
(`ServerOneLife`), so that it loses no persisted request, again under `FewCalls`.

**ONNX engine.** `EngineTypeCorrect`, `EngineSlotsSafe`,
`EngineNoUseAfterDestroy`, `EngineSlotsConserved`. `EngineInv` accounts for every
slot of a finished generation: in the channel, destroyed or with a running call
(`SlotAccount`); says that destruction begins only after the channel is closed;
and that the generation in the making has exactly the slots made so far
(`FutureShape`). `EngineLookupOpen` and `EnginePanicNeedsUnload` bound what the
violated run `engine_unload` shows: a model that Predict finds has an open
channel, so only an unload after the lookup can make the call panic (`OpenInv`).

**Registries.** `RegistryTypeCorrect`, `RegistryAgreement`,
`RegistryLoadersExclusive`. `AgreeInv` adds who owns a key between the two
updates: a load owns it in the manager's map, where it keeps other loads out
(`LoadOwnsKey`); an unload has already taken it out of that map
(`UnloadFreedKey`). The handler's own check plays no part in the argument. All of
it is said of models without an overlapping load and unload; with one, the
engine can keep a model the manager no longer knows.

**TFLite engines.** `TFLiteTypeCorrect`, `TFLiteRegistriesMatch`,
`TFLiteInterpretersOwned`, `TFLiteSoloCallsSafe`. `TFLiteInv` has the state of the
two registries at each step of a load, its roll-back included, and of an unload
(`BaseInv`); that no generation is used twice or under two ids (`GenInv`); and that a call
under way which nothing has disturbed is alone on a live interpreter, with its own
data in the tensors after each of its steps (`CallInv`).

**Rate limiter.** `RateTypeCorrect`, `RateWindowBound`, `RateRefusalJustified`.
The window bound is not inductive: `WindowInv` adds what the bucket would pay out
now, so that a burst still to come is accounted for. The converse rests on an
exact account of the bucket since it was full last (`Account`).

**Pipeline.** `TaskDataTypeCorrect`, `TaskDataOrderKept`,
`TaskDataKindFollowsPipeline`, `TaskDataServedExactly`. First the operators:
`Below` is a total order (`BelowOrder`), float32 keeps it (`Float32Monotone`) and
stays in range (`Float32Range`), and so normalize, softmax and threshold keep the
order and the length of an array without +Inf (`NormalizeKeeps`, `SoftmaxKeeps`,
`ThresholdKeeps`). That an array has a largest element (`PeakExists`) is an
induction over data; it is obtained from a least counterexample (`LeastNatural`,
from the library's well-foundedness of the natural numbers). Then `TaskInv`: the
array keeps the order it had when Run began (`SameOrder`), the steps already made
determine the type (`RunInv`), and the stage and the caller determine what the
engine was given (`SourceInv`).

Only model-checked: the liveness properties (`Answered`, `WorkersEnd`,
`HttpAnswered`, `ShutdownCompletes`, `CheckoutEnds`, `LockReleased`), which rest
on fairness, and ENABLED with it, which the prover does not handle.

## Not modelled

Tensor contents and dtypes, the rounding of floating-point numbers, checksums and
signatures, TLS, tokens and API keys, configuration parsing, logging and
tracing: data or external services the properties here do not look at. The S3
client and the handlers for remote models pass a request on to the store and
keep nothing; LoadModelWithS3Support has no caller. `API.Infer` of handlers.go
is not routed. The stub `defaultModelManager` returns constants. BatchPredict of
the TFLite engines is a loop over Predict that the server never calls.
goedgeinferctl is a client that formats requests.

## Plan

1. Proofs: which keys a restart can overwrite, and that a request is lost
   through no others; the safety half of the progress arguments (what is enabled
   when a call waits), as invariants.
2. `Registry`: keys as the two sides build them from ids with ':'; what an
   overlapping load and unload leave behind, and whether a later request can
   repair it; docs/API.md:27, "unload a version".
3. `Server` over `OnnxEngine` in full, in place of the lock and the lookups that
   `Server` keeps of it.
