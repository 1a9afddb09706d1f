------------------------------- MODULE Server -------------------------------
(***************************************************************************)
(* The server process around the worker pool: the HTTP handlers Predict    *)
(* and BatchPredict, the gRPC handlers Infer and StreamInfer, the loop of  *)
(* Server.Start with its signal and reload channels, and the process exit  *)
(* of cmd/main.go. Of the ONNX engine it keeps what the process can hang   *)
(* or die of: the lock that a failed load never releases, and for each     *)
(* worker whether the model its Predict looked up has been closed since    *)
(* (OnnxEngine has the slots).                                             *)
(*                                                                         *)
(* A request is a sequence of inputs submitted one after the other: one    *)
(* for Predict and Infer, several for BatchPredict and StreamInfer.        *)
(***************************************************************************)
EXTENDS WorkerPool

CONSTANTS
    HttpReq,     \* requests that come in over HTTP
    GrpcReq,     \* requests that come in over gRPC
    Inputs,      \* the inputs of each request
    MaxSignals   \* bound on how many SIGINT or SIGTERM come

Request == HttpReq \cup GrpcReq

ASSUME ServerAssumption ==
    /\ HttpReq \cap GrpcReq = {}
    /\ Inputs \in [Request -> Seq(Item)]
    /\ \A r \in Request : Inputs[r] # <<>>
    /\ \A r, q \in Request : \A i \in DOMAIN Inputs[r], j \in DOMAIN Inputs[q] :
          Inputs[r][i] = Inputs[q][j] => r = q /\ i = j
    /\ \A x \in Item : \E r \in Request : \E i \in DOMAIN Inputs[r] :
          Inputs[r][i] = x
    /\ MaxSignals \in Nat

VARIABLES
    hpc,        \* where each handler is
    idx,        \* the input of its request that each handler is at
    spc,        \* where Start is: in its select, or how far into shutdown
    timedOut,   \* HTTPServer.Shutdown returned the deadline's error
    shutdownCh, \* number of signals in ShutdownCh, of capacity 1
    reloadCh,   \* number of tokens in ReloadCh, of capacity 1
    signals,    \* number of signals so far
    elock,      \* e.mu: free between two steps, or stuck with a failed load
    lookup,     \* the model each worker's Predict has looked up: none yet,
                \*   open, or its pool closed by an unload or by Close
    proc        \* the process: up, or how it ended

handlerVars == <<hpc, idx>>
startVars == <<spc, timedOut, shutdownCh, reloadCh, signals>>
engineVars == <<elock, lookup>>
svars == <<handlerVars, startVars, engineVars, proc, pvars>>

ServerTypeOK ==
    /\ hpc \in [Request -> {"idle", "calling", "waiting", "ok", "error", "left"}]
    /\ idx \in [Request -> Nat \ {0}]
    /\ \A r \in Request : idx[r] <= Len(Inputs[r])
    /\ spc \in {"select", "draining", "resend", "pool", "engineClosed", "closed"}
    /\ timedOut \in BOOLEAN
    /\ shutdownCh \in 0 .. 1
    /\ reloadCh \in 0 .. 1
    /\ signals \in 0 .. MaxSignals
    /\ elock \in {"free", "stuck"}
    /\ lookup \in [Worker -> {"none", "open", "unloaded", "closed"}]
    /\ proc \in {"up", "exited", "fatal", "crashed"}

Current(r) == Inputs[r][idx[r]]

InProgress(r) == hpc[r] \in {"calling", "waiting"}

(* HTTP requests come in until HTTPServer.Shutdown has returned nil: it    *)
(* closes the listener, serves what comes on the connections accepted      *)
(* before, and waits for it; when it gives up those connections live on.   *)
HttpOpen == spc \in {"select", "draining"} \/ timedOut

(* An HTTP handler is running. A load that is stuck is one too. *)
HttpBusy == (\E r \in HttpReq : InProgress(r)) \/ elock = "stuck"

ServerInit ==
    /\ PoolInit
    /\ hpc = [r \in Request |-> "idle"]
    /\ idx = [r \in Request |-> 1]
    /\ spc = "select"
    /\ timedOut = FALSE
    /\ shutdownCh = 0
    /\ reloadCh = 0
    /\ signals = 0
    /\ elock = "free"
    /\ lookup = [w \in Worker |-> "none"]
    /\ proc = "up"

-----------------------------------------------------------------------------
(* The handlers.                                                           *)

(* A bug: HTTPServer.Shutdown is not called, connections are served on. *)
BugHttpArriveLate(r) ==
    /\ proc = "up"
    /\ hpc[r] = "idle"
    /\ pc[Recovery] = "done"
    /\ hpc' = [hpc EXCEPT ![r] = "calling"]
    /\ UNCHANGED <<idx, startVars, engineVars, proc, pvars>>

HttpArrive(r) ==
    /\ proc = "up"
    /\ hpc[r] = "idle"
    /\ pc[Recovery] = "done"
    /\ HttpOpen
    /\ hpc' = [hpc EXCEPT ![r] = "calling"]
    /\ UNCHANGED <<idx, startVars, engineVars, proc, pvars>>

(* Nothing stops the gRPC server: it accepts calls until the process ends. *)
GrpcArrive(r) ==
    /\ proc = "up"
    /\ hpc[r] = "idle"
    /\ pc[Recovery] = "done"
    /\ hpc' = [hpc EXCEPT ![r] = "calling"]
    /\ UNCHANGED <<idx, startVars, engineVars, proc, pvars>>

HandlerCall(r) ==
    /\ proc = "up"
    /\ hpc[r] = "calling"
    /\ SubmitCall(Current(r))
    /\ hpc' = [hpc EXCEPT ![r] = "waiting"]
    /\ UNCHANGED <<idx, startVars, engineVars, proc>>

(* The handler goes on to its next input, or is done. *)
NextInput(r, end) ==
    IF idx[r] < Len(Inputs[r])
      THEN /\ idx' = [idx EXCEPT ![r] = @ + 1]
           /\ hpc' = [hpc EXCEPT ![r] = "calling"]
      ELSE /\ hpc' = [hpc EXCEPT ![r] = end]
           /\ UNCHANGED idx

(* A bug: the loop over the inputs runs one too far. *)
BugHandlerResultPastEnd(r) ==
    /\ proc = "up"
    /\ hpc[r] = "waiting"
    /\ resultCh[Current(r)] = "sent"
    /\ idx' = [idx EXCEPT ![r] = @ + 1]
    /\ hpc' = [hpc EXCEPT ![r] = IF idx[r] < Len(Inputs[r]) THEN "calling" ELSE "ok"]
    /\ UNCHANGED <<startVars, engineVars, proc, pvars>>

(* The select takes a result. *)
HandlerResult(r) ==
    /\ proc = "up"
    /\ hpc[r] = "waiting"
    /\ resultCh[Current(r)] = "sent"
    /\ NextInput(r, "ok")
    /\ UNCHANGED <<startVars, engineVars, proc, pvars>>

(* A bug: the select has no errCh case. *)
BugHandlerErrorUnread(r) == FALSE

(* The select takes an error: an HTTP handler answers it and returns, a    *)
(* gRPC stream answers it and goes on.                                     *)
HandlerError(r) ==
    /\ proc = "up"
    /\ hpc[r] = "waiting"
    /\ errCh[Current(r)] = "sent"
    /\ IF r \in HttpReq
         THEN hpc' = [hpc EXCEPT ![r] = "error"] /\ UNCHANGED idx
         ELSE NextInput(r, "error")
    /\ UNCHANGED <<startVars, engineVars, proc, pvars>>

(* The select takes the nil of a closed resultCh: the HTTP handlers check  *)
(* for it, the gRPC ones dereference it and the panic ends the process.    *)
HandlerNil(r) ==
    /\ proc = "up"
    /\ hpc[r] = "waiting"
    /\ resultCh[Current(r)] = "closed"
    /\ IF r \in HttpReq
         THEN hpc' = [hpc EXCEPT ![r] = "error"] /\ UNCHANGED proc
         ELSE proc' = "crashed" /\ UNCHANGED hpc
    /\ UNCHANGED <<idx, startVars, engineVars, pvars>>

(* Submit panicked: gin's recovery middleware answers 500, over gRPC       *)
(* nothing recovers.                                                       *)
HandlerPanic(r) ==
    /\ proc = "up"
    /\ hpc[r] = "waiting"
    /\ pc[Current(r)] = "panicked"
    /\ IF r \in HttpReq
         THEN hpc' = [hpc EXCEPT ![r] = "error"] /\ UNCHANGED proc
         ELSE proc' = "crashed" /\ UNCHANGED hpc
    /\ UNCHANGED <<idx, startVars, engineVars, pvars>>

(* The client of an HTTP request goes away while the handler waits for the *)
(* reply; a gRPC handler does not look at its context.                     *)
HandlerLeaves(r) ==
    /\ proc = "up"
    /\ hpc[r] = "waiting"
    /\ pc[Current(r)] \in {"submitted", "cancelled"}
    /\ hpc' = [hpc EXCEPT ![r] = "left"]
    /\ UNCHANGED <<idx, startVars, engineVars, proc, pvars>>

(* Between two inputs a gRPC stream ends or breaks: Recv, or the Send of   *)
(* the previous answer, returned an error.                                 *)
StreamEnds(r) ==
    /\ proc = "up"
    /\ hpc[r] = "calling"
    /\ hpc' = [hpc EXCEPT ![r] = "left"]
    /\ UNCHANGED <<idx, startVars, engineVars, proc, pvars>>

HandlerStep(r) ==
    \/ HandlerCall(r)
    \/ HandlerResult(r)
    \/ HandlerError(r)
    \/ HandlerNil(r)
    \/ HandlerPanic(r)

-----------------------------------------------------------------------------
(* Start and main.                                                         *)

(* signal.Notify does not block: a signal that finds the channel full is   *)
(* dropped.                                                                *)
Signal ==
    /\ proc = "up"
    /\ pc[Recovery] = "done"
    /\ signals < MaxSignals
    /\ signals' = signals + 1
    /\ shutdownCh' = 1
    /\ UNCHANGED <<handlerVars, spc, timedOut, reloadCh, engineVars, proc, pvars>>

(* POST /reload: a token, or 429 when one is waiting. *)
ReloadRequest ==
    /\ proc = "up"
    /\ pc[Recovery] = "done"
    /\ HttpOpen
    /\ reloadCh' = 1
    /\ UNCHANGED <<handlerVars, spc, timedOut, shutdownCh, signals, engineVars,
                   proc, pvars>>

(* Start takes a token: the pipeline is replaced unless its configuration  *)
(* is in error.                                                            *)
StartReload ==
    /\ proc = "up"
    /\ spc = "select"
    /\ reloadCh = 1
    /\ reloadCh' = 0
    /\ UpdatePipeline \/ UNCHANGED pvars
    /\ UNCHANGED <<handlerVars, spc, timedOut, shutdownCh, signals, engineVars,
                   proc>>

(* A bug: the engine is closed as soon as the signal is there. *)
BugSignalClosesEngine ==
    /\ proc = "up"
    /\ spc = "select"
    /\ shutdownCh = 1
    /\ shutdownCh' = 0
    /\ lookup' = [w \in Worker |->
                     IF lookup[w] = "open" THEN "closed" ELSE lookup[w]]
    /\ spc' = "draining"
    /\ UNCHANGED <<handlerVars, timedOut, reloadCh, signals, elock, proc, pvars>>

(* Start takes a signal and calls HTTPServer.Shutdown. *)
StartSignal ==
    /\ proc = "up"
    /\ spc = "select"
    /\ shutdownCh = 1
    /\ shutdownCh' = 0
    /\ spc' = "draining"
    /\ UNCHANGED <<handlerVars, timedOut, reloadCh, signals, engineVars, proc,
                   pvars>>

(* A bug: Start does not wait for HTTPServer.Shutdown. *)
BugDrainNotWaited ==
    /\ proc = "up"
    /\ spc = "draining"
    /\ spc' = "pool"
    /\ UNCHANGED <<handlerVars, timedOut, shutdownCh, reloadCh, signals, engineVars,
                   proc, pvars>>

(* HTTPServer.Shutdown returns nil once no HTTP handler is running. *)
DrainDone ==
    /\ proc = "up"
    /\ spc = "draining"
    /\ ~HttpBusy
    /\ spc' = "pool"
    /\ UNCHANGED <<handlerVars, timedOut, shutdownCh, reloadCh, signals, engineVars,
                   proc, pvars>>

(* The 30 seconds are over. *)
DrainTimeout ==
    /\ proc = "up"
    /\ spc = "draining"
    /\ HttpBusy
    /\ timedOut' = TRUE
    /\ spc' = "resend"
    /\ UNCHANGED <<handlerVars, shutdownCh, reloadCh, signals, engineVars, proc,
                   pvars>>

(* A bug: the send is to a channel without a free slot. *)
BugResendBlocks == FALSE

(* s.ShutdownCh <- os.Interrupt, by the channel's only reader. *)
Resend ==
    /\ proc = "up"
    /\ spc = "resend"
    /\ shutdownCh = 0
    /\ shutdownCh' = 1
    /\ spc' = "pool"
    /\ UNCHANGED <<handlerVars, timedOut, reloadCh, signals, engineVars, proc,
                   pvars>>

(* WorkerPool.Shutdown *)
StartPoolShutdown ==
    /\ proc = "up"
    /\ spc = "pool"
    /\ ShutdownCancel \/ ShutdownStep
    /\ UNCHANGED <<handlerVars, startVars, engineVars, proc>>

(* Start has returned and main runs ShutdownFunc: first engine.Close,      *)
(* which takes e.mu and closes the pool of every model, under whatever     *)
(* Predict is using it.                                                    *)
MainClosesEngine ==
    /\ proc = "up"
    /\ spc = "pool"
    /\ shut = "returned"
    /\ elock = "free"
    /\ lookup' = [w \in Worker |->
                     IF lookup[w] = "open" THEN "closed" ELSE lookup[w]]
    /\ spc' = "engineClosed"
    /\ UNCHANGED <<handlerVars, timedOut, shutdownCh, reloadCh, signals, elock,
                   proc, pvars>>

(* Then queue.Close, and lis.Close, which leaves the gRPC connections that *)
(* are there.                                                              *)
MainCloses ==
    /\ proc = "up"
    /\ spc = "engineClosed"
    /\ CloseQueue
    /\ spc' = "closed"
    /\ UNCHANGED <<handlerVars, timedOut, shutdownCh, reloadCh, signals,
                   engineVars, proc>>

MainReturns ==
    /\ proc = "up"
    /\ spc = "closed"
    /\ proc' = "exited"
    /\ UNCHANGED <<handlerVars, startVars, engineVars, pvars>>

(* ListenAndServe fails: Logger.Fatal. *)
ServeFails ==
    /\ proc = "up"
    /\ pc[Recovery] = "done"
    /\ spc = "select"
    /\ proc' = "fatal"
    /\ UNCHANGED <<handlerVars, startVars, engineVars, pvars>>

StartStep ==
    \/ StartReload
    \/ StartSignal
    \/ DrainDone
    \/ DrainTimeout
    \/ Resend
    \/ StartPoolShutdown
    \/ MainClosesEngine
    \/ MainCloses
    \/ MainReturns

(* The goroutines of the pool run inside the same process. *)
CallerStep(x) ==
    /\ proc = "up"
    /\ CallStep(x)
    /\ UNCHANGED <<handlerVars, startVars, engineVars, proc>>

RecovererStep ==
    /\ proc = "up"
    /\ RecoveryStep
    /\ UNCHANGED <<handlerVars, startVars, engineVars, proc>>

(* What the engine lets a worker inside Predict do: it fails when the      *)
(* lookup finds no model, and after a lookup in any case that returns;     *)
(* when the model's pool has been closed only the select on ctx.Done does. *)
PredictReturns(w) ==
    IF wpc'[w] = "post"
      THEN lookup[w] = "open"
      ELSE \/ lookup[w] = "none" /\ elock = "free"
           \/ lookup[w] = "open"
           \/ lookup[w] \in {"unloaded", "closed"} /\ CtxDone

PoolWorkerStep(w) ==
    /\ proc = "up"
    /\ WorkerStep(w)
    /\ wpc[w] = "predict" => PredictReturns(w)
    /\ lookup' = [lookup EXCEPT ![w] = "none"]
    /\ UNCHANGED <<handlerVars, startVars, elock, proc>>

-----------------------------------------------------------------------------
(* The engine.                                                             *)

(* Predict finds its model, under the read lock. *)
WorkerLookup(w) ==
    /\ proc = "up"
    /\ wpc[w] = "predict"
    /\ lookup[w] = "none"
    /\ elock = "free"
    /\ spc \notin {"engineClosed", "closed"}
    /\ lookup' = [lookup EXCEPT ![w] = "open"]
    /\ UNCHANGED <<handlerVars, startVars, elock, proc, pvars>>

(* Predict's slot goes back to a closed channel, or the closed channel     *)
(* gives it a nil slot: nothing recovers a panic in a worker.              *)
WorkerPanics(w) ==
    /\ proc = "up"
    /\ wpc[w] = "predict"
    /\ lookup[w] \in {"unloaded", "closed"}
    /\ proc' = "crashed"
    /\ UNCHANGED <<handlerVars, startVars, engineVars, pvars>>

(* DELETE models/:id closes the pool of a model, which some of the workers *)
(* may be using.                                                           *)
UnloadRequest ==
    /\ proc = "up"
    /\ pc[Recovery] = "done"
    /\ HttpOpen
    /\ elock = "free"
    /\ \E S \in SUBSET {w \in Worker : lookup[w] = "open"} :
          lookup' = [w \in Worker |-> IF w \in S THEN "unloaded" ELSE lookup[w]]
    /\ UNCHANGED <<handlerVars, startVars, elock, proc, pvars>>

(* POST models fails in createSessionSlot and never returns: it holds e.mu *)
(* for ever.                                                               *)
LoadStuck ==
    /\ proc = "up"
    /\ pc[Recovery] = "done"
    /\ HttpOpen
    /\ elock = "free"
    /\ elock' = "stuck"
    /\ UNCHANGED <<handlerVars, startVars, lookup, proc, pvars>>

WorkerGoesOn(w) == PoolWorkerStep(w) \/ WorkerLookup(w) \/ WorkerPanics(w)

ServerNext ==
    \/ \E r \in HttpReq : HttpArrive(r) \/ HandlerLeaves(r)
    \/ \E r \in GrpcReq : GrpcArrive(r) \/ StreamEnds(r)
    \/ \E r \in Request : HandlerStep(r)
    \/ Signal
    \/ ReloadRequest
    \/ UnloadRequest
    \/ LoadStuck
    \/ ServeFails
    \/ StartStep
    \/ \E x \in Item : CallerStep(x)
    \/ RecovererStep
    \/ \E w \in Worker : WorkerGoesOn(w)

ServerSpec == ServerInit /\ [][ServerNext]_svars

(* Every goroutine that can proceed is scheduled, the 30 s timer fires,    *)
(* pipelines return, and so do engine calls that get the lock; Start's     *)
(* select, which picks at random among the ready cases, does not pass over *)
(* a signal for ever. Clients, signals, reloads, loads, unloads and        *)
(* listener failures need not come.                                        *)
ServerFairness ==
    /\ \A r \in Request : WF_svars(HandlerStep(r))
    /\ WF_svars(StartStep)
    /\ WF_svars(StartSignal)
    /\ \A x \in Item : WF_svars(CallerStep(x))
    /\ WF_svars(RecovererStep)
    /\ \A w \in Worker : WF_svars(WorkerGoesOn(w))

FairServerSpec == ServerSpec /\ ServerFairness

-----------------------------------------------------------------------------
(* When HTTPServer.Shutdown (server.go:323) succeeds, no HTTP handler is   *)
(* running from then on: the pool is cancelled under none of them.         *)
HttpDrained ==
    CtxDone /\ ~timedOut => \A r \in HttpReq : ~InProgress(r)

(* So that unless the drain timed out no HTTP caller of Submit meets the   *)
(* cancelled context or the closed channel (pool.go:161-168).              *)
HttpUndisturbed ==
    ~timedOut =>
        \A r \in HttpReq : \A i \in DOMAIN Inputs[r] :
            pc[Inputs[r][i]] \notin {"cancelled", "panicked"}

(* Every HTTP request gets an answer while the process lives (the selects  *)
(* of handlers.go:389 and 563), the ones in a batch included, unless a     *)
(* failed load has the engine's lock for ever (onnx_runtime.go:411).       *)
HttpAnswered ==
    \A r \in HttpReq :
        InProgress(r) ~> ~InProgress(r) \/ proc # "up" \/ elock = "stuck"

(* Start is blocked for ever: the drain timed out, and a second signal has *)
(* filled the channel that Start alone reads and now sends to              *)
(* (server.go:324).                                                        *)
StartBlocked == spc = "resend" /\ shutdownCh = 1

(* ShutdownFunc is blocked for ever: engine.Close waits for the lock of a  *)
(* load that failed (server.go:299, onnx_runtime.go:163 and 411).          *)
CloseBlocked == spc = "pool" /\ shut = "returned" /\ elock = "stuck"

(* A signal ends the process (server.go:319-329, main.go:22): apart from   *)
(* these two blocks, Start and main wait for nothing that may never come.  *)
ShutdownCompletes ==
    shutdownCh = 1 ~> proc # "up" \/ StartBlocked \/ CloseBlocked

(* "Shutdown gracefully shuts down the worker pool" (pool.go:196). When no *)
(* model is unloaded under a call, the process panics only while it shuts  *)
(* down, and only on account of work that HTTPServer.Shutdown did not wait *)
(* for: HTTP requests whose drain timed out or whose client has left, gRPC *)
(* calls and recovered tasks (pool.go:162-168, grpcapi/server.go:34, and   *)
(* engine.Close of server.go:299 under a worker inside Predict).           *)
CrashCauses ==
    proc = "crashed" =>
        \/ \E w \in Worker : lookup[w] = "unloaded"
        \/ /\ CtxDone
           /\ \/ timedOut
              \/ \E r \in HttpReq : hpc[r] = "left"
              \/ \E r \in GrpcReq : InProgress(r)
              \/ \E w \in Worker : lookup[w] = "closed" /\ wtask[w].owner = Recovery
=============================================================================
