---------------------------- MODULE ServerProofs ----------------------------
(***************************************************************************)
(* Proofs about Server: it implements WorkerPool, so that what is proved   *)
(* of the pool holds of the server, a completed drain leaves no HTTP       *)
(* handler behind, and what can make the process panic, for any requests,  *)
(* workers and number of signals.                                          *)
(***************************************************************************)
EXTENDS Server, WorkerPoolProofs

-----------------------------------------------------------------------------
(* A request has at least one input. *)
LEMMA InputsLen == \A r \in Request : Len(Inputs[r]) \in Nat \ {0}
  BY ServerAssumption

LEMMA ServerTypeInit == ServerInit => ServerTypeOK
<1> SUFFICES ASSUME ServerInit PROVE ServerTypeOK
  OBVIOUS
<1>1. \A r \in Request : 1 <= Len(Inputs[r])
  BY InputsLen
<1>2. \A r \in Request : idx[r] = 1
  BY DEF ServerInit
<1>3. \A r \in Request : idx[r] <= Len(Inputs[r])
  BY <1>1, <1>2
<1>4. MaxSignals \in Nat
  BY ServerAssumption
<1>5. timedOut \in BOOLEAN
  BY DEF ServerInit
<1>6. /\ hpc \in [Request -> {"idle", "calling", "waiting", "ok", "error", "left"}]
      /\ idx \in [Request -> Nat \ {0}]
  BY DEF ServerInit
<1>7. /\ shutdownCh \in 0 .. 1 /\ reloadCh \in 0 .. 1
      /\ signals \in 0 .. MaxSignals
      /\ spc = "select" /\ proc = "up"
  BY <1>4 DEF ServerInit
<1>8. /\ elock = "free"
      /\ lookup \in [Worker -> {"none", "open", "unloaded", "closed"}]
  BY DEF ServerInit
<1> QED
  BY <1>3, <1>5, <1>6, <1>7, <1>8 DEF ServerTypeOK

LEMMA ServerTypeStep == ServerTypeOK /\ [ServerNext]_svars => ServerTypeOK'
<1> SUFFICES ASSUME ServerTypeOK, [ServerNext]_svars PROVE ServerTypeOK'
  OBVIOUS
<1> USE DEF ServerTypeOK, handlerVars, startVars, engineVars
<1>1. ASSUME NEW r \in HttpReq, HttpArrive(r) \/ HandlerLeaves(r)
      PROVE  ServerTypeOK'
  BY <1>1 DEF HttpArrive, HandlerLeaves
<1>2. ASSUME NEW r \in GrpcReq, GrpcArrive(r) \/ StreamEnds(r)
      PROVE  ServerTypeOK'
  BY <1>2 DEF GrpcArrive, StreamEnds
<1>3. ASSUME NEW r \in Request, HandlerStep(r) PROVE ServerTypeOK'
  <2>1. CASE HandlerCall(r)
    BY <2>1 DEF HandlerCall
  <2>2. ASSUME NEW e \in {"ok", "error"}, NextInput(r, e)
        PROVE  /\ hpc' \in [Request -> {"idle", "calling", "waiting", "ok", "error", "left"}]
               /\ idx' \in [Request -> Nat \ {0}]
               /\ \A q \in Request : idx'[q] <= Len(Inputs[q])
    <3>1. CASE idx[r] < Len(Inputs[r])
      BY <2>2, <3>1, InputsLen DEF NextInput
    <3>2. CASE ~(idx[r] < Len(Inputs[r]))
      BY <2>2, <3>2 DEF NextInput
    <3> QED
      BY <3>1, <3>2
  <2>3. CASE HandlerResult(r)
    BY <2>2, <2>3 DEF HandlerResult
  <2>4. CASE HandlerError(r)
    BY <2>2, <2>4 DEF HandlerError
  <2>5. CASE HandlerNil(r) \/ HandlerPanic(r)
    BY <2>5 DEF HandlerNil, HandlerPanic
  <2> QED
    BY <1>3, <2>1, <2>3, <2>4, <2>5 DEF HandlerStep
<1>4. CASE Signal \/ ReloadRequest \/ ServeFails
  BY <1>4, ServerAssumption DEF Signal, ReloadRequest, ServeFails
<1>5. CASE StartStep
  <2>1. CASE StartReload \/ StartSignal \/ Resend
    BY <2>1 DEF StartReload, StartSignal, Resend
  <2>2. CASE DrainDone \/ StartPoolShutdown \/ MainCloses \/ MainReturns
    BY <2>2 DEF DrainDone, StartPoolShutdown, MainCloses, MainReturns
  <2>3. CASE DrainTimeout
    BY <2>3 DEF DrainTimeout
  <2>4. CASE MainClosesEngine
    BY <2>4 DEF MainClosesEngine
  <2> QED
    BY <1>5, <2>1, <2>2, <2>3, <2>4 DEF StartStep
<1>6. ASSUME NEW x \in Item, CallerStep(x) PROVE ServerTypeOK'
  BY <1>6 DEF CallerStep
<1>7. ASSUME NEW w \in Worker, WorkerGoesOn(w) PROVE ServerTypeOK'
  BY <1>7 DEF WorkerGoesOn, PoolWorkerStep, WorkerLookup, WorkerPanics
<1>8. CASE RecovererStep
  BY <1>8 DEF RecovererStep
<1>9. CASE UnloadRequest \/ LoadStuck
  BY <1>9 DEF UnloadRequest, LoadStuck
<1>10. CASE UNCHANGED svars
  BY <1>10 DEF svars
<1> QED
  BY <1>1, <1>2, <1>3, <1>4, <1>5, <1>6, <1>7, <1>8, <1>9, <1>10
     DEF ServerNext

(* Handlers, Start and main keep their variables well typed; no handler    *)
(* runs past the last input of its request.                                *)
THEOREM ServerTypeCorrect == ServerSpec => []ServerTypeOK
  BY ServerTypeInit, ServerTypeStep, PTL DEF ServerSpec

LEMMA CurrentItem ==
    ASSUME ServerTypeOK, NEW r \in Request
    PROVE  /\ idx[r] \in DOMAIN Inputs[r]
           /\ Current(r) \in Item
  BY ServerAssumption DEF ServerTypeOK, Current

-----------------------------------------------------------------------------
(* Every step of the server is a step of the pool or leaves it alone. *)
LEMMA ServerStepIsPoolStep ==
    ASSUME ServerTypeOK, [ServerNext]_svars
    PROVE  [PoolNext]_pvars
<1>1. ASSUME NEW r \in HttpReq, HttpArrive(r) \/ HandlerLeaves(r)
      PROVE  UNCHANGED pvars
  BY <1>1 DEF HttpArrive, HandlerLeaves
<1>2. ASSUME NEW r \in GrpcReq, GrpcArrive(r) \/ StreamEnds(r)
      PROVE  UNCHANGED pvars
  BY <1>2 DEF GrpcArrive, StreamEnds
<1>3. ASSUME NEW r \in Request, HandlerStep(r) PROVE [PoolNext]_pvars
  <2>1. CASE HandlerCall(r)
    BY <2>1, CurrentItem DEF HandlerCall, PoolNext
  <2>2. CASE \/ HandlerResult(r) \/ HandlerError(r) \/ HandlerNil(r)
             \/ HandlerPanic(r)
    BY <2>2 DEF HandlerResult, HandlerError, HandlerNil, HandlerPanic
  <2> QED
    BY <1>3, <2>1, <2>2 DEF HandlerStep
<1>4. CASE Signal \/ ReloadRequest \/ ServeFails
  BY <1>4 DEF Signal, ReloadRequest, ServeFails
<1>5. CASE StartStep
  <2>1. CASE StartReload \/ StartPoolShutdown \/ MainCloses
    BY <2>1 DEF StartReload, StartPoolShutdown, MainCloses, PoolNext
  <2>2. CASE \/ StartSignal \/ DrainDone \/ DrainTimeout \/ Resend
             \/ MainClosesEngine \/ MainReturns
    BY <2>2 DEF StartSignal, DrainDone, DrainTimeout, Resend,
       MainClosesEngine, MainReturns
  <2> QED
    BY <1>5, <2>1, <2>2 DEF StartStep
<1>6. ASSUME NEW x \in Item, CallerStep(x) PROVE PoolNext
  BY <1>6 DEF CallerStep, PoolNext
<1>7. ASSUME NEW w \in Worker, WorkerGoesOn(w) PROVE [PoolNext]_pvars
  BY <1>7 DEF WorkerGoesOn, PoolWorkerStep, WorkerLookup, WorkerPanics, PoolNext
<1>8. CASE RecovererStep
  BY <1>8 DEF RecovererStep, PoolNext
<1>9. CASE UnloadRequest \/ LoadStuck
  BY <1>9 DEF UnloadRequest, LoadStuck
<1>10. CASE UNCHANGED svars
  BY <1>10 DEF svars
<1> QED
  BY <1>1, <1>2, <1>3, <1>4, <1>5, <1>6, <1>7, <1>8, <1>9, <1>10
     DEF ServerNext

(* The server's handlers, Start and main use the pool only through the     *)
(* operations WorkerPool allows its callers.                               *)
THEOREM ServerImplementsPool == ServerSpec => PoolSpec
<1>1. ServerInit => PoolInit
  BY DEF ServerInit
<1>2. ServerTypeOK /\ [ServerNext]_svars => [PoolNext]_pvars
  BY ServerStepIsPoolStep
<1> QED
  BY <1>1, <1>2, ServerTypeCorrect, PTL DEF ServerSpec, PoolSpec

(* Hence, in the running server, a worker's reply neither blocks nor       *)
(* panics, whatever the handlers do.                                       *)
THEOREM ServerHandover == ServerSpec => []ReplyReady
  BY ServerImplementsPool, PoolReplyReady

LEMMA ServerSafeInv == ServerSpec => []SafeInv
  BY ServerImplementsPool, SafeInvAlways

-----------------------------------------------------------------------------
(* Shutdown of the pool begins only after the drain, and a drain that did  *)
(* not time out leaves no HTTP handler running. A Submit call on behalf of *)
(* an HTTP request runs only while its handler waits for it: this is what  *)
(* carries the fact from the handlers to the pool.                         *)
Inside == {"enqueue", "len", "gauge", "send"}

DrainInv ==
    /\ CtxDone => spc \in {"pool", "engineClosed", "closed"}
    /\ spc = "resend" => timedOut
    /\ ~timedOut /\ spc \in {"pool", "engineClosed", "closed"} =>
          \A r \in HttpReq : ~InProgress(r)

CallInv ==
    \A r \in HttpReq : \A i \in DOMAIN Inputs[r] :
        pc[Inputs[r][i]] \in Inside => hpc[r] = "waiting" /\ idx[r] = i

ServerInv == ServerTypeOK /\ DrainInv /\ CallInv /\ HttpUndisturbed

(* What the pool's steps do to the stages of the calls. *)
LEMMA CallStepStage ==
    ASSUME TypeInv, NEW x \in Item, CallStep(x)
    PROVE  /\ pc[x] \in Inside
           /\ \A y \in Item : y # x => pc'[y] = pc[y]
           /\ pc'[x] \in {"cancelled", "panicked"} => CtxDone
           /\ shut' = shut
<1> USE DEF Inside, CtxDone, Submitter
<1>0. pc \in [Submitter -> Stage]
  BY DEF TypeInv, PoolTypeOK
<1>1. CASE SubmitEnqueue(x)
  BY <1>0, <1>1 DEF SubmitEnqueue
<1>2. CASE SubmitLen(x)
  BY <1>0, <1>2 DEF SubmitLen, TxnFails
<1>3. CASE SubmitGauge(x) \/ SubmitSend(x)
  BY <1>0, <1>3, PoolAssumption DEF SubmitGauge, SubmitSend
<1>4. CASE SubmitCancelled(x) \/ SubmitPanics(x)
  BY <1>0, <1>4 DEF SubmitCancelled, SubmitPanics, TasksClosed
<1> QED
  BY <1>1, <1>2, <1>3, <1>4 DEF CallStep, SubmitStep

LEMMA SubmitCallStage ==
    ASSUME TypeInv, NEW x \in Item, SubmitCall(x)
    PROVE  /\ pc'[x] \in Inside
           /\ \A y \in Item : y # x => pc'[y] = pc[y]
           /\ shut' = shut
  BY DEF TypeInv, PoolTypeOK, SubmitCall, Inside, Submitter

LEMMA OtherStepStage ==
    ASSUME TypeInv,
           \/ RecoveryStep \/ \E w \in Worker : WorkerStep(w)
           \/ ShutdownCancel \/ ShutdownStep \/ UpdatePipeline \/ CloseQueue
           \/ UNCHANGED pvars
    PROVE  \A y \in Item : pc'[y] = pc[y]
<1> USE DEF Submitter, callVars
<1>0. pc \in [Submitter -> Stage]
  BY DEF TypeInv, PoolTypeOK
<1>1. CASE RecoveryStep
  <2>1. CASE SubmitStep(Recovery)
    BY <1>0, <2>1, PoolAssumption
       DEF SubmitStep, SubmitEnqueue, SubmitLen, SubmitGauge, SubmitSend
  <2>2. CASE RecoverDequeue \/ RecoverDone
    BY <1>0, <2>2, PoolAssumption DEF RecoverDequeue, RecoverDone
  <2> QED
    BY <1>1, <2>1, <2>2 DEF RecoveryStep
<1>2. ASSUME NEW w \in Worker, WorkerStep(w)
      PROVE  pc' = pc
  BY <1>2 DEF WorkerStep, WorkerTake, WorkerAdvance, WorkerFail, WorkerReply,
     WorkerExit
<1>3. CASE \/ ShutdownCancel \/ ShutdownStep \/ UpdatePipeline \/ CloseQueue
           \/ UNCHANGED pvars
  BY <1>3 DEF ShutdownCancel, ShutdownStep, ShutdownClose, ShutdownReturn,
     UpdatePipeline, CloseQueue, pvars
<1> QED
  BY <1>1, <1>2, <1>3

LEMMA ServerInvInit == ServerInit => ServerInv
<1> SUFFICES ASSUME ServerInit PROVE ServerInv
  OBVIOUS
<1>1. ServerTypeOK
  BY ServerTypeInit
<1>2. \A r \in HttpReq : \A i \in DOMAIN Inputs[r] : pc[Inputs[r][i]] = "new"
  <2>1. \A x \in Item : pc[x] = "new"
    BY PoolAssumption DEF ServerInit, PoolInit, Submitter
  <2> QED
    BY <2>1, ServerAssumption DEF Request
<1>3. shut = "running" /\ spc = "select"
  BY DEF ServerInit, PoolInit
<1> QED
  BY <1>1, <1>2, <1>3
     DEF ServerInv, DrainInv, CallInv, HttpUndisturbed, Inside, CtxDone

(* Steps of handlers. *)
LEMMA ServerInvHandler ==
    ASSUME ServerInv, SafeInv, NEW r \in Request, HandlerStep(r)
    PROVE  DrainInv' /\ CallInv' /\ HttpUndisturbed'
<1> DEFINE x == Current(r)
<1>1. /\ hpc \in [Request -> {"idle", "calling", "waiting", "ok", "error", "left"}]
      /\ idx \in [Request -> Nat \ {0}]
      /\ x \in Item /\ idx[r] \in DOMAIN Inputs[r] /\ x = Inputs[r][idx[r]]
  BY CurrentItem DEF ServerInv, ServerTypeOK, Current
<1>2. /\ InProgress(r)
      /\ UNCHANGED <<spc, timedOut>>
      /\ \A q \in Request : q # r => hpc'[q] = hpc[q] /\ idx'[q] = idx[q]
  BY <1>1 DEF HandlerStep, HandlerCall, HandlerResult, HandlerError,
     HandlerNil, HandlerPanic, NextInput, InProgress, handlerVars, startVars
<1>3. \A q \in HttpReq : InProgress(q)' => InProgress(q)
  BY <1>1, <1>2 DEF InProgress, Request
<1>4. shut' = shut
  BY <1>1, SubmitCallStage
     DEF HandlerStep, HandlerCall, HandlerResult, HandlerError, HandlerNil,
         HandlerPanic, pvars, SafeInv
<1>5. DrainInv'
  BY <1>2, <1>3, <1>4 DEF ServerInv, DrainInv, CtxDone
<1>6. CASE HandlerCall(r)
  <2>1. /\ pc'[x] \in Inside
        /\ \A y \in Item : y # x => pc'[y] = pc[y]
        /\ hpc' = [hpc EXCEPT ![r] = "waiting"] /\ idx' = idx
    BY <1>1, <1>6, SubmitCallStage DEF HandlerCall, SafeInv
  <2> SUFFICES ASSUME NEW q \in HttpReq, NEW i \in DOMAIN Inputs[q]
               PROVE  /\ pc'[Inputs[q][i]] \in Inside
                            => hpc'[q] = "waiting" /\ idx'[q] = i
                      /\ ~timedOut' =>
                            pc'[Inputs[q][i]] \notin {"cancelled", "panicked"}
    BY <1>5 DEF CallInv, HttpUndisturbed
  <2>2. Inputs[q][i] \in Item /\ q \in Request
    BY ServerAssumption DEF Request
  <2>3. CASE Inputs[q][i] = x
    <3>1. q = r /\ i = idx[r]
      BY <1>1, <2>2, <2>3, ServerAssumption
    <3> QED
      BY <1>1, <2>1, <2>3, <3>1 DEF Inside
  <2>4. CASE Inputs[q][i] # x
    <3>1. pc'[Inputs[q][i]] = pc[Inputs[q][i]]
      BY <2>1, <2>2, <2>4
    <3>2. pc[Inputs[q][i]] \in Inside => hpc[q] = "waiting" /\ idx[q] = i
      BY DEF ServerInv, CallInv
    <3>3. hpc[q] = "waiting" => hpc'[q] = "waiting"
      BY <1>1, <2>1, <2>2
    <3> QED
      BY <1>2, <2>1, <3>1, <3>2, <3>3 DEF ServerInv, HttpUndisturbed
  <2> QED
    BY <2>3, <2>4
<1>7. CASE \/ HandlerResult(r) \/ HandlerError(r) \/ HandlerNil(r)
           \/ HandlerPanic(r)
  <2>1. pc' = pc
    BY <1>7 DEF HandlerResult, HandlerError, HandlerNil, HandlerPanic, pvars,
       callVars
  <2>2. pc[x] \notin Inside
    BY <1>1, <1>7
       DEF HandlerResult, HandlerError, HandlerNil, HandlerPanic, Inside,
           SafeInv, FreshChannels, Unsent
  <2>3. CallInv'
    <3> SUFFICES ASSUME NEW q \in HttpReq, NEW i \in DOMAIN Inputs[q],
                        pc[Inputs[q][i]] \in Inside
                 PROVE  hpc'[q] = "waiting" /\ idx'[q] = i
      BY <2>1 DEF CallInv
    <3>1. hpc[q] = "waiting" /\ idx[q] = i
      BY DEF ServerInv, CallInv
    <3>2. q # r
      BY <1>1, <2>2, <3>1
    <3> QED
      BY <1>2, <3>1, <3>2 DEF Request
  <2>4. HttpUndisturbed'
    BY <1>2, <2>1 DEF ServerInv, HttpUndisturbed
  <2> QED
    BY <1>5, <2>3, <2>4
<1> QED
  BY <1>5, <1>6, <1>7 DEF HandlerStep

(* Steps of Submit calls: one made for an HTTP request finds the context   *)
(* done only when the drain timed out.                                     *)
LEMMA ServerInvCaller ==
    ASSUME ServerInv, SafeInv, NEW x \in Item, CallerStep(x)
    PROVE  DrainInv' /\ CallInv' /\ HttpUndisturbed'
<1>1. /\ pc[x] \in Inside
      /\ \A y \in Item : y # x => pc'[y] = pc[y]
      /\ pc'[x] \in {"cancelled", "panicked"} => CtxDone
      /\ shut' = shut
  BY CallStepStage DEF CallerStep, SafeInv
<1>2. UNCHANGED <<hpc, idx, spc, timedOut>>
  BY DEF CallerStep, handlerVars, startVars
<1>3. DrainInv'
  BY <1>1, <1>2 DEF ServerInv, DrainInv, CtxDone, InProgress
<1> SUFFICES ASSUME NEW q \in HttpReq, NEW i \in DOMAIN Inputs[q]
             PROVE  /\ pc'[Inputs[q][i]] \in Inside
                          => hpc'[q] = "waiting" /\ idx'[q] = i
                    /\ ~timedOut' =>
                          pc'[Inputs[q][i]] \notin {"cancelled", "panicked"}
  BY <1>3 DEF CallInv, HttpUndisturbed
<1>4. Inputs[q][i] \in Item
  BY ServerAssumption DEF Request
<1>5. CASE Inputs[q][i] = x
  <2>1. hpc[q] = "waiting" /\ idx[q] = i
    BY <1>1, <1>5 DEF ServerInv, CallInv
  <2>2. CtxDone => timedOut
    BY <2>1 DEF ServerInv, DrainInv, InProgress
  <2> QED
    BY <1>1, <1>2, <1>5, <2>1, <2>2
<1>6. CASE Inputs[q][i] # x
  BY <1>1, <1>2, <1>4, <1>6 DEF ServerInv, CallInv, HttpUndisturbed
<1> QED
  BY <1>5, <1>6

(* The remaining steps: clients, Start, main, recovery and workers. *)
LEMMA ServerInvOther ==
    ASSUME ServerInv, SafeInv,
           \/ \E r \in HttpReq : HttpArrive(r) \/ HandlerLeaves(r)
           \/ \E r \in GrpcReq : GrpcArrive(r) \/ StreamEnds(r)
           \/ Signal \/ ReloadRequest \/ ServeFails \/ StartStep
           \/ UnloadRequest \/ LoadStuck
           \/ RecovererStep \/ \E w \in Worker : WorkerGoesOn(w)
           \/ UNCHANGED svars
    PROVE  DrainInv' /\ CallInv' /\ HttpUndisturbed'
<1> USE DEF handlerVars, startVars
<1>0. /\ hpc \in [Request -> {"idle", "calling", "waiting", "ok", "error", "left"}]
      /\ TypeInv
  BY DEF ServerInv, ServerTypeOK, SafeInv
(* It is enough that the calls stay where they are. *)
<1>1. ASSUME \A y \in Item : pc'[y] = pc[y],
             timedOut => timedOut',
             \A r \in HttpReq : hpc[r] = "waiting" =>
                 \/ hpc'[r] = "waiting" /\ idx'[r] = idx[r]
                 \/ pc[Current(r)] \notin Inside
      PROVE  CallInv' /\ HttpUndisturbed'
  <2>1. \A r \in HttpReq : \A i \in DOMAIN Inputs[r] :
           pc'[Inputs[r][i]] = pc[Inputs[r][i]]
    BY <1>1, ServerAssumption DEF Request
  <2>2. CallInv'
    BY <1>1, <2>1 DEF ServerInv, CallInv, Current
  <2>3. HttpUndisturbed'
    BY <1>1, <2>1 DEF ServerInv, HttpUndisturbed
  <2> QED
    BY <2>2, <2>3
<1>2. ASSUME UNCHANGED <<hpc, idx, spc, timedOut>>,
             \A y \in Item : pc'[y] = pc[y], shut' = shut
      PROVE  DrainInv' /\ CallInv' /\ HttpUndisturbed'
  <2>1. DrainInv'
    BY <1>2 DEF ServerInv, DrainInv, CtxDone, InProgress
  <2> QED
    BY <1>1, <1>2, <2>1
<1>3. ASSUME NEW r \in HttpReq, HttpArrive(r)
      PROVE  DrainInv' /\ CallInv' /\ HttpUndisturbed'
  <2>1. /\ UNCHANGED <<pc, shut, idx, spc, timedOut>> /\ HttpOpen
        /\ hpc[r] = "idle" /\ hpc' = [hpc EXCEPT ![r] = "calling"]
    BY <1>3 DEF HttpArrive, pvars, callVars
  <2>2. DrainInv'
    BY <2>1 DEF ServerInv, DrainInv, CtxDone, HttpOpen
  <2>3. \A q \in HttpReq : hpc[q] = "waiting" => hpc'[q] = "waiting"
    BY <1>0, <2>1 DEF Request
  <2> QED
    BY <1>1, <2>1, <2>2, <2>3
<1>4. ASSUME NEW r \in HttpReq, HandlerLeaves(r)
      PROVE  DrainInv' /\ CallInv' /\ HttpUndisturbed'
  <2>1. /\ UNCHANGED <<pc, shut, idx, spc, timedOut>>
        /\ hpc' = [hpc EXCEPT ![r] = "left"]
        /\ pc[Current(r)] \notin Inside
    BY <1>4 DEF HandlerLeaves, pvars, callVars, Inside
  <2>2. \A q \in HttpReq : /\ InProgress(q)' => InProgress(q)
                           /\ q # r => hpc'[q] = hpc[q]
    BY <1>0, <2>1 DEF InProgress, Request
  <2>3. DrainInv'
    BY <2>1, <2>2 DEF ServerInv, DrainInv, CtxDone
  <2> QED
    BY <1>1, <2>1, <2>2, <2>3
<1>5. ASSUME NEW r \in GrpcReq, GrpcArrive(r) \/ StreamEnds(r)
      PROVE  DrainInv' /\ CallInv' /\ HttpUndisturbed'
  <2>1. /\ UNCHANGED <<pc, shut, idx, spc, timedOut>>
        /\ \E p \in {"calling", "left"} : hpc' = [hpc EXCEPT ![r] = p]
    BY <1>5 DEF GrpcArrive, StreamEnds, pvars, callVars
  <2>2. \A q \in HttpReq : hpc'[q] = hpc[q]
    BY <1>0, <2>1, ServerAssumption DEF Request
  <2>3. DrainInv'
    BY <2>1, <2>2 DEF ServerInv, DrainInv, CtxDone, InProgress
  <2> QED
    BY <1>1, <2>1, <2>2, <2>3
<1>6. CASE \/ Signal \/ ReloadRequest \/ ServeFails \/ MainReturns
           \/ UnloadRequest \/ LoadStuck
           \/ \E w \in Worker : WorkerLookup(w) \/ WorkerPanics(w)
  BY <1>2, <1>6 DEF Signal, ReloadRequest, ServeFails, MainReturns,
     UnloadRequest, LoadStuck, WorkerLookup, WorkerPanics, pvars, callVars
<1>7. CASE RecovererStep \/ \E w \in Worker : PoolWorkerStep(w)
  <2>1. /\ UNCHANGED <<hpc, idx, spc, timedOut>>
        /\ RecoveryStep \/ \E w \in Worker : WorkerStep(w)
    BY <1>7 DEF RecovererStep, PoolWorkerStep
  <2>2. (\A y \in Item : pc'[y] = pc[y]) /\ shut' = shut
    <3>1. \A y \in Item : pc'[y] = pc[y]
      BY <1>0, <2>1, OtherStepStage
    <3>2. shut' = shut
      BY <2>1 DEF RecoveryStep, SubmitStep, SubmitEnqueue, SubmitLen,
         SubmitGauge, SubmitSend, RecoverDequeue, RecoverDone, WorkerStep,
         WorkerTake, WorkerAdvance, WorkerFail, WorkerReply, WorkerExit
    <3> QED
      BY <3>1, <3>2
  <2> QED
    BY <1>2, <2>1, <2>2
<1>8. CASE StartReload
  <2>1. UpdatePipeline \/ UNCHANGED pvars
    BY <1>8 DEF StartReload
  <2>2. UNCHANGED <<pc, shut, hpc, idx, spc, timedOut>>
    BY <1>8, <2>1 DEF StartReload, UpdatePipeline, pvars, callVars
  <2> QED
    BY <1>2, <2>2
<1>9. CASE StartSignal \/ DrainDone \/ DrainTimeout \/ Resend
  <2>1. /\ UNCHANGED <<pc, shut, hpc, idx>>
        /\ timedOut => timedOut'
    BY <1>9 DEF StartSignal, DrainDone, DrainTimeout, Resend, pvars, callVars
  <2>2. DrainInv'
    BY <1>9, <2>1
       DEF StartSignal, DrainDone, DrainTimeout, Resend, ServerInv, DrainInv,
           CtxDone, InProgress, HttpBusy
  <2> QED
    BY <1>1, <2>1, <2>2
<1>10. CASE StartPoolShutdown \/ MainClosesEngine \/ MainCloses
  <2>1. /\ UNCHANGED <<pc, hpc, idx, timedOut>>
        /\ spc \in {"pool", "engineClosed"}
        /\ spc' \in {"pool", "engineClosed", "closed"}
    BY <1>10 DEF StartPoolShutdown, MainClosesEngine, MainCloses,
       ShutdownCancel, ShutdownStep, ShutdownClose, ShutdownReturn,
       CloseQueue, callVars, pvars
  <2>2. DrainInv'
    BY <2>1 DEF ServerInv, DrainInv, InProgress
  <2> QED
    BY <1>1, <2>1, <2>2
<1>11. CASE UNCHANGED svars
  BY <1>2, <1>11 DEF svars, pvars, callVars
<1> QED
  BY <1>3, <1>4, <1>5, <1>6, <1>7, <1>8, <1>9, <1>10, <1>11
     DEF StartStep, WorkerGoesOn

LEMMA ServerInvAlways == ServerSpec => []ServerInv
<1>1. ServerInv /\ SafeInv /\ [ServerNext]_svars => ServerInv'
  <2> SUFFICES ASSUME ServerInv, SafeInv, [ServerNext]_svars
               PROVE  ServerInv'
    OBVIOUS
  <2>1. ServerTypeOK'
    BY ServerTypeStep DEF ServerInv
  <2>2. DrainInv' /\ CallInv' /\ HttpUndisturbed'
    BY ServerInvHandler, ServerInvCaller, ServerInvOther DEF ServerNext
  <2> QED
    BY <2>1, <2>2 DEF ServerInv
<1> QED
  BY <1>1, ServerInvInit, ServerSafeInv, PTL DEF ServerSpec

(* After a drain that did not time out no HTTP handler runs again.         *)
THEOREM ServerHttpDrained == ServerSpec => []HttpDrained
<1>1. ServerInv => HttpDrained
  BY DEF ServerInv, DrainInv, HttpDrained
<1> QED
  BY <1>1, ServerInvAlways, PTL

(* Unless the drain timed out, no HTTP request meets the cancelled pool.   *)
THEOREM ServerHttpUndisturbed == ServerSpec => []HttpUndisturbed
  BY ServerInvAlways, PTL DEF ServerInv

-----------------------------------------------------------------------------
(* The server is one process: it opens the queue once. *)
LEMMA ServerOneLife == ServerSpec => [](reopens = 0)
<1>1. ServerInit => reopens = 0
  BY DEF ServerInit, PoolInit, QueueInit
<1>2. ServerTypeOK /\ reopens = 0 /\ [ServerNext]_svars => (reopens = 0)'
  <2> SUFFICES ASSUME ServerTypeOK, [ServerNext]_svars
               PROVE  reopens' = reopens
    OBVIOUS
  <2> USE DEF qvars, pvars
  <2>1. ASSUME NEW r \in HttpReq, HttpArrive(r) \/ HandlerLeaves(r)
        PROVE  reopens' = reopens
    BY <2>1 DEF HttpArrive, HandlerLeaves
  <2>2. ASSUME NEW r \in GrpcReq, GrpcArrive(r) \/ StreamEnds(r)
        PROVE  reopens' = reopens
    BY <2>2 DEF GrpcArrive, StreamEnds
  <2>3. ASSUME NEW r \in Request, HandlerStep(r) PROVE reopens' = reopens
    BY <2>3 DEF HandlerStep, HandlerCall, SubmitCall, HandlerResult,
       HandlerError, HandlerNil, HandlerPanic
  <2>4. CASE \/ Signal \/ ReloadRequest \/ ServeFails \/ UnloadRequest
             \/ LoadStuck \/ UNCHANGED svars
    BY <2>4 DEF Signal, ReloadRequest, ServeFails, UnloadRequest, LoadStuck,
       svars
  <2>5. CASE StartStep
    <3>1. CASE StartReload \/ StartPoolShutdown \/ MainCloses
      BY <3>1, OneLife DEF StartReload, StartPoolShutdown, MainCloses
    <3>2. CASE \/ StartSignal \/ DrainDone \/ DrainTimeout \/ Resend
               \/ MainClosesEngine \/ MainReturns
      BY <3>2 DEF StartSignal, DrainDone, DrainTimeout, Resend,
         MainClosesEngine, MainReturns
    <3> QED
      BY <2>5, <3>1, <3>2 DEF StartStep
  <2>6. ASSUME NEW x \in Item, CallerStep(x) PROVE reopens' = reopens
    BY <2>6, OneLife DEF CallerStep
  <2>7. ASSUME NEW w \in Worker, WorkerGoesOn(w) PROVE reopens' = reopens
    BY <2>7, OneLife DEF WorkerGoesOn, PoolWorkerStep, WorkerLookup,
       WorkerPanics
  <2>8. CASE RecovererStep
    BY <2>8, OneLife DEF RecovererStep
  <2> QED
    BY <2>1, <2>2, <2>3, <2>4, <2>5, <2>6, <2>7, <2>8 DEF ServerNext
<1> QED
  BY <1>1, <1>2, ServerTypeCorrect, PTL DEF ServerSpec

(* Whose work is where. A call that nobody has answered yet belongs to a   *)
(* handler that waits for it, or to an HTTP handler whose client has left. *)
Pending(x) ==
    /\ pc[x] \in Inside \cup {"submitted"}
    /\ resultCh[x] = "open" /\ errCh[x] = "open"

Owns(r, i) ==
    \/ hpc[r] = "waiting" /\ idx[r] = i
    \/ r \in HttpReq /\ hpc[r] = "left"

OwnerInv ==
    \A r \in Request : \A i \in DOMAIN Inputs[r] :
        Pending(Inputs[r][i]) => Owns(r, i)

(* A worker has a model only inside Predict, and the engine closes it only *)
(* when the pool has been cancelled.                                       *)
LookupInv ==
    /\ \A w \in Worker :
          /\ lookup[w] # "none" => wpc[w] = "predict"
          /\ lookup[w] = "closed" => spc \in {"engineClosed", "closed"}
    /\ spc \in {"engineClosed", "closed"} => CtxDone

LEMMA CrashInvInit == ServerInit => OwnerInv /\ LookupInv
<1> SUFFICES ASSUME ServerInit PROVE OwnerInv /\ LookupInv
  OBVIOUS
<1>1. \A x \in Item : pc[x] = "new"
  BY PoolAssumption DEF ServerInit, PoolInit, Submitter
<1>2. OwnerInv
  BY <1>1, ServerAssumption DEF OwnerInv, Pending, Inside
<1>3. LookupInv
  BY DEF ServerInit, LookupInv
<1> QED
  BY <1>2, <1>3

(* A step that starts no call and leaves the handlers where they are. *)
LEMMA OwnerFrame ==
    ASSUME OwnerInv, UNCHANGED <<hpc, idx>>,
           \A x \in Item : Pending(x)' => Pending(x)
    PROVE  OwnerInv'
<1> SUFFICES ASSUME NEW r \in Request, NEW i \in DOMAIN Inputs[r],
                    Pending(Inputs[r][i])'
             PROVE  Owns(r, i)'
  BY DEF OwnerInv
<1>1. Inputs[r][i] \in Item
  BY ServerAssumption
<1>2. Pending(Inputs[r][i])
  BY <1>1
<1> QED
  BY <1>2 DEF OwnerInv, Owns

(* A handler moves, and its own call is answered or it has none. *)
LEMMA OwnerMove ==
    ASSUME OwnerInv, ServerTypeOK, NEW r \in Request,
           UNCHANGED <<pc, resultCh, errCh>>,
           \A q \in Request : q # r => hpc'[q] = hpc[q] /\ idx'[q] = idx[q],
           hpc[r] # "left",
           hpc[r] = "waiting" => ~Pending(Current(r))
    PROVE  OwnerInv'
<1> SUFFICES ASSUME NEW q \in Request, NEW i \in DOMAIN Inputs[q],
                    Pending(Inputs[q][i])
             PROVE  Owns(q, i)'
  BY DEF OwnerInv, Pending
<1>1. Owns(q, i)
  BY DEF OwnerInv
<1>2. q # r
  BY <1>1 DEF Owns, Current
<1> QED
  BY <1>1, <1>2 DEF Owns

LEMMA OwnerInvHandler ==
    ASSUME OwnerInv, ServerTypeOK, SafeInv, NEW r \in Request, HandlerStep(r)
    PROVE  OwnerInv'
<1> USE DEF handlerVars, pvars, callVars, replyVars
<1>1. /\ hpc \in [Request -> {"idle", "calling", "waiting", "ok", "error", "left"}]
      /\ idx \in [Request -> Nat \ {0}]
      /\ Current(r) \in Item /\ idx[r] \in DOMAIN Inputs[r]
  BY CurrentItem DEF ServerTypeOK
<1>2. CASE HandlerCall(r)
  <2>1. /\ hpc[r] = "calling" /\ hpc' = [hpc EXCEPT ![r] = "waiting"]
        /\ UNCHANGED <<idx, resultCh, errCh>>
        /\ \A y \in Item : y # Current(r) => pc'[y] = pc[y]
    BY <1>1, <1>2, SubmitCallStage DEF HandlerCall, SubmitCall, SafeInv
  <2> SUFFICES ASSUME NEW q \in Request, NEW i \in DOMAIN Inputs[q],
                      Pending(Inputs[q][i])'
               PROVE  Owns(q, i)'
    BY DEF OwnerInv
  <2>2. Inputs[q][i] \in Item
    BY ServerAssumption
  <2>3. CASE Inputs[q][i] = Current(r)
    <3>1. q = r /\ i = idx[r]
      BY <1>1, <2>3, ServerAssumption DEF Current
    <3> QED
      BY <1>1, <2>1, <3>1 DEF Owns
  <2>4. CASE Inputs[q][i] # Current(r)
    <3>1. Pending(Inputs[q][i])
      BY <2>1, <2>2, <2>4 DEF Pending
    <3>2. Owns(q, i) /\ q # r
      BY <2>1, <3>1 DEF OwnerInv, Owns
    <3> QED
      BY <1>1, <2>1, <3>2 DEF Owns
  <2> QED
    BY <2>3, <2>4
<1>3. CASE \/ HandlerResult(r) \/ HandlerError(r) \/ HandlerNil(r)
           \/ HandlerPanic(r)
  <2>1. UNCHANGED <<pc, resultCh, errCh>> /\ hpc[r] = "waiting"
    BY <1>3 DEF HandlerResult, HandlerError, HandlerNil, HandlerPanic
  <2>2. \A q \in Request : q # r => hpc'[q] = hpc[q] /\ idx'[q] = idx[q]
    BY <1>1, <1>3
       DEF HandlerResult, HandlerError, HandlerNil, HandlerPanic, NextInput
  <2>3. ~Pending(Current(r))
    BY <1>3 DEF HandlerResult, HandlerError, HandlerNil, HandlerPanic,
       Pending, Inside
  <2> QED
    BY <2>1, <2>2, <2>3, OwnerMove
<1> QED
  BY <1>2, <1>3 DEF HandlerStep

LEMMA OwnerInvStep ==
    ASSUME OwnerInv, ServerTypeOK, SafeInv, [ServerNext]_svars
    PROVE  OwnerInv'
<1> USE DEF handlerVars, pvars, callVars, replyVars, Pending
<1>0. /\ hpc \in [Request -> {"idle", "calling", "waiting", "ok", "error", "left"}]
      /\ TypeInv
      /\ resultCh \in [Item -> {"open", "sent", "closed"}]
      /\ errCh \in [Item -> {"open", "sent"}]
  BY DEF ServerTypeOK, SafeInv, TypeInv, PoolTypeOK
<1>1. ASSUME NEW r \in Request,
             HttpArrive(r) \/ GrpcArrive(r) \/ (r \in GrpcReq /\ StreamEnds(r))
      PROVE  OwnerInv'
  BY <1>0, <1>1, OwnerMove DEF HttpArrive, GrpcArrive, StreamEnds
<1>2. ASSUME NEW r \in HttpReq, HandlerLeaves(r) PROVE OwnerInv'
  <2>1. /\ UNCHANGED <<pc, resultCh, errCh, idx>>
        /\ hpc' = [hpc EXCEPT ![r] = "left"] /\ r \in Request
    BY <1>2 DEF HandlerLeaves, Request
  <2> SUFFICES ASSUME NEW q \in Request, NEW i \in DOMAIN Inputs[q],
                      Pending(Inputs[q][i])
               PROVE  Owns(q, i)'
    BY <2>1 DEF OwnerInv
  <2>2. Owns(q, i)
    BY DEF OwnerInv
  <2> QED
    BY <1>0, <2>1, <2>2 DEF Owns
<1>3. ASSUME NEW x \in Item, CallerStep(x) PROVE OwnerInv'
  <2>1. /\ pc[x] \in Inside /\ UNCHANGED <<hpc, idx>>
        /\ \A y \in Item : y # x => pc'[y] = pc[y]
    BY <1>0, <1>3, CallStepStage DEF CallerStep
  <2>2. resultCh[x] = "open" /\ errCh[x] = "open"
    BY <2>1 DEF SafeInv, FreshChannels, Unsent, Inside
  <2>3. \A y \in Item : y # x => resultCh'[y] = resultCh[y] /\ errCh'[y] = errCh[y]
    BY <1>0, <1>3 DEF CallerStep, CallStep, SubmitStep, SubmitEnqueue,
       SubmitLen, SubmitGauge, SubmitSend, SubmitCancelled, SubmitPanics
  <2> QED
    BY <2>1, <2>2, <2>3, OwnerFrame
<1>4. ASSUME NEW w \in Worker, PoolWorkerStep(w) PROVE OwnerInv'
  <2>1. UNCHANGED <<hpc, idx, pc>>
    BY <1>4 DEF PoolWorkerStep, WorkerStep, WorkerTake, WorkerAdvance,
       WorkerFail, WorkerReply, WorkerExit
  <2>2. \A x \in Item : /\ resultCh'[x] = "open" => resultCh[x] = "open"
                        /\ errCh'[x] = "open" => errCh[x] = "open"
    BY <1>0, <1>4 DEF PoolWorkerStep, WorkerStep, WorkerTake, WorkerAdvance,
       WorkerFail, WorkerReply, WorkerExit
  <2> QED
    BY <2>1, <2>2, OwnerFrame
<1>5. CASE RecovererStep
  <2>1. UNCHANGED <<hpc, idx, resultCh, errCh>>
    BY <1>5 DEF RecovererStep, RecoveryStep, SubmitStep, SubmitEnqueue,
       SubmitLen, SubmitGauge, SubmitSend, RecoverDequeue, RecoverDone
  <2>2. \A y \in Item : pc'[y] = pc[y]
    BY <1>0, <1>5, OtherStepStage DEF RecovererStep
  <2> QED
    BY <2>1, <2>2, OwnerFrame
<1>6. CASE \/ Signal \/ ReloadRequest \/ ServeFails \/ UnloadRequest
           \/ LoadStuck \/ (\E w \in Worker : WorkerLookup(w) \/ WorkerPanics(w))
           \/ UNCHANGED svars
  BY <1>6, OwnerFrame DEF Signal, ReloadRequest, ServeFails, UnloadRequest,
     LoadStuck, WorkerLookup, WorkerPanics, svars
<1>7. CASE StartStep
  <2>1. UNCHANGED <<hpc, idx, pc, resultCh, errCh>>
    BY <1>7 DEF StartStep, StartReload, StartSignal, DrainDone, DrainTimeout,
       Resend, StartPoolShutdown, MainClosesEngine, MainCloses, MainReturns,
       UpdatePipeline, ShutdownCancel, ShutdownStep, ShutdownClose,
       ShutdownReturn, CloseQueue
  <2> QED
    BY <2>1, OwnerFrame
<1> QED
  BY <1>1, <1>2, <1>3, <1>4, <1>5, <1>6, <1>7, OwnerInvHandler
     DEF ServerNext, WorkerGoesOn, Request

LEMMA LookupInvStep ==
    ASSUME LookupInv, ServerTypeOK, SafeInv, [ServerNext]_svars
    PROVE  LookupInv'
<1> USE DEF startVars, engineVars, pvars, workVars, CtxDone
<1>0. /\ wpc \in [Worker -> {"select", "pre", "predict", "post", "exited"}]
      /\ lookup \in [Worker -> {"none", "open", "unloaded", "closed"}]
      /\ TypeInv
  BY DEF ServerTypeOK, SafeInv, TypeInv, PoolTypeOK
<1>1. ASSUME UNCHANGED <<wpc, lookup, spc, shut>> PROVE LookupInv'
  BY <1>1 DEF LookupInv
<1>2. ASSUME NEW r \in Request,
             \/ HttpArrive(r) \/ HandlerLeaves(r) \/ GrpcArrive(r)
             \/ StreamEnds(r) \/ HandlerStep(r)
      PROVE  LookupInv'
  BY <1>1, <1>2 DEF HttpArrive, HandlerLeaves, GrpcArrive, StreamEnds,
     HandlerStep, HandlerCall, SubmitCall, HandlerResult, HandlerError,
     HandlerNil, HandlerPanic
<1>3. CASE \/ Signal \/ ReloadRequest \/ ServeFails \/ LoadStuck
           \/ RecovererStep \/ UNCHANGED svars
  BY <1>1, <1>3 DEF Signal, ReloadRequest, ServeFails, LoadStuck, svars,
     RecovererStep, RecoveryStep, SubmitStep, SubmitEnqueue, SubmitLen,
     SubmitGauge, SubmitSend, RecoverDequeue, RecoverDone
<1>4. ASSUME NEW x \in Item, CallerStep(x) PROVE LookupInv'
  BY <1>1, <1>4 DEF CallerStep, CallStep, SubmitStep, SubmitEnqueue,
     SubmitLen, SubmitGauge, SubmitSend, SubmitCancelled, SubmitPanics
<1>5. ASSUME NEW w \in Worker, PoolWorkerStep(w) PROVE LookupInv'
  <2>1. /\ UNCHANGED <<spc, shut>>
        /\ lookup' = [lookup EXCEPT ![w] = "none"]
        /\ \A v \in Worker : v # w => wpc'[v] = wpc[v]
    BY <1>0, <1>5 DEF PoolWorkerStep, WorkerStep, WorkerTake, WorkerAdvance,
       WorkerFail, WorkerReply, WorkerExit, Finish
  <2> QED
    BY <1>0, <2>1 DEF LookupInv
<1>6. ASSUME NEW w \in Worker, WorkerLookup(w) \/ WorkerPanics(w)
      PROVE  LookupInv'
  BY <1>0, <1>6 DEF WorkerLookup, WorkerPanics, LookupInv
<1>7. CASE UnloadRequest
  BY <1>0, <1>7 DEF UnloadRequest, LookupInv
<1>8. CASE StartStep
  <2>1. CASE \/ StartReload \/ StartSignal \/ DrainDone \/ DrainTimeout
             \/ Resend \/ MainReturns
    <3>1. /\ UNCHANGED <<wpc, lookup, shut>>
          /\ \/ spc' = spc
             \/ /\ spc \notin {"engineClosed", "closed"}
                /\ spc' \notin {"engineClosed", "closed"}
      BY <2>1 DEF StartReload, StartSignal, DrainDone, DrainTimeout, Resend,
         MainReturns, UpdatePipeline
    <3> QED
      BY <3>1 DEF LookupInv
  <2>2. CASE StartPoolShutdown
    BY <2>2 DEF StartPoolShutdown, ShutdownCancel, ShutdownStep,
       ShutdownClose, ShutdownReturn, LookupInv
  <2>3. CASE MainClosesEngine
    BY <1>0, <2>3 DEF MainClosesEngine, LookupInv
  <2>4. CASE MainCloses
    BY <2>4 DEF MainCloses, CloseQueue, LookupInv
  <2> QED
    BY <1>8, <2>1, <2>2, <2>3, <2>4 DEF StartStep
<1> QED
  BY <1>2, <1>3, <1>4, <1>5, <1>6, <1>7, <1>8
     DEF ServerNext, WorkerGoesOn, Request

LEMMA CrashInvAlways == ServerSpec => [](OwnerInv /\ LookupInv)
<1>1. /\ OwnerInv /\ LookupInv /\ ServerTypeOK /\ SafeInv
      /\ [ServerNext]_svars
      => OwnerInv' /\ LookupInv'
  BY OwnerInvStep, LookupInvStep
<1> QED
  BY <1>1, CrashInvInit, ServerTypeCorrect, ServerSafeInv, PTL DEF ServerSpec

(* A gRPC handler, or a worker inside Predict, ends the process by a       *)
(* panic, and no step follows.                                             *)
LEMMA CrashStep ==
    ASSUME [ServerNext]_svars, proc' = "crashed"
    PROVE  \/ UNCHANGED svars
           \/ \E r \in Request \ HttpReq : HandlerNil(r) \/ HandlerPanic(r)
           \/ \E w \in Worker : WorkerPanics(w)
<1>1. ASSUME NEW r \in HttpReq, HttpArrive(r) \/ HandlerLeaves(r) PROVE FALSE
  BY <1>1 DEF HttpArrive, HandlerLeaves
<1>2. ASSUME NEW r \in GrpcReq, GrpcArrive(r) \/ StreamEnds(r) PROVE FALSE
  BY <1>2 DEF GrpcArrive, StreamEnds
<1>3. ASSUME NEW r \in Request, HandlerStep(r)
      PROVE  r \notin HttpReq /\ (HandlerNil(r) \/ HandlerPanic(r))
  <2>1. CASE HandlerCall(r) \/ HandlerResult(r) \/ HandlerError(r)
    BY <2>1 DEF HandlerCall, HandlerResult, HandlerError
  <2>2. CASE HandlerNil(r) \/ HandlerPanic(r)
    BY <2>2 DEF HandlerNil, HandlerPanic
  <2> QED
    BY <1>3, <2>1, <2>2 DEF HandlerStep
<1>4. ~(Signal \/ ReloadRequest \/ ServeFails \/ UnloadRequest \/ LoadStuck)
  BY DEF Signal, ReloadRequest, ServeFails, UnloadRequest, LoadStuck
<1>5. ~StartStep
  BY DEF StartStep, StartReload, StartSignal, DrainDone, DrainTimeout, Resend,
     StartPoolShutdown, MainClosesEngine, MainCloses, MainReturns
<1>6. ~RecovererStep
  BY DEF RecovererStep
<1>7. ASSUME NEW x \in Item, CallerStep(x) PROVE FALSE
  BY <1>7 DEF CallerStep
<1>8. ASSUME NEW w \in Worker, PoolWorkerStep(w) \/ WorkerLookup(w) PROVE FALSE
  BY <1>8 DEF PoolWorkerStep, WorkerLookup
<1> QED
  BY <1>1, <1>2, <1>3, <1>4, <1>5, <1>6, <1>7, <1>8 DEF ServerNext, WorkerGoesOn

(* The task of a worker inside Predict is a recovered one, or the call of  *)
(* a request that waits for it or whose client has left.                   *)
LEMMA PredictOwner ==
    ASSUME OwnerInv, ServerTypeOK, SafeInv, NEW w \in Worker,
           wpc[w] = "predict"
    PROVE  \/ wtask[w].owner = Recovery
           \/ \E r \in Request : InProgress(r)
           \/ \E r \in HttpReq : hpc[r] = "left"
<1>1. w \in Holding /\ wtask[w].owner \in Submitter
  BY DEF Holding, SafeInv, TypeInv, HeldShape, Task
<1>2. ASSUME wtask[w].owner # Recovery
      PROVE  \/ \E r \in Request : InProgress(r)
             \/ \E r \in HttpReq : hpc[r] = "left"
  <2>1. PICK x \in Item : wtask[w].owner = x
    BY <1>1, <1>2 DEF Submitter
  <2>2. Held(x)
    BY <1>1, <2>1 DEF Held
  <2>3. Pending(x)
    BY <2>2 DEF SafeInv, ReplyReady, Pending
  <2>4. PICK r \in Request : \E i \in DOMAIN Inputs[r] : Inputs[r][i] = x
    BY ServerAssumption
  <2>5. \E i \in DOMAIN Inputs[r] : Owns(r, i)
    BY <2>3, <2>4 DEF OwnerInv
  <2> QED
    BY <2>5 DEF Owns, InProgress
<1> QED
  BY <1>2

(* Unless a model was unloaded under a call, the process panics only while *)
(* it shuts down, and on account of work the drain did not wait for: an    *)
(* HTTP request whose drain timed out or whose client has left, a gRPC     *)
(* call, or a recovered task (pool.go:162-168, server.go:299).             *)
THEOREM ServerCrashCauses == ServerSpec => []CrashCauses
<1>1. ServerInit => CrashCauses
  BY DEF ServerInit, CrashCauses
<1>2. /\ ServerInv /\ SafeInv /\ StopInv /\ OwnerInv /\ LookupInv
      /\ reopens = 0 /\ CrashCauses /\ [ServerNext]_svars
      => CrashCauses'
  <2> SUFFICES ASSUME ServerInv, SafeInv, StopInv, OwnerInv, LookupInv,
                      reopens = 0, CrashCauses,
                      [ServerNext]_svars, proc' = "crashed"
               PROVE  CrashCauses'
    BY DEF CrashCauses
  <2> USE DEF handlerVars, startVars, engineVars, pvars, callVars, workVars
  <2>0. ServerTypeOK
    BY DEF ServerInv
  <2>1. CASE UNCHANGED svars
    BY <2>1 DEF svars, CrashCauses, CtxDone, InProgress
  <2>2. ASSUME NEW r \in Request \ HttpReq, HandlerNil(r) \/ HandlerPanic(r)
        PROVE  CrashCauses'
    <3>1. /\ r \in GrpcReq /\ hpc[r] = "waiting" /\ UNCHANGED <<hpc, pc, shut>>
          /\ resultCh[Current(r)] = "closed" \/ pc[Current(r)] = "panicked"
      BY <2>2 DEF HandlerNil, HandlerPanic, Request
    <3>2. Current(r) \in Item
      BY <2>0, CurrentItem
    <3>3. CtxDone
      BY <3>1, <3>2 DEF StopInv
    <3> QED
      BY <3>1, <3>3 DEF CrashCauses, InProgress, CtxDone
  <2>3. ASSUME NEW w \in Worker, WorkerPanics(w) PROVE CrashCauses'
    <3>1. /\ wpc[w] = "predict" /\ lookup[w] \in {"unloaded", "closed"}
          /\ UNCHANGED <<hpc, shut, timedOut, lookup, wtask>>
      BY <2>3 DEF WorkerPanics
    <3>2. lookup[w] = "closed" => CtxDone
      BY <3>1 DEF LookupInv
    <3>3. CtxDone /\ (\E r \in HttpReq : InProgress(r)) => timedOut
      BY DEF ServerInv, DrainInv
    <3>4. \/ wtask[w].owner = Recovery
          \/ \E r \in Request : InProgress(r)
          \/ \E r \in HttpReq : hpc[r] = "left"
      BY <2>0, <3>1, PredictOwner
    <3> QED
      BY <3>1, <3>2, <3>3, <3>4 DEF CrashCauses, InProgress, CtxDone, Request
  <2> QED
    BY <2>1, <2>2, <2>3, CrashStep
<1>3. ServerSpec => []StopInv
  BY ServerImplementsPool, StopInvAlways
<1> QED
  BY <1>1, <1>2, <1>3, ServerInvAlways, ServerSafeInv, CrashInvAlways,
     ServerOneLife, PTL DEF ServerSpec

(* In the running server, with fewer inputs than sequence numbers, no      *)
(* request that was persisted is lost (docs/api_worker_integration.md:20). *)
THEOREM ServerNoTaskLost == FewCalls => (ServerSpec => []NoTaskLost)
  BY PoolLossNeedsRestart, ServerImplementsPool, ServerOneLife, PTL
=============================================================================
