-------------------------- MODULE WorkerPoolProofs --------------------------
(***************************************************************************)
(* Proofs about WorkerPool, for any number of callers and workers, any     *)
(* channel capacity, with or without the persistent queue, and across      *)
(* restarts.                                                               *)
(***************************************************************************)
EXTENDS WorkerPool, FiniteSetTheorems, TLAPS

USE QueueAssumption, PoolAssumption

-----------------------------------------------------------------------------
(* The inductive invariant adds to the type invariant what the types of    *)
(* the two local variables depend on: while the recovery loop is inside    *)
(* Submit it holds a decoded task, and a worker past the select holds a    *)
(* task.                                                                   *)
RecoveryShape ==
    /\ pc[Recovery] \in {"dequeue", "enqueue", "len", "gauge", "send", "done"}
    /\ pc[Recovery] \in {"enqueue", "len", "gauge", "send"} => recItem \in Item

HeldShape == \A w \in Holding : wtask[w] \in Task

TypeInv == PoolTypeOK /\ RecoveryShape /\ HeldShape

(* Len of the queue is a number: the keys in use are finitely many. *)
LEMMA QueueLenNat == QueueLen \in Nat
<1>1. IsFiniteSet(0 .. SeqSpace - 1)
  BY FS_Interval
<1>2. IsFiniteSet(Live)
  BY <1>1, FS_Subset DEF Live, Key
<1> QED
  BY <1>2, FS_CardinalityType DEF QueueLen

LEMMA NextSeqKey == ASSUME QueueTypeOK PROVE NextSeq \in Key
  BY DEF QueueTypeOK, NextSeq, Key

(* The argument of a Submit call under way is an item. *)
LEMMA InputItem ==
    ASSUME TypeInv, NEW s \in Submitter,
           pc[s] \in {"enqueue", "len", "gauge", "send"}
    PROVE  Input(s) \in Item
  BY DEF TypeInv, RecoveryShape, Input, Submitter

LEMMA TypeInvInit == PoolInit => TypeInv
<1> SUFFICES ASSUME PoolInit PROVE TypeInv
  OBVIOUS
<1>1. QueueTypeOK
  BY DEF PoolInit, QueueInit, QueueTypeOK, Key
<1>2. RecoveryShape
  BY DEF PoolInit, RecoveryShape, RecoveryStart, Submitter
<1>3. HeldShape
  BY DEF PoolInit, HeldShape, Holding
<1>4. /\ pc \in [Submitter -> Stage]
      /\ tasks \in Seq(Task) /\ Len(tasks) <= QueueCap
  BY DEF PoolInit, Stage, RecoveryStart
<1> QED
  BY <1>1, <1>2, <1>3, <1>4 DEF TypeInv, PoolTypeOK, PoolInit

(* The steps of a Submit call that stay inside Submit. *)
LEMMA TypeInvSubmit ==
    ASSUME TypeInv, NEW s \in Submitter, SubmitStep(s)
    PROVE  TypeInv'
<1> USE DEF TypeInv, PoolTypeOK, RecoveryShape, HeldShape, Holding, Stage,
        workVars, replyVars
<1>1. CASE SubmitEnqueue(s)
  <2>1. Input(s) \in Item
    BY <1>1, InputItem DEF SubmitEnqueue
  <2>2. QueueTypeOK'
    <3>1. NextSeq \in Key
      BY NextSeqKey DEF QueueTypeOK
    <3> QED
      BY <1>1, <2>1, <3>1
         DEF SubmitEnqueue, EnqueueOk, EnqueueErr, TxnFails, QueueTypeOK
  <2> QED
    BY <1>1, <2>1, <2>2 DEF SubmitEnqueue
<1>2. CASE SubmitLen(s)
  <2>1. depth' \in [Submitter -> Nat] /\ pc' \in [Submitter -> Stage]
    <3>1. CASE depth' = [depth EXCEPT ![s] = QueueLen]
      BY <1>2, <3>1, QueueLenNat DEF SubmitLen, TxnFails
    <3>2. CASE depth' = depth
      BY <1>2, <3>2 DEF SubmitLen, TxnFails
    <3> QED
      BY <1>2, <3>1, <3>2 DEF SubmitLen
  <2>2. RecoveryShape'
    BY <1>2 DEF SubmitLen, Submitter
  <2> QED
    BY <1>2, <2>1, <2>2 DEF SubmitLen, QueueTypeOK, qvars
<1>3. CASE SubmitGauge(s)
  BY <1>3 DEF SubmitGauge, QueueTypeOK, qvars
<1>4. CASE SubmitSend(s)
  <2>1. [owner |-> s, item |-> Input(s)] \in Task
    BY <1>4, InputItem DEF SubmitSend, Task
  <2>2. tasks' \in Seq(Task) /\ Len(tasks') <= QueueCap
    BY <1>4, <2>1 DEF SubmitSend
  <2> QED
    BY <1>4, <2>2 DEF SubmitSend, QueueTypeOK, qvars
<1> QED
  BY <1>1, <1>2, <1>3, <1>4 DEF SubmitStep

(* The other steps of callers and of the recovery loop. *)
LEMMA TypeInvCall ==
    ASSUME TypeInv, NEW x \in Item,
           SubmitCall(x) \/ SubmitCancelled(x) \/ SubmitPanics(x)
    PROVE  TypeInv'
<1> USE DEF TypeInv, PoolTypeOK, RecoveryShape, HeldShape, Holding, Stage,
        workVars, replyVars, qvars, QueueTypeOK, Submitter
<1>1. CASE SubmitCall(x)
  BY <1>1 DEF SubmitCall
<1>2. CASE SubmitCancelled(x)
  BY <1>2 DEF SubmitCancelled
<1>3. CASE SubmitPanics(x)
  BY <1>3 DEF SubmitPanics
<1> QED
  BY <1>1, <1>2, <1>3

LEMMA TypeInvRecovery ==
    ASSUME TypeInv, RecoverDequeue \/ RecoverDone
    PROVE  TypeInv'
<1> USE DEF TypeInv, PoolTypeOK, RecoveryShape, HeldShape, Holding, Stage,
        workVars, replyVars, Submitter
<1>1. CASE RecoverDequeue
  <2>1. QueueTypeOK' /\ recItem' \in Item
    BY <1>1 DEF RecoverDequeue, DequeueOk, QueueTypeOK
  <2> QED
    BY <1>1, <2>1 DEF RecoverDequeue
<1>2. CASE RecoverDone
  BY <1>2 DEF RecoverDone, DequeueErr, qvars, QueueTypeOK
<1> QED
  BY <1>1, <1>2

LEMMA TypeInvWorker ==
    ASSUME TypeInv, NEW w \in Worker, WorkerStep(w)
    PROVE  TypeInv'
<1> USE DEF TypeInv, PoolTypeOK, RecoveryShape, HeldShape, Holding,
        callVars, replyVars, qvars, QueueTypeOK
<1>1. CASE WorkerTake(w)
  <2>1. /\ Head(tasks) \in Task
        /\ tasks' \in Seq(Task) /\ Len(tasks') <= QueueCap
    BY <1>1 DEF WorkerTake
  <2> QED
    BY <1>1, <2>1 DEF WorkerTake
<1>2. CASE WorkerAdvance(w)
  BY <1>2 DEF WorkerAdvance
<1>3. ASSUME wpc[w] \in {"pre", "predict", "post"}
      PROVE  wtask[w].item \in Item /\ wtask[w].owner \in Submitter
  BY <1>3 DEF Task
<1>4. CASE WorkerFail(w)
  BY <1>3, <1>4 DEF WorkerFail, Finish
<1>5. CASE WorkerReply(w)
  BY <1>3, <1>5 DEF WorkerReply, Finish
<1>6. CASE WorkerExit(w)
  BY <1>6 DEF WorkerExit
<1> QED
  BY <1>1, <1>2, <1>4, <1>5, <1>6 DEF WorkerStep

LEMMA TypeInvProcess ==
    ASSUME TypeInv,
           \/ ShutdownCancel \/ ShutdownStep \/ UpdatePipeline
           \/ CloseQueue \/ Restart \/ UNCHANGED pvars
    PROVE  TypeInv'
<1> USE DEF TypeInv, PoolTypeOK, RecoveryShape, HeldShape, Holding,
        callVars, workVars, replyVars, qvars, QueueTypeOK
<1>1. CASE ShutdownCancel \/ ShutdownStep
  BY <1>1 DEF ShutdownCancel, ShutdownStep, ShutdownClose, ShutdownReturn
<1>2. CASE UpdatePipeline
  BY <1>2 DEF UpdatePipeline
<1>3. CASE CloseQueue
  BY <1>3 DEF CloseQueue, Close
<1>4. CASE Restart
  <2>1. pc' \in [Submitter -> Stage] /\ pc'[Recovery] = "dequeue"
    BY <1>4 DEF Restart, Stage, Submitter
  <2>2. QueueTypeOK'
    BY <1>4 DEF Restart, Reopen, Key
  <2>3. tasks' \in Seq(Task) /\ Len(tasks') <= QueueCap
    BY <1>4 DEF Restart
  <2> QED
    BY <1>4, <2>1, <2>2, <2>3 DEF Restart
<1>5. CASE UNCHANGED pvars
  BY <1>5 DEF pvars
<1> QED
  BY <1>1, <1>2, <1>3, <1>4, <1>5

LEMMA TypeInvStep == TypeInv /\ [PoolNext]_pvars => TypeInv'
  BY TypeInvSubmit, TypeInvCall, TypeInvRecovery, TypeInvWorker,
     TypeInvProcess
     DEF PoolNext, CallStep, RecoveryStep, Submitter

LEMMA TypeInvAlways == PoolSpec => []TypeInv
  BY TypeInvInit, TypeInvStep, PTL DEF PoolSpec

(* Every state of the pool is well typed; in particular the tasks channel  *)
(* never holds more than its capacity and every task in it is complete.    *)
THEOREM PoolTypeCorrect == PoolSpec => []PoolTypeOK
  BY TypeInvAlways, PTL DEF TypeInv

-----------------------------------------------------------------------------
(* The second inductive invariant. ReplyReady alone is not inductive: it   *)
(* needs OneOwner (a reply must not answer for a task still queued), the   *)
(* fact that a call that is not yet submitted is neither queued nor held   *)
(* (the contrapositive of its last conjunct), and that its channels are    *)
(* still as make() left them.                                              *)
Unsent == {"new", "enqueue", "len", "gauge", "send"}

FreshChannels ==
    \A x \in Item : pc[x] \in Unsent => resultCh[x] = "open" /\ errCh[x] = "open"

SafeInv ==
    /\ TypeInv
    /\ OneOwner
    /\ ReplyReady
    /\ NoLostTask
    /\ AtMostOneReply
    /\ FreshChannels

LEMMA SafeInvInit == PoolInit => SafeInv
<1> SUFFICES ASSUME PoolInit PROVE SafeInv
  OBVIOUS
<1>1. TypeInv
  BY TypeInvInit
<1>2. DOMAIN tasks = {} /\ Holding = {}
  BY DEF PoolInit, Holding
<1>3. \A x \in Item : pc[x] = "new"
  BY DEF PoolInit, Submitter
<1> QED
  BY <1>1, <1>2, <1>3
     DEF SafeInv, OneOwner, ReplyReady, NoLostTask, AtMostOneReply,
         FreshChannels, Queued, Held, PoolInit

(* A step that moves no task, sends no reply and lets calls only advance   *)
(* inside Submit, or panic there, keeps the invariant.                     *)
LEMMA SafeFrame ==
    ASSUME SafeInv, TypeInv',
           UNCHANGED <<tasks, wtask, Holding, resultCh, errCh>>,
           \A x \in Item : \/ pc'[x] = pc[x]
                           \/ pc[x] \in Unsent /\ pc'[x] \in Unsent
                           \/ pc[x] \in Unsent /\ pc'[x] = "panicked"
    PROVE  SafeInv'
<1> USE DEF SafeInv, Unsent
<1>1. OneOwner' /\ AtMostOneReply'
  BY DEF OneOwner, AtMostOneReply
<1>2. \A x \in Item : (Queued(x)' <=> Queued(x)) /\ (Held(x)' <=> Held(x))
  BY DEF Queued, Held
<1>3. ReplyReady'
  BY <1>2 DEF ReplyReady
<1>4. NoLostTask'
  BY <1>2 DEF NoLostTask
<1>5. FreshChannels'
  BY DEF FreshChannels
<1> QED
  BY <1>1, <1>3, <1>4, <1>5

(* The frame lemma applies to every step but those that move a task, send  *)
(* a reply or restart the process.                                         *)
LEMMA SafeInvQuiet ==
    ASSUME SafeInv, TypeInv',
           \/ \E s \in Submitter :
                 SubmitEnqueue(s) \/ SubmitLen(s) \/ SubmitGauge(s)
           \/ \E x \in Item : SubmitCall(x) \/ SubmitPanics(x)
           \/ RecoverDequeue \/ RecoverDone
           \/ \E w \in Worker : WorkerAdvance(w) \/ WorkerExit(w)
           \/ ShutdownCancel \/ ShutdownStep \/ UpdatePipeline \/ CloseQueue
           \/ UNCHANGED pvars
    PROVE  SafeInv'
<1> USE DEF callVars, workVars, replyVars, Holding
<1>0. /\ pc \in [Submitter -> Stage]
      /\ wpc \in [Worker -> {"select", "pre", "predict", "post", "exited"}]
  BY DEF SafeInv, TypeInv, PoolTypeOK
<1>1. ASSUME NEW s \in Submitter,
             SubmitEnqueue(s) \/ SubmitLen(s) \/ SubmitGauge(s)
      PROVE  SafeInv'
  BY <1>0, <1>1, SafeFrame
     DEF SubmitEnqueue, SubmitLen, SubmitGauge, Unsent, Submitter, TxnFails
<1>2. ASSUME NEW x \in Item, SubmitCall(x) \/ SubmitPanics(x)
      PROVE  SafeInv'
  BY <1>0, <1>2, SafeFrame DEF SubmitCall, SubmitPanics, Unsent, Submitter
<1>3. CASE RecoverDequeue \/ RecoverDone
  BY <1>0, <1>3, SafeFrame DEF RecoverDequeue, RecoverDone, Submitter
<1>4. ASSUME NEW w \in Worker, WorkerAdvance(w) \/ WorkerExit(w)
      PROVE  SafeInv'
  <2>1. Holding' = Holding
    BY <1>0, <1>4 DEF WorkerAdvance, WorkerExit
  <2> QED
    BY <1>4, <2>1, SafeFrame DEF WorkerAdvance, WorkerExit
<1>5. CASE \/ ShutdownCancel \/ ShutdownStep \/ UpdatePipeline \/ CloseQueue
           \/ UNCHANGED pvars
  BY <1>5, SafeFrame
     DEF ShutdownCancel, ShutdownStep, ShutdownClose, ShutdownReturn,
         UpdatePipeline, CloseQueue, pvars
<1> QED
  BY <1>1, <1>2, <1>3, <1>4, <1>5

(* Sending a task to the channel. *)
LEMMA SafeInvSend ==
    ASSUME SafeInv, TypeInv', NEW s \in Submitter, SubmitSend(s)
    PROVE  SafeInv'
<1> DEFINE n == Len(tasks) + 1
<1> USE DEF SafeInv
<1>1. /\ tasks \in Seq(Task) /\ pc \in [Submitter -> Stage]
      /\ wpc' = wpc /\ wtask' = wtask /\ UNCHANGED replyVars
      /\ pc[s] = "send"
      /\ pc' = [pc EXCEPT ![s] = IF s = Recovery THEN "dequeue" ELSE "submitted"]
  BY DEF TypeInv, PoolTypeOK, SubmitSend
<1>2. /\ n \notin DOMAIN tasks
      /\ DOMAIN tasks' = DOMAIN tasks \cup {n}
      /\ tasks'[n].owner = s
      /\ \A i \in DOMAIN tasks : tasks'[i] = tasks[i]
  BY <1>1 DEF SubmitSend
<1>3. Holding' = Holding
  BY <1>1 DEF Holding
<1>4. s \in Item => ~Queued(s) /\ ~Held(s)
  BY <1>1 DEF ReplyReady
<1>5. \A x \in Item : /\ Queued(x)' <=> Queued(x) \/ x = s
                      /\ Held(x)' <=> Held(x)
  BY <1>1, <1>2, <1>3 DEF Queued, Held
<1>6. OneOwner'
  BY <1>1, <1>2, <1>3, <1>4 DEF OneOwner, Queued, Held, Submitter
<1>7. ReplyReady'
  BY <1>1, <1>5 DEF ReplyReady, FreshChannels, Unsent, replyVars, Submitter
<1>8. NoLostTask'
  BY <1>1, <1>5 DEF NoLostTask, replyVars, Submitter
<1>9. AtMostOneReply' /\ FreshChannels'
  BY <1>1 DEF AtMostOneReply, FreshChannels, Unsent, replyVars, Submitter
<1> QED
  BY <1>6, <1>7, <1>8, <1>9

(* Submit gives up because the pool is shutting down. *)
LEMMA SafeInvCancelled ==
    ASSUME SafeInv, TypeInv', NEW x \in Item, SubmitCancelled(x)
    PROVE  SafeInv'
<1> USE DEF SafeInv
<1>1. /\ pc \in [Submitter -> Stage]
      /\ resultCh \in [Item -> {"open", "sent", "closed"}]
      /\ errCh \in [Item -> {"open", "sent"}]
      /\ UNCHANGED <<tasks, wpc, wtask>>
      /\ pc[x] = "send"
      /\ pc' = [pc EXCEPT ![x] = "cancelled"]
      /\ errCh' = [errCh EXCEPT ![x] = "sent"]
      /\ resultCh' = [resultCh EXCEPT ![x] = "closed"]
  BY DEF TypeInv, PoolTypeOK, SubmitCancelled, workVars
<1>2. \A y \in Item : (Queued(y)' <=> Queued(y)) /\ (Held(y)' <=> Held(y))
  BY <1>1 DEF Queued, Held, Holding
<1>3. ~Queued(x) /\ ~Held(x)
  BY <1>1 DEF ReplyReady
<1>4. OneOwner'
  BY <1>1 DEF OneOwner, Holding
<1>5. ReplyReady'
  BY <1>1, <1>2, <1>3 DEF ReplyReady, Submitter
<1>6. NoLostTask' /\ AtMostOneReply' /\ FreshChannels'
  BY <1>1, <1>2 DEF NoLostTask, AtMostOneReply, FreshChannels, Unsent, Submitter
<1> QED
  BY <1>4, <1>5, <1>6

(* A worker takes the head of the channel. *)
LEMMA SafeInvTake ==
    ASSUME SafeInv, TypeInv', NEW w \in Worker, WorkerTake(w)
    PROVE  SafeInv'
<1> USE DEF SafeInv
<1>1. /\ tasks \in Seq(Task) /\ tasks # <<>> /\ tasks' = Tail(tasks)
      /\ wpc \in [Worker -> {"select", "pre", "predict", "post", "exited"}]
      /\ wtask \in [Worker -> Task \cup {NoTask}]
      /\ wpc[w] = "select" /\ wpc' = [wpc EXCEPT ![w] = "pre"]
      /\ wtask' = [wtask EXCEPT ![w] = Head(tasks)]
      /\ UNCHANGED <<pc, resultCh, errCh>>
  BY DEF TypeInv, PoolTypeOK, WorkerTake, callVars, replyVars
<1>2. /\ 1 \in DOMAIN tasks
      /\ \A i \in DOMAIN tasks' : i + 1 \in DOMAIN tasks /\ tasks'[i] = tasks[i + 1]
      /\ \A i \in DOMAIN tasks : i # 1 => i - 1 \in DOMAIN tasks' /\ tasks'[i - 1] = tasks[i]
      /\ DOMAIN tasks \subseteq Nat /\ DOMAIN tasks' \subseteq Nat \ {0}
  BY <1>1
<1>3. /\ w \notin Holding /\ Holding' = Holding \cup {w}
      /\ wtask'[w] = tasks[1]
      /\ \A v \in Holding : wtask'[v] = wtask[v]
  BY <1>1 DEF Holding
<1>4. \A x \in Item : (Queued(x) \/ Held(x))' <=> Queued(x) \/ Held(x)
  <2> SUFFICES ASSUME NEW x \in Item
               PROVE  (Queued(x) \/ Held(x))' <=> Queued(x) \/ Held(x)
    OBVIOUS
  <2>1. Queued(x)' => Queued(x)
    BY <1>2 DEF Queued
  <2>2. Held(x)' => Queued(x) \/ Held(x)
    BY <1>2, <1>3 DEF Queued, Held
  <2>3. Queued(x) => Queued(x)' \/ Held(x)'
    BY <1>2, <1>3 DEF Queued, Held
  <2>4. Held(x) => Held(x)'
    BY <1>3 DEF Held
  <2> QED
    BY <2>1, <2>2, <2>3, <2>4
<1>5. OneOwner'
  <2>1. \A i, j \in DOMAIN tasks' :
           tasks'[i].owner = tasks'[j].owner /\ tasks'[i].owner # Recovery => i = j
    BY <1>2 DEF OneOwner
  <2>2. \A u, v \in Holding' :
           wtask'[u].owner = wtask'[v].owner /\ wtask'[u].owner # Recovery => u = v
    BY <1>2, <1>3 DEF OneOwner
  <2>3. \A i \in DOMAIN tasks', v \in Holding' :
           tasks'[i].owner = wtask'[v].owner => tasks'[i].owner = Recovery
    BY <1>2, <1>3 DEF OneOwner
  <2> QED
    BY <2>1, <2>2, <2>3 DEF OneOwner
<1>6. ReplyReady'
  BY <1>1, <1>4 DEF ReplyReady
<1>7. NoLostTask'
  BY <1>1, <1>4 DEF NoLostTask
<1>8. AtMostOneReply' /\ FreshChannels'
  BY <1>1 DEF AtMostOneReply, FreshChannels
<1> QED
  BY <1>5, <1>6, <1>7, <1>8

(* A worker answers, with an error or with a result. Its task has one      *)
(* owner, so no other task loses its open channels.                        *)
LEMMA SafeInvReply ==
    ASSUME SafeInv, TypeInv', NEW w \in Worker, WorkerFail(w) \/ WorkerReply(w)
    PROVE  SafeInv'
<1> PICK x : x = wtask[w].owner
  OBVIOUS
<1> USE DEF SafeInv
<1>1. /\ wpc \in [Worker -> {"select", "pre", "predict", "post", "exited"}]
      /\ wtask \in [Worker -> Task \cup {NoTask}]
      /\ resultCh \in [Item -> {"open", "sent", "closed"}]
      /\ errCh \in [Item -> {"open", "sent"}]
      /\ wpc' = [wpc EXCEPT ![w] = "select"]
      /\ wtask' = [wtask EXCEPT ![w] = NoTask]
      /\ UNCHANGED <<pc, tasks>>
  BY DEF TypeInv, PoolTypeOK, WorkerFail, WorkerReply, Finish, callVars
<1>2. w \in Holding
  BY DEF WorkerFail, WorkerReply, Holding
<1>3. /\ Holding' = Holding \ {w}
      /\ \A v \in Holding' : wtask'[v] = wtask[v]
  BY <1>1, <1>2 DEF Holding
<1>4. x \in Submitter
  BY <1>2 DEF TypeInv, HeldShape, Task
<1>5. x \in Item => Held(x)
  BY <1>2 DEF Held
<1>6. \A y \in Item : y # x => /\ resultCh'[y] = resultCh[y]
                              /\ errCh'[y] = errCh[y]
  BY <1>1, <1>4 DEF WorkerFail, WorkerReply, Submitter
<1>7. x \in Item => /\ resultCh[x] = "open" /\ errCh[x] = "open"
                    /\ pc[x] = "submitted"
                    /\ ~(resultCh'[x] = "open" /\ errCh'[x] = "open")
                    /\ ~(resultCh'[x] = "sent" /\ errCh'[x] = "sent")
  <2> SUFFICES ASSUME x \in Item
               PROVE  /\ resultCh[x] = "open" /\ errCh[x] = "open"
                      /\ pc[x] = "submitted"
                      /\ ~(resultCh'[x] = "open" /\ errCh'[x] = "open")
                      /\ ~(resultCh'[x] = "sent" /\ errCh'[x] = "sent")
    OBVIOUS
  <2>1. resultCh[x] = "open" /\ errCh[x] = "open" /\ pc[x] = "submitted"
    BY <1>5 DEF ReplyReady
  <2>2. \/ errCh' = [errCh EXCEPT ![x] = "sent"] /\ resultCh' = resultCh
        \/ resultCh' = [resultCh EXCEPT ![x] = "sent"] /\ errCh' = errCh
    BY DEF WorkerFail, WorkerReply
  <2> QED
    BY <1>1, <2>1, <2>2
<1>8. x \in Item => ~Queued(x)' /\ ~Held(x)'
  <2> SUFFICES ASSUME x \in Item PROVE ~Queued(x)' /\ ~Held(x)'
    OBVIOUS
  <2>1. \A i \in DOMAIN tasks : tasks[i].owner # x
    BY <1>2 DEF OneOwner
  <2>2. \A v \in Holding : wtask[v].owner = x => v = w
    BY <1>2 DEF OneOwner
  <2>3. ~\E i \in DOMAIN tasks' : tasks'[i].owner = x
    BY <1>1, <2>1
  <2>4. ~\E v \in Holding' : wtask'[v].owner = x
    BY <1>3, <2>2
  <2> QED
    BY <2>3, <2>4 DEF Queued, Held
<1>9. ASSUME NEW y \in Item, y # x
      PROVE  (Queued(y)' <=> Queued(y)) /\ (Held(y)' <=> Held(y))
  BY <1>1, <1>2, <1>3, <1>9 DEF Queued, Held
<1>10. OneOwner'
  BY <1>1, <1>3 DEF OneOwner
<1>11. ReplyReady'
  <2> SUFFICES ASSUME NEW y \in Item, Queued(y)' \/ Held(y)'
               PROVE  /\ resultCh'[y] = "open" /\ errCh'[y] = "open"
                      /\ pc'[y] = "submitted"
    BY DEF ReplyReady
  <2>1. y # x
    BY <1>8
  <2>2. Queued(y) \/ Held(y)
    BY <1>9, <2>1
  <2> QED
    BY <1>1, <1>6, <2>1, <2>2 DEF ReplyReady
<1>12. NoLostTask'
  <2> SUFFICES ASSUME NEW y \in Item, pc'[y] = "submitted",
                      resultCh'[y] = "open", errCh'[y] = "open"
               PROVE  Queued(y)' \/ Held(y)'
    BY DEF NoLostTask
  <2>1. y # x
    BY <1>7
  <2>2. Queued(y) \/ Held(y)
    BY <1>1, <1>6, <2>1 DEF NoLostTask
  <2> QED
    BY <1>9, <2>1, <2>2
<1>13. AtMostOneReply'
  BY <1>6, <1>7 DEF AtMostOneReply
<1>14. FreshChannels'
  BY <1>1, <1>6, <1>7 DEF FreshChannels, Unsent
<1> QED
  BY <1>10, <1>11, <1>12, <1>13, <1>14

(* A restart: no task, no call under way. *)
LEMMA SafeInvRestart == ASSUME SafeInv, TypeInv', Restart PROVE SafeInv'
<1> USE DEF SafeInv
<1>1. DOMAIN tasks' = {} /\ Holding' = {}
  BY DEF Restart, Holding
<1>2. \A x \in Item : \/ pc'[x] = "gone"
                      \/ pc'[x] = "new" /\ pc[x] = "new"
  BY DEF Restart, Submitter
<1>3. OneOwner' /\ ReplyReady'
  BY <1>1 DEF OneOwner, ReplyReady, Queued, Held
<1>4. NoLostTask' /\ AtMostOneReply' /\ FreshChannels'
  BY <1>2 DEF Restart, NoLostTask, AtMostOneReply, FreshChannels, Unsent,
              replyVars
<1> QED
  BY <1>3, <1>4

LEMMA SafeInvStep == SafeInv /\ [PoolNext]_pvars => SafeInv'
<1> SUFFICES ASSUME SafeInv, [PoolNext]_pvars PROVE SafeInv'
  OBVIOUS
<1>1. TypeInv'
  BY TypeInvStep DEF SafeInv
<1> QED
  BY <1>1, SafeInvQuiet, SafeInvSend, SafeInvCancelled, SafeInvTake,
     SafeInvReply, SafeInvRestart
     DEF PoolNext, CallStep, SubmitStep, RecoveryStep, WorkerStep, Submitter

LEMMA SafeInvAlways == PoolSpec => []SafeInv
  BY SafeInvInit, SafeInvStep, PTL DEF PoolSpec

-----------------------------------------------------------------------------
(* The third inductive invariant: the disk, in every process. Handlers run *)
(* once the recovery loop has ended (HandlersAfterRecovery), an item that  *)
(* no handler has enqueued is not on disk (FreshItems), and each call of   *)
(* this process took one sequence number, so that the key of what it       *)
(* persisted is at most that many numbers behind q.seq (DiskKept): with    *)
(* fewer calls than numbers the next key is another one, wherever the      *)
(* numbers of this process began and whether or not they wrap around.      *)
Numbered == {x \in Item : pc[x] \notin {"new", "enqueue", "gone"}}

Age(k) == IF k <= seq THEN seq - k ELSE seq - k + SeqSpace

HandlersAfterRecovery ==
    pc[Recovery] # "done" => \A x \in Item : pc[x] \in {"new", "gone"}

FreshItems ==
    \A x \in Item : pc[x] \in {"new", "enqueue"} =>
        /\ x \notin persisted
        /\ recItem # x
        /\ \A k \in Key : db[k] # x

DiskKept ==
    \A x \in Numbered \cap persisted :
        \E k \in Live : db[k] = x /\ Age(k) < Cardinality(Numbered)

DiskInv == HandlersAfterRecovery /\ FreshItems /\ DiskKept

(* Fewer calls of Submit than sequence numbers, of which there are 2^64. *)
FewCalls == IsFiniteSet(Item) /\ Cardinality(Item) < SeqSpace

LEMMA DiskInvInit == PoolInit => DiskInv
<1> SUFFICES ASSUME PoolInit PROVE DiskInv
  OBVIOUS
<1>1. /\ persisted = {} /\ recItem = NoItem
      /\ \A k \in Key : db[k] = NoItem
  BY DEF PoolInit, QueueInit
<1>2. \A x \in Item : pc[x] = "new"
  BY DEF PoolInit, Submitter
<1> QED
  BY <1>1, <1>2 DEF DiskInv, HandlersAfterRecovery, FreshItems, DiskKept

(* A step that leaves the disk alone, and takes no call back. *)
LEMMA DiskFrame ==
    ASSUME FewCalls, TypeInv, DiskInv,
           UNCHANGED <<db, seq, persisted, recItem>>,
           pc'[Recovery] = pc[Recovery] \/ pc'[Recovery] = "done",
           \A x \in Item :
               \/ pc'[x] = pc[x]
               \/ /\ pc'[Recovery] = "done" /\ pc[x] # "gone" /\ pc'[x] # "gone"
                  /\ pc'[x] \in {"new", "enqueue"} => pc[x] \in {"new", "enqueue"}
                  /\ pc[x] \in {"new", "enqueue"} => pc'[x] \in {"new", "enqueue"}
                                                     \/ x \notin persisted
    PROVE  DiskInv'
<1>1. Live' = Live /\ \A k \in Key : Age(k)' = Age(k)
  BY DEF Live, Age
<1>2. Numbered \subseteq Numbered' /\ Numbered' \subseteq Item
  BY DEF Numbered
<1>3. /\ Cardinality(Numbered) \in Nat /\ Cardinality(Numbered') \in Nat
      /\ Cardinality(Numbered) <= Cardinality(Numbered')
  BY <1>2, FS_Subset, FS_CardinalityType DEF FewCalls
<1>4. \A k \in Key : Age(k) \in Int
  BY DEF TypeInv, PoolTypeOK, QueueTypeOK, Key, Age
<1>5. HandlersAfterRecovery' /\ FreshItems'
  BY DEF DiskInv, HandlersAfterRecovery, FreshItems, Key
<1>6. Numbered' \cap persisted \subseteq Numbered \cap persisted
  BY DEF DiskInv, FreshItems, Numbered
<1>7. DiskKept'
  <2> SUFFICES ASSUME NEW x \in Numbered' \cap persisted
               PROVE  \E k \in Live : db[k] = x /\ Age(k) < Cardinality(Numbered')
    BY <1>1 DEF DiskKept, Live
  <2>1. PICK k \in Live : db[k] = x /\ Age(k) < Cardinality(Numbered)
    BY <1>6 DEF DiskInv, DiskKept
  <2>2. Age(k) \in Int
    BY <1>4 DEF Live
  <2> QED
    BY <1>3, <2>1, <2>2
<1> QED
  BY <1>5, <1>7 DEF DiskInv

(* Enqueue of a handler's call takes a key that holds nothing the calls of *)
(* this process have persisted.                                            *)
LEMMA DiskInvEnqueue ==
    ASSUME FewCalls, TypeInv, DiskInv, NEW s \in Item, SubmitEnqueue(s)
    PROVE  DiskInv'
<1>1. /\ pc \in [Submitter -> Stage] /\ seq \in Key
      /\ db \in [Key -> Item \cup {NoItem}]
      /\ pc[s] = "enqueue" /\ pc' = [pc EXCEPT ![s] = "len"]
      /\ seq' = NextSeq /\ recItem' = recItem
      /\ Input(s) = s /\ s \in Submitter /\ Recovery \in Submitter
  BY DEF TypeInv, PoolTypeOK, QueueTypeOK, SubmitEnqueue, EnqueueOk,
     EnqueueErr, Input, Submitter
<1>2. pc[Recovery] = "done" /\ pc'[Recovery] = "done"
  BY <1>1 DEF DiskInv, HandlersAfterRecovery
<1>3. Numbered' = Numbered \cup {s} /\ s \notin Numbered
  BY <1>1 DEF Numbered, Submitter
<1>4. /\ Cardinality(Numbered) \in Nat
      /\ Cardinality(Numbered') = Cardinality(Numbered) + 1
      /\ Cardinality(Numbered') <= Cardinality(Item)
      /\ Cardinality(Item) \in Nat /\ Cardinality(Item) < SeqSpace
  <2>1. Numbered \subseteq Item /\ Numbered' \subseteq Item
    BY DEF Numbered
  <2>2. IsFiniteSet(Numbered) /\ Cardinality(Numbered') <= Cardinality(Item)
    BY <2>1, FS_Subset DEF FewCalls
  <2> QED
    BY <1>3, <2>2, FS_AddElement, FS_CardinalityType DEF FewCalls
<1>5. PICK new \in Key :
          new = NextSeq /\ Age(new)' = 0 /\ Age(new) = SeqSpace - 1
  BY <1>1 DEF NextSeq, Key, Age
<1>6. ASSUME NEW k \in Key, k # new
      PROVE  Age(k)' = Age(k) + 1 /\ Age(k) \in Int
  BY <1>1, <1>5, <1>6 DEF NextSeq, Key, Age
<1>7. ASSUME NEW k \in Key, Age(k) < Cardinality(Numbered)
      PROVE  k # new
  BY <1>4, <1>5, <1>7
<1>8. \A x \in Item : x # s => pc'[x] = pc[x]
  BY <1>1 DEF Submitter
<1>9. HandlersAfterRecovery'
  BY <1>2 DEF HandlersAfterRecovery
<1>10. /\ \/ /\ persisted' = persisted \cup {s}
             /\ db' = [db EXCEPT ![new] = s]
          \/ /\ persisted' = persisted
             /\ db' = db
  BY <1>1, <1>5 DEF SubmitEnqueue, EnqueueOk, EnqueueErr
<1>11. \A k \in Key : k # new => db'[k] = db[k]
  BY <1>1, <1>10
<1>12. FreshItems'
  <2> SUFFICES ASSUME NEW x \in Item, pc'[x] \in {"new", "enqueue"}
               PROVE  x \notin persisted' /\ recItem' # x
                      /\ \A k \in Key : db'[k] # x
    BY DEF FreshItems, Key
  <2>1. x # s /\ pc[x] \in {"new", "enqueue"}
    BY <1>1, <1>8
  <2>2. x \notin persisted /\ recItem # x /\ \A k \in Key : db[k] # x
    BY <2>1 DEF DiskInv, FreshItems
  <2> QED
    BY <1>1, <1>5, <1>10, <2>1, <2>2
<1>13. DiskKept'
  <2> SUFFICES ASSUME NEW x \in Numbered' \cap persisted'
               PROVE  \E k \in Live' : /\ db'[k] = x
                                       /\ Age(k)' < Cardinality(Numbered')
    BY DEF DiskKept
  <2>1. CASE x = s
    <3>1. s \in persisted' /\ s \notin persisted
      BY <1>1, <2>1 DEF DiskInv, FreshItems
    <3>2. db'[new] = s /\ s # NoItem
      BY <1>1, <1>5, <1>10, <3>1
    <3>3. new \in Live'
      BY <1>5, <3>2 DEF Live, Key
    <3> QED
      BY <1>4, <1>5, <2>1, <3>2, <3>3
  <2>2. CASE x # s
    <3>1. x \in Numbered \cap persisted
      BY <1>3, <1>10, <2>2
    <3>2. PICK k \in Live : db[k] = x /\ Age(k) < Cardinality(Numbered)
      BY <3>1 DEF DiskInv, DiskKept
    <3>3. k \in Key /\ k # new
      BY <1>7, <3>2 DEF Live
    <3>4. db'[k] = x /\ k \in Live'
      BY <1>11, <3>2, <3>3 DEF Live, Key
    <3>5. Age(k)' < Cardinality(Numbered')
      BY <1>4, <1>6, <3>2, <3>3
    <3> QED
      BY <3>4, <3>5
  <2> QED
    BY <2>1, <2>2
<1> QED
  BY <1>9, <1>12, <1>13 DEF DiskInv

(* The recovery loop dequeues, and enqueues again, items of dead calls.    *)
LEMMA DiskInvRecovery ==
    ASSUME TypeInv, DiskInv, RecoverDequeue \/ SubmitEnqueue(Recovery)
    PROVE  DiskInv'
<1>1. /\ pc \in [Submitter -> Stage] /\ Recovery \in Submitter
      /\ db \in [Key -> Item \cup {NoItem}] /\ NextSeq \in Key
      /\ pc[Recovery] \in {"dequeue", "enqueue"}
      /\ pc'[Recovery] \in {"enqueue", "len"}
      /\ \A x \in Item : pc'[x] = pc[x]
      /\ Input(Recovery) = recItem
  BY NextSeqKey DEF TypeInv, PoolTypeOK, QueueTypeOK, Submitter,
     RecoverDequeue, SubmitEnqueue, Input
<1>2. HandlersAfterRecovery'
  BY <1>1 DEF DiskInv, HandlersAfterRecovery
<1>3. DiskKept'
  <2>1. Numbered' = {}
    BY <1>1, <1>2 DEF HandlersAfterRecovery, Numbered
  <2> QED
    BY <2>1 DEF DiskKept
<1>4. /\ persisted' \subseteq persisted \cup {recItem}
      /\ \/ recItem' = recItem
         \/ \E k \in Key : db[k] = recItem'
      /\ \A k \in Key : db'[k] \in {db[k], NoItem, recItem}
  BY <1>1 DEF RecoverDequeue, SubmitEnqueue, DequeueOk, EnqueueOk, EnqueueErr
<1>5. FreshItems'
  BY <1>1, <1>4 DEF DiskInv, FreshItems, Key
<1> QED
  BY <1>2, <1>3, <1>5 DEF DiskInv

(* Only a restart opens the queue directory again. *)
LEMMA OneLife ==
    ASSUME \/ \E x \in Item : SubmitCall(x) \/ CallStep(x)
           \/ RecoveryStep
           \/ \E w \in Worker : WorkerStep(w)
           \/ ShutdownCancel \/ ShutdownStep \/ UpdatePipeline \/ CloseQueue
           \/ UNCHANGED pvars
    PROVE  reopens' = reopens
<1> USE DEF qvars
<1>1. ASSUME NEW s \in Submitter, SubmitStep(s) PROVE reopens' = reopens
  BY <1>1 DEF SubmitStep, SubmitEnqueue, SubmitLen, SubmitGauge, SubmitSend,
     EnqueueOk, EnqueueErr
<1>2. ASSUME NEW x \in Item,
             SubmitCall(x) \/ SubmitCancelled(x) \/ SubmitPanics(x)
      PROVE  reopens' = reopens
  BY <1>2 DEF SubmitCall, SubmitCancelled, SubmitPanics
<1>3. CASE RecoverDequeue \/ RecoverDone
  BY <1>3 DEF RecoverDequeue, RecoverDone, DequeueOk, DequeueErr
<1>4. ASSUME NEW w \in Worker, WorkerStep(w) PROVE reopens' = reopens
  BY <1>4 DEF WorkerStep, WorkerTake, WorkerAdvance, WorkerFail, WorkerReply,
     WorkerExit
<1>5. CASE \/ ShutdownCancel \/ ShutdownStep \/ UpdatePipeline \/ CloseQueue
           \/ UNCHANGED pvars
  BY <1>5 DEF ShutdownCancel, ShutdownStep, ShutdownClose, ShutdownReturn,
     UpdatePipeline, CloseQueue, Close, pvars
<1> QED
  BY <1>1, <1>2, <1>3, <1>4, <1>5 DEF CallStep, RecoveryStep, Submitter

LEMMA DiskInvStep ==
    ASSUME FewCalls, TypeInv, DiskInv, [PoolNext]_pvars
    PROVE  DiskInv'
<1> USE DEF callVars, qvars, Submitter
<1>0. /\ pc \in [Submitter -> Stage]
      /\ \A x \in Item : pc[x] \notin {"new", "gone"} => pc[Recovery] = "done"
  BY DEF TypeInv, PoolTypeOK, DiskInv, HandlersAfterRecovery
<1>1. CASE Restart
  <2>1. /\ \A x \in Item : pc'[x] = IF pc[x] = "new" THEN "new" ELSE "gone"
        /\ recItem' = NoItem /\ persisted' = persisted /\ db' = db
    BY <1>1 DEF Restart, Reopen
  <2>2. Numbered' = {}
    BY <2>1 DEF Numbered
  <2>3. FreshItems'
    BY <2>1 DEF DiskInv, FreshItems, Key
  <2> QED
    BY <2>1, <2>2, <2>3 DEF DiskInv, HandlersAfterRecovery, DiskKept
<1>2. ASSUME NEW x \in Item, SubmitLen(x) \/ SubmitGauge(x) \/ SubmitSend(x)
      PROVE  DiskInv'
  <2>1. pc[x] \in {"len", "gauge", "send"} /\ pc[Recovery] = "done"
    BY <1>0, <1>2 DEF SubmitLen, SubmitGauge, SubmitSend
  <2>2. pc' = [pc EXCEPT ![x] = pc'[x]] /\ pc'[x] \in {"gauge", "send", "submitted"}
    BY <1>0, <1>2 DEF SubmitLen, SubmitGauge, SubmitSend
  <2> QED
    BY <1>0, <1>2, <2>1, <2>2, DiskFrame DEF SubmitLen, SubmitGauge, SubmitSend
<1>3. CASE SubmitLen(Recovery) \/ SubmitGauge(Recovery) \/ SubmitSend(Recovery)
  <2>1. /\ \A x \in Item : pc'[x] = pc[x]
        /\ pc[Recovery] # "done" /\ pc'[Recovery] # "done"
        /\ UNCHANGED <<db, seq, persisted, recItem>>
    BY <1>0, <1>3 DEF SubmitLen, SubmitGauge, SubmitSend
  <2>2. HandlersAfterRecovery' /\ FreshItems' /\ Numbered' = {}
    BY <2>1 DEF DiskInv, HandlersAfterRecovery, FreshItems, Numbered, Key
  <2> QED
    BY <2>2 DEF DiskInv, DiskKept
<1>4. ASSUME NEW x \in Item,
             SubmitCall(x) \/ SubmitCancelled(x) \/ SubmitPanics(x)
      PROVE  DiskInv'
  <2>1. /\ pc[x] \in {"new", "send"} /\ pc[Recovery] = "done"
        /\ pc[x] = "new" => x \notin persisted
    BY <1>0, <1>4 DEF SubmitCall, SubmitCancelled, SubmitPanics, DiskInv,
       FreshItems
  <2>2. /\ pc' = [pc EXCEPT ![x] = pc'[x]] /\ pc'[x] # "gone"
        /\ pc'[x] \in {"new", "enqueue"} => pc[x] = "new"
    BY <1>0, <1>4 DEF SubmitCall, SubmitCancelled, SubmitPanics
  <2> QED
    BY <1>0, <1>4, <2>1, <2>2, DiskFrame
       DEF SubmitCall, SubmitCancelled, SubmitPanics
<1>5. CASE RecoverDone
  BY <1>0, <1>5, DiskFrame DEF RecoverDone, DequeueErr
<1>6. ASSUME NEW w \in Worker, WorkerStep(w) PROVE DiskInv'
  BY <1>6, DiskFrame DEF WorkerStep, WorkerTake, WorkerAdvance, WorkerFail,
     WorkerReply, WorkerExit
<1>7. CASE \/ ShutdownCancel \/ ShutdownStep \/ UpdatePipeline \/ CloseQueue
           \/ UNCHANGED pvars
  BY <1>7, DiskFrame DEF ShutdownCancel, ShutdownStep, ShutdownClose,
     ShutdownReturn, UpdatePipeline, CloseQueue, Close, pvars
<1> QED
  BY <1>1, <1>2, <1>3, <1>4, <1>5, <1>6, <1>7, DiskInvEnqueue, DiskInvRecovery
     DEF PoolNext, CallStep, SubmitStep, RecoveryStep

LEMMA DiskInvAlways == FewCalls => (PoolSpec => []DiskInv)
<1> SUFFICES ASSUME FewCalls PROVE PoolSpec => []DiskInv
  OBVIOUS
<1>1. TypeInv /\ DiskInv /\ [PoolNext]_pvars => DiskInv'
  BY DiskInvStep
<1> QED
  BY <1>1, DiskInvInit, TypeInvAlways, PTL DEF PoolSpec

-----------------------------------------------------------------------------
(* What Shutdown does to the calls inside Submit: a call is cancelled, or  *)
(* panics, only in a pool that is shutting down, and the result channel is *)
(* closed without a value only for a call that was cancelled.              *)
StopInv ==
    \A x \in Item :
        /\ pc[x] \in {"cancelled", "panicked"} => CtxDone
        /\ resultCh[x] = "closed" => pc[x] \in {"cancelled", "gone"}
        /\ pc[x] = "gone" => reopens # 0

LEMMA StopInvInit == PoolInit => StopInv
  BY DEF PoolInit, StopInv, Submitter

(* A step inside Submit that neither is cancelled nor panics. *)
LEMMA StopFrame ==
    ASSUME StopInv, UNCHANGED reopens, CtxDone => CtxDone',
           \A x \in Item :
               /\ \/ pc'[x] = pc[x]
                  \/ /\ pc[x] \in Unsent
                     /\ pc'[x] \notin {"cancelled", "panicked", "gone"}
               /\ resultCh'[x] = "closed" => resultCh[x] = "closed"
    PROVE  StopInv'
  BY DEF StopInv, Unsent

LEMMA StopInvStep ==
    ASSUME TypeInv, StopInv, [PoolNext]_pvars
    PROVE  StopInv'
<1> USE DEF callVars, replyVars, Submitter
<1>0. /\ pc \in [Submitter -> Stage]
      /\ resultCh \in [Item -> {"open", "sent", "closed"}]
      /\ reopens \in Nat
  BY DEF TypeInv, PoolTypeOK, QueueTypeOK
<1>1. ASSUME NEW s \in Submitter, SubmitStep(s) PROVE StopInv'
  <2>1. UNCHANGED <<resultCh, shut>> /\ pc[s] \in Unsent
    BY <1>1 DEF SubmitStep, SubmitEnqueue, SubmitLen, SubmitGauge, SubmitSend,
       Unsent
  <2>2. \E p \in {"len", "gauge", "send", "dequeue", "submitted"} :
           pc' = [pc EXCEPT ![s] = p]
    BY <1>1 DEF SubmitStep, SubmitEnqueue, SubmitLen, SubmitGauge, SubmitSend
  <2>3. reopens' = reopens
    BY <1>1, OneLife DEF CallStep, RecoveryStep
  <2> QED
    BY <1>0, <2>1, <2>2, <2>3, StopFrame DEF CtxDone
<1>2. ASSUME NEW x \in Item, SubmitCall(x) PROVE StopInv'
  BY <1>0, <1>2, OneLife, StopFrame DEF SubmitCall, Unsent, CtxDone
<1>3. ASSUME NEW x \in Item, SubmitCancelled(x) \/ SubmitPanics(x)
      PROVE  StopInv'
  <2>1. CtxDone /\ CtxDone' /\ reopens' = reopens
    BY <1>3 DEF SubmitCancelled, SubmitPanics, TasksClosed, CtxDone, qvars
  <2>2. \A y \in Item : y # x => pc'[y] = pc[y] /\ resultCh'[y] = resultCh[y]
    BY <1>0, <1>3 DEF SubmitCancelled, SubmitPanics
  <2>3. /\ pc[x] = "send" /\ pc'[x] \in {"cancelled", "panicked"}
        /\ resultCh'[x] = "closed" => resultCh[x] = "closed" \/ pc'[x] = "cancelled"
    BY <1>0, <1>3 DEF SubmitCancelled, SubmitPanics
  <2> QED
    BY <2>1, <2>2, <2>3 DEF StopInv
<1>4. CASE RecoverDequeue \/ RecoverDone
  BY <1>0, <1>4, OneLife, StopFrame
     DEF RecoverDequeue, RecoverDone, RecoveryStep, CtxDone
<1>5. ASSUME NEW w \in Worker, WorkerStep(w) PROVE StopInv'
  <2>1. UNCHANGED <<pc, shut>>
    BY <1>5 DEF WorkerStep, WorkerTake, WorkerAdvance, WorkerFail,
       WorkerReply, WorkerExit
  <2>2. \A x \in Item : resultCh'[x] \in {resultCh[x], "sent"}
    BY <1>0, <1>5 DEF WorkerStep, WorkerTake, WorkerAdvance, WorkerFail,
       WorkerReply, WorkerExit
  <2> QED
    BY <1>5, <2>1, <2>2, OneLife, StopFrame DEF CtxDone
<1>6. CASE \/ ShutdownCancel \/ ShutdownStep \/ UpdatePipeline \/ CloseQueue
           \/ UNCHANGED pvars
  BY <1>6, OneLife, StopFrame
     DEF ShutdownCancel, ShutdownStep, ShutdownClose, ShutdownReturn,
         UpdatePipeline, CloseQueue, pvars, CtxDone
<1>7. CASE Restart
  <2>1. reopens' # 0 /\ resultCh' = resultCh
    BY <1>0, <1>7 DEF Restart, Reopen
  <2>2. \A x \in Item : pc'[x] = IF pc[x] = "new" THEN "new" ELSE "gone"
    BY <1>7 DEF Restart
  <2> QED
    BY <2>1, <2>2 DEF StopInv
<1> QED
  BY <1>1, <1>2, <1>3, <1>4, <1>5, <1>6, <1>7
     DEF PoolNext, CallStep, RecoveryStep

LEMMA StopInvAlways == PoolSpec => []StopInv
<1>1. TypeInv /\ StopInv /\ [PoolNext]_pvars => StopInv'
  BY StopInvStep
<1> QED
  BY <1>1, StopInvInit, TypeInvAlways, PTL DEF PoolSpec

-----------------------------------------------------------------------------
(* The task of a Submit call is in one place at a time: no two workers     *)
(* process it, and none processes what is still queued (pool.go:80).       *)
THEOREM PoolOneOwner == PoolSpec => []OneOwner
  BY SafeInvAlways, PTL DEF SafeInv

(* The hand-over of a task from Submit to its worker is safe: the worker's *)
(* unguarded send on the reply channels neither blocks nor panics.         *)
THEOREM PoolReplyReady == PoolSpec => []ReplyReady
  BY SafeInvAlways, PTL DEF SafeInv

(* Within a process, an accepted task is never dropped between Submit and  *)
(* its reply (pool.go:161).                                                *)
THEOREM PoolNoLostTask == PoolSpec => []NoLostTask
  BY SafeInvAlways, PTL DEF SafeInv

(* A caller that selects on both channels never finds both a result and an *)
(* error (handlers.go:389).                                                *)
THEOREM PoolAtMostOneReply == PoolSpec => []AtMostOneReply
  BY SafeInvAlways, PTL DEF SafeInv

(* With fewer calls of Submit than the 2^64 sequence numbers, what a       *)
(* handler's Submit has persisted stays on disk while its process runs,    *)
(* after any number of restarts and whatever the recovery loop of that     *)
(* process dequeued and enqueued again before it (queue.go:30).            *)
THEOREM PoolPersistedOnDisk == FewCalls => (PoolSpec => []PersistedOnDisk)
<1>1. TypeInv /\ DiskInv => PersistedOnDisk
  BY DEF TypeInv, PoolTypeOK, DiskInv, FreshItems, DiskKept, Numbered,
     PersistedOnDisk
<1> QED
  BY <1>1, TypeInvAlways, DiskInvAlways, PTL

(* Hence a persisted request can only be lost after a restart: what the    *)
(* documentation promises (docs/api_worker_integration.md:20) holds of the *)
(* process that accepted the request.                                      *)
THEOREM PoolLossNeedsRestart ==
    FewCalls => (PoolSpec => [](reopens = 0 => NoTaskLost))
<1>1. TypeInv /\ StopInv /\ PersistedOnDisk => (reopens = 0 => NoTaskLost)
  BY DEF TypeInv, PoolTypeOK, StopInv, PersistedOnDisk, NoTaskLost
<1> QED
  BY <1>1, TypeInvAlways, StopInvAlways, PoolPersistedOnDisk, PTL

(* No step of the pool changes a reply or sends a second one.              *)
THEOREM PoolRepliesFinal == PoolSpec => RepliesFinal
<1>1. SafeInv /\ [PoolNext]_pvars => [RepliesFinalStep]_pvars
  <2> SUFFICES ASSUME SafeInv, PoolNext, NEW x \in Item
               PROVE  /\ resultCh[x] # "open" => resultCh'[x] = resultCh[x]
                      /\ errCh[x] # "open" => errCh'[x] = errCh[x]
    BY DEF RepliesFinalStep
  <2> USE DEF replyVars
  <2>1. /\ resultCh \in [Item -> {"open", "sent", "closed"}]
        /\ errCh \in [Item -> {"open", "sent"}]
    BY DEF SafeInv, TypeInv, PoolTypeOK
  <2>2. ASSUME NEW y \in Item, SubmitCancelled(y)
        PROVE  /\ resultCh[x] # "open" => resultCh'[x] = resultCh[x]
               /\ errCh[x] # "open" => errCh'[x] = errCh[x]
    BY <2>1, <2>2 DEF SubmitCancelled, SafeInv, FreshChannels, Unsent
  <2>3. ASSUME NEW w \in Worker, WorkerFail(w) \/ WorkerReply(w)
        PROVE  /\ resultCh[x] # "open" => resultCh'[x] = resultCh[x]
               /\ errCh[x] # "open" => errCh'[x] = errCh[x]
    BY <2>1, <2>3 DEF WorkerFail, WorkerReply
  <2>4. ASSUME NEW s \in Submitter, SubmitStep(s)
        PROVE  UNCHANGED <<resultCh, errCh>>
    BY <2>4 DEF SubmitStep, SubmitEnqueue, SubmitLen, SubmitGauge, SubmitSend
  <2>5. ASSUME NEW y \in Item, SubmitCall(y) \/ SubmitPanics(y)
        PROVE  UNCHANGED <<resultCh, errCh>>
    BY <2>5 DEF SubmitCall, SubmitPanics
  <2>6. ASSUME NEW w \in Worker,
               WorkerTake(w) \/ WorkerAdvance(w) \/ WorkerExit(w)
        PROVE  UNCHANGED <<resultCh, errCh>>
    BY <2>6 DEF WorkerTake, WorkerAdvance, WorkerExit
  <2>7. CASE \/ RecoverDequeue \/ RecoverDone \/ ShutdownCancel
             \/ ShutdownStep \/ UpdatePipeline \/ CloseQueue \/ Restart
    BY <2>7 DEF RecoverDequeue, RecoverDone, ShutdownCancel, ShutdownStep,
       ShutdownClose, ShutdownReturn, UpdatePipeline, CloseQueue, Restart
  <2> QED
    BY <2>2, <2>3, <2>4, <2>5, <2>6, <2>7
       DEF PoolNext, CallStep, RecoveryStep, WorkerStep, Submitter
<1> QED
  BY <1>1, SafeInvAlways, PTL DEF PoolSpec, RepliesFinal
=============================================================================
