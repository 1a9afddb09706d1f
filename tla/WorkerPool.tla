----------------------------- MODULE WorkerPool -----------------------------
(***************************************************************************)
(* The worker pool of internal/worker/pool.go over the persistent queue.   *)
(*                                                                         *)
(* A member of Item stands for one call of Submit and for what that call   *)
(* persists. The goroutines are the callers of Submit, the workers, the    *)
(* goroutine that runs RecoverFromPersistentQueue at start-up, and the one *)
(* that runs Shutdown; a step is what a goroutine does between two points  *)
(* where another may be scheduled (a channel, the queue's lock).           *)
(***************************************************************************)
EXTENDS PersistentQueue, Sequences

CONSTANTS
    Recovery,   \* the goroutine of RecoverFromPersistentQueue, a caller of Submit
    Worker,     \* the worker goroutines
    QueueCap,   \* capacity of the tasks channel, 100 in the code
    Durable     \* persistentQueue # nil

ASSUME PoolAssumption ==
    /\ Recovery \notin Item
    /\ QueueCap \in Nat \ {0}
    /\ Durable \in BOOLEAN

VARIABLES
    pc,         \* where each Submit call, and the recovery loop, is
    recItem,    \* qt, the task the recovery loop holds
    depth,      \* the local "depth" of each Submit call
    gauge,      \* metrics.QueueDepthGauge
    tasks,      \* p.tasks
    wpc,        \* where each worker is in its loop
    wtask,      \* the task each worker holds
    resultCh,   \* the reply channels that each Submit call makes:
    errCh,      \*   open, sent (one value, then closed) or closed (empty)
    shut,       \* how far Shutdown has come
    pipeline,   \* p.pipeline: "empty" (Run cannot fail) or "steps"
    persisted,  \* history: items whose Enqueue succeeded
    handled     \* history: items a worker has finished with

callVars == <<pc, recItem, depth, gauge>>
workVars == <<tasks, wpc, wtask>>
replyVars == <<resultCh, errCh>>
pvars == <<callVars, workVars, replyVars, shut, pipeline, persisted, handled,
           qvars>>

Submitter == Item \cup {Recovery}

Task == [owner : Submitter, item : Item]
NoTask == [owner |-> Recovery, item |-> NoItem]

(* The argument of the Submit call that s is making. *)
Input(s) == IF s = Recovery THEN recItem ELSE s

CtxDone == shut # "running"
TasksClosed == shut \in {"closed", "returned"}

Holding == {w \in Worker : wpc[w] \in {"pre", "predict", "post"}}

Stage == {"dequeue", "enqueue", "len", "gauge", "send", "done",
          "new", "submitted", "cancelled", "panicked", "gone"}

PoolTypeOK ==
    /\ QueueTypeOK
    /\ pc \in [Submitter -> Stage]
    /\ recItem \in Item \cup {NoItem}
    /\ depth \in [Submitter -> Nat]
    /\ gauge \in Nat
    /\ tasks \in Seq(Task)
    /\ Len(tasks) <= QueueCap
    /\ wpc \in [Worker -> {"select", "pre", "predict", "post", "exited"}]
    /\ wtask \in [Worker -> Task \cup {NoTask}]
    /\ resultCh \in [Item -> {"open", "sent", "closed"}]
    /\ errCh \in [Item -> {"open", "sent"}]
    /\ shut \in {"running", "cancelled", "closed", "returned"}
    /\ pipeline \in {"empty", "steps"}
    /\ persisted \subseteq Item
    /\ handled \subseteq Item

(* Without a persistent queue RecoverFromPersistentQueue returns at once. *)
RecoveryStart == IF Durable THEN "dequeue" ELSE "done"

(* NewWorkerPool on a fresh queue directory, then recovery. *)
PoolInit ==
    /\ QueueInit
    /\ pc = [s \in Submitter |-> IF s = Recovery THEN RecoveryStart ELSE "new"]
    /\ recItem = NoItem
    /\ depth = [s \in Submitter |-> 0]
    /\ gauge = 0
    /\ tasks = <<>>
    /\ wpc = [w \in Worker |-> "select"]
    /\ wtask = [w \in Worker |-> NoTask]
    /\ resultCh = [x \in Item |-> "open"]
    /\ errCh = [x \in Item |-> "open"]
    /\ shut = "running"
    /\ pipeline \in {"empty", "steps"}
    /\ persisted = {}
    /\ handled = {}

-----------------------------------------------------------------------------
(* Submit, for a request handler (s in Item) or for the recovery loop.     *)

(* A handler calls Submit. Handlers exist once NewServerWithConfig has     *)
(* returned, which is after recovery.                                      *)
SubmitCall(x) ==
    /\ pc[x] = "new"
    /\ pc[Recovery] = "done"
    /\ pc' = [pc EXCEPT ![x] = IF Durable THEN "enqueue" ELSE "send"]
    /\ UNCHANGED <<recItem, depth, gauge, workVars, replyVars, shut, pipeline,
                   persisted, handled, qvars>>

(* The error of Enqueue is dropped. *)
SubmitEnqueue(s) ==
    /\ pc[s] = "enqueue"
    /\ \/ EnqueueOk(Input(s)) /\ persisted' = persisted \cup {Input(s)}
       \/ EnqueueErr(Input(s)) /\ UNCHANGED persisted
    /\ pc' = [pc EXCEPT ![s] = "len"]
    /\ UNCHANGED <<recItem, depth, gauge, workVars, replyVars, shut, pipeline,
                   handled>>

(* Len, under the queue's lock; it fails on a closed database, or when the *)
(* view transaction does, and then the gauge is left alone.                *)
SubmitLen(s) ==
    /\ pc[s] = "len"
    /\ \/ /\ open
          /\ depth' = [depth EXCEPT ![s] = QueueLen]
          /\ pc' = [pc EXCEPT ![s] = "gauge"]
       \/ /\ TxnFails("len")
          /\ pc' = [pc EXCEPT ![s] = "send"]
          /\ UNCHANGED depth
    /\ UNCHANGED <<recItem, gauge, workVars, replyVars, shut, pipeline,
                   persisted, handled, qvars>>

(* The gauge is set after the lock has been released; depth dies here. *)
SubmitGauge(s) ==
    /\ pc[s] = "gauge"
    /\ gauge' = depth[s]
    /\ depth' = [depth EXCEPT ![s] = 0]
    /\ pc' = [pc EXCEPT ![s] = "send"]
    /\ UNCHANGED <<recItem, workVars, replyVars, shut, pipeline,
                   persisted, handled, qvars>>

(* A bug: Submit leaves the select through a default case when the channel *)
(* is full, and the task is dropped.                                       *)
BugSubmitSendDrops(s) ==
    /\ pc[s] = "send"
    /\ ~TasksClosed
    /\ tasks' = IF Len(tasks) < QueueCap
                THEN Append(tasks, [owner |-> s, item |-> Input(s)])
                ELSE tasks
    /\ pc' = [pc EXCEPT ![s] = IF s = Recovery THEN "dequeue" ELSE "submitted"]
    /\ UNCHANGED <<recItem, depth, gauge, wpc, wtask, replyVars, shut,
                   pipeline, persisted, handled, qvars>>

(* A bug: an unbounded queue in place of the channel. *)
BugSubmitSendUnbounded(s) ==
    /\ pc[s] = "send"
    /\ ~TasksClosed
    /\ tasks' = Append(tasks, [owner |-> s, item |-> Input(s)])
    /\ pc' = [pc EXCEPT ![s] = IF s = Recovery THEN "dequeue" ELSE "submitted"]
    /\ UNCHANGED <<recItem, depth, gauge, wpc, wtask, replyVars, shut,
                   pipeline, persisted, handled, qvars>>

(* The select sends the task: Submit returns, the recovery loop goes on. *)
SubmitSend(s) ==
    /\ pc[s] = "send"
    /\ ~TasksClosed
    /\ Len(tasks) < QueueCap
    /\ tasks' = Append(tasks, [owner |-> s, item |-> Input(s)])
    /\ pc' = [pc EXCEPT ![s] = IF s = Recovery THEN "dequeue" ELSE "submitted"]
    /\ UNCHANGED <<recItem, depth, gauge, wpc, wtask, replyVars, shut,
                   pipeline, persisted, handled, qvars>>

(* A bug: a goroutine that watches the context fails every call when it is *)
(* cancelled, also the ones that are answered.                             *)
BugCancelsSubmitted(x) ==
    /\ pc[x] \in {"send", "submitted"}
    /\ CtxDone
    /\ errCh' = [errCh EXCEPT ![x] = "sent"]
    /\ resultCh' = [resultCh EXCEPT ![x] = "closed"]
    /\ pc' = [pc EXCEPT ![x] = "cancelled"]
    /\ UNCHANGED <<recItem, depth, gauge, workVars, shut, pipeline, persisted,
                   handled, qvars>>

(* The select takes ctx.Done, which it may even with room in the channel. *)
SubmitCancelled(x) ==
    /\ pc[x] = "send"
    /\ CtxDone
    /\ errCh' = [errCh EXCEPT ![x] = "sent"]
    /\ resultCh' = [resultCh EXCEPT ![x] = "closed"]
    /\ pc' = [pc EXCEPT ![x] = "cancelled"]
    /\ UNCHANGED <<recItem, depth, gauge, workVars, shut, pipeline, persisted,
                   handled, qvars>>

(* The select picks the send case after close(p.tasks): the calling        *)
(* goroutine panics.                                                       *)
SubmitPanics(x) ==
    /\ pc[x] = "send"
    /\ TasksClosed
    /\ pc' = [pc EXCEPT ![x] = "panicked"]
    /\ UNCHANGED <<recItem, depth, gauge, workVars, replyVars, shut, pipeline,
                   persisted, handled, qvars>>

-----------------------------------------------------------------------------
(* RecoverFromPersistentQueue. A queuedTask decodes whatever Submit wrote. *)

RecoverDequeue ==
    /\ pc[Recovery] = "dequeue"
    /\ \E x \in Item : DequeueOk(x) /\ recItem' = x
    /\ pc' = [pc EXCEPT ![Recovery] = "enqueue"]
    /\ UNCHANGED <<depth, gauge, workVars, replyVars, shut, pipeline,
                   persisted, handled>>

(* Dequeue returned an error, ErrKeyNotFound or any other. *)
RecoverDone ==
    /\ pc[Recovery] = "dequeue"
    /\ DequeueErr
    /\ pc' = [pc EXCEPT ![Recovery] = "done"]
    /\ UNCHANGED <<recItem, depth, gauge, workVars, replyVars, shut, pipeline,
                   persisted, handled>>

-----------------------------------------------------------------------------
(* worker.                                                                 *)

(* A bug: the task is read and left in the channel. *)
BugWorkerTakePeeks(w) ==
    /\ wpc[w] = "select"
    /\ tasks # <<>>
    /\ wtask' = [wtask EXCEPT ![w] = Head(tasks)]
    /\ wpc' = [wpc EXCEPT ![w] = "pre"]
    /\ UNCHANGED <<callVars, tasks, replyVars, shut, pipeline, persisted,
                   handled, qvars>>

(* A closed channel still delivers what it holds. *)
WorkerTake(w) ==
    /\ wpc[w] = "select"
    /\ tasks # <<>>
    /\ wtask' = [wtask EXCEPT ![w] = Head(tasks)]
    /\ tasks' = Tail(tasks)
    /\ wpc' = [wpc EXCEPT ![w] = "pre"]
    /\ UNCHANGED <<callVars, replyVars, shut, pipeline, persisted, handled,
                   qvars>>

(* The pre-processing pipeline, then the engine, succeed. *)
WorkerAdvance(w) ==
    /\ \/ wpc[w] = "pre" /\ wpc' = [wpc EXCEPT ![w] = "predict"]
       \/ wpc[w] = "predict" /\ wpc' = [wpc EXCEPT ![w] = "post"]
    /\ UNCHANGED <<callVars, tasks, wtask, replyVars, shut, pipeline,
                   persisted, handled, qvars>>

(* The worker is done with its task and loops. *)
Finish(w) ==
    /\ handled' = handled \cup {wtask[w].item}
    /\ wtask' = [wtask EXCEPT ![w] = NoTask]
    /\ wpc' = [wpc EXCEPT ![w] = "select"]

(* A bug: the continue after the error reply is missing. *)
BugWorkerFailGoesOn(w) ==
    LET x == wtask[w].owner IN
    /\ \/ wpc[w] = "predict"
       \/ wpc[w] \in {"pre", "post"} /\ pipeline = "steps"
    /\ IF x = Recovery
         THEN UNCHANGED errCh
         ELSE errCh[x] = "open" /\ errCh' = [errCh EXCEPT ![x] = "sent"]
    /\ wpc' = [wpc EXCEPT ![w] = "post"]
    /\ UNCHANGED <<callVars, tasks, wtask, resultCh, shut, pipeline,
                   persisted, handled, qvars>>

(* Pipeline or engine fail: the error is sent and the channel closed,      *)
(* which goes through because the channel is open and empty (ReplyReady).  *)
(* Nobody reads the channels of a recovered task.                          *)
WorkerFail(w) ==
    LET x == wtask[w].owner IN
    /\ \/ wpc[w] = "predict"
       \/ wpc[w] \in {"pre", "post"} /\ pipeline = "steps"
    /\ IF x = Recovery
         THEN UNCHANGED errCh
         ELSE errCh[x] = "open" /\ errCh' = [errCh EXCEPT ![x] = "sent"]
    /\ Finish(w)
    /\ UNCHANGED <<callVars, tasks, resultCh, shut, pipeline, persisted, qvars>>

(* The post-processing succeeds and the result is sent, likewise. *)
WorkerReply(w) ==
    LET x == wtask[w].owner IN
    /\ wpc[w] = "post"
    /\ IF x = Recovery
         THEN UNCHANGED resultCh
         ELSE resultCh[x] = "open" /\ resultCh' = [resultCh EXCEPT ![x] = "sent"]
    /\ Finish(w)
    /\ UNCHANGED <<callVars, tasks, errCh, shut, pipeline, persisted, qvars>>

(* A bug: the select has no ctx.Done case and close(p.tasks) is forgotten, *)
(* so that only a task wakes the worker.                                   *)
BugWorkerNeverExits(w) == FALSE

(* The select finds the channel closed and empty, or takes ctx.Done, which *)
(* it may even with tasks in the channel.                                  *)
WorkerExit(w) ==
    /\ wpc[w] = "select"
    /\ (TasksClosed /\ tasks = <<>>) \/ CtxDone
    /\ wpc' = [wpc EXCEPT ![w] = "exited"]
    /\ UNCHANGED <<callVars, tasks, wtask, replyVars, shut, pipeline,
                   persisted, handled, qvars>>

-----------------------------------------------------------------------------
(* Shutdown, UpdatePipeline, and the process.                              *)

(* p.cancel(). Start, the only caller, runs after recovery. *)
ShutdownCancel ==
    /\ shut = "running"
    /\ pc[Recovery] = "done"
    /\ shut' = "cancelled"
    /\ UNCHANGED <<callVars, workVars, replyVars, pipeline, persisted, handled,
                   qvars>>

(* close(p.tasks) *)
ShutdownClose ==
    /\ shut = "cancelled"
    /\ shut' = "closed"
    /\ UNCHANGED <<callVars, workVars, replyVars, pipeline, persisted, handled,
                   qvars>>

(* The select on done and on p.ctx.Done(), which p.cancel() has closed. *)
ShutdownReturn ==
    /\ shut = "closed"
    /\ (\A w \in Worker : wpc[w] = "exited") \/ CtxDone
    /\ shut' = "returned"
    /\ UNCHANGED <<callVars, workVars, replyVars, pipeline, persisted, handled,
                   qvars>>

(* Start reloads the configuration. *)
UpdatePipeline ==
    /\ pc[Recovery] = "done"
    /\ pipeline' \in {"empty", "steps"}
    /\ UNCHANGED <<callVars, workVars, replyVars, shut, persisted, handled,
                   qvars>>

(* ShutdownFunc of the server closes the queue once Start has returned;    *)
(* callers of Submit may still be running.                                 *)
CloseQueue ==
    /\ shut = "returned"
    /\ Close
    /\ UNCHANGED <<callVars, workVars, replyVars, shut, pipeline, persisted,
                   handled>>

(* The process ends at any point, by a crash or after Shutdown, and a new  *)
(* one starts on the same queue directory. Calls in progress are gone.     *)
Restart ==
    /\ Durable
    /\ Reopen
    /\ pc' = [s \in Submitter |->
                 IF s = Recovery THEN "dequeue"
                 ELSE IF pc[s] = "new" THEN "new" ELSE "gone"]
    /\ recItem' = NoItem
    /\ depth' = [s \in Submitter |-> 0]
    /\ gauge' = 0
    /\ tasks' = <<>>
    /\ wpc' = [w \in Worker |-> "select"]
    /\ wtask' = [w \in Worker |-> NoTask]
    /\ shut' = "running"
    /\ UNCHANGED <<replyVars, pipeline, persisted, handled>>

-----------------------------------------------------------------------------
SubmitStep(s) ==
    \/ SubmitEnqueue(s)
    \/ SubmitLen(s)
    \/ SubmitGauge(s)
    \/ SubmitSend(s)

CallStep(x) == SubmitStep(x) \/ SubmitCancelled(x) \/ SubmitPanics(x)

RecoveryStep == SubmitStep(Recovery) \/ RecoverDequeue \/ RecoverDone

WorkerStep(w) ==
    \/ WorkerTake(w)
    \/ WorkerAdvance(w)
    \/ WorkerFail(w)
    \/ WorkerReply(w)
    \/ WorkerExit(w)

ShutdownStep == ShutdownClose \/ ShutdownReturn

PoolNext ==
    \/ \E x \in Item : SubmitCall(x) \/ CallStep(x)
    \/ RecoveryStep
    \/ \E w \in Worker : WorkerStep(w)
    \/ ShutdownCancel
    \/ ShutdownStep
    \/ UpdatePipeline
    \/ CloseQueue
    \/ Restart

PoolSpec == PoolInit /\ [][PoolNext]_pvars

(* The Go scheduler runs every goroutine that can proceed; pipelines and   *)
(* engine calls return; Shutdown, once called, runs on. Nothing obliges a  *)
(* request, a signal, a reload or a crash to come.                         *)
PoolFairness ==
    /\ \A x \in Item : WF_pvars(CallStep(x))
    /\ WF_pvars(RecoveryStep)
    /\ \A w \in Worker : WF_pvars(WorkerStep(w))
    /\ WF_pvars(ShutdownStep)

FairPoolSpec == PoolSpec /\ PoolFairness

-----------------------------------------------------------------------------
(* Where the task of a call is.                                            *)
Queued(x) == \E i \in DOMAIN tasks : tasks[i].owner = x
Held(x) == \E w \in Holding : wtask[w].owner = x

(* The task of a Submit call is in at most one place: no two workers ever  *)
(* process it (pool.go:80 takes it off the channel).                       *)
OneOwner ==
    /\ \A i, j \in DOMAIN tasks :
          tasks[i].owner = tasks[j].owner /\ tasks[i].owner # Recovery => i = j
    /\ \A v, w \in Holding :
          wtask[v].owner = wtask[w].owner /\ wtask[v].owner # Recovery => v = w
    /\ \A i \in DOMAIN tasks, w \in Holding :
          tasks[i].owner = wtask[w].owner => tasks[i].owner = Recovery

(* While a task waits or is processed its reply channels are open and      *)
(* empty: the unguarded sends of pool.go:92, 102, 114 and 121 neither      *)
(* block nor panic, whatever the caller and Shutdown do.                   *)
ReplyReady ==
    \A x \in Item : Queued(x) \/ Held(x) =>
        /\ resultCh[x] = "open" /\ errCh[x] = "open"
        /\ pc[x] = "submitted"

(* A call that Submit accepted and nobody has answered is in the channel   *)
(* or with a worker: Submit (pool.go:161) and the worker loop drop nothing.*)
NoLostTask ==
    \A x \in Item :
        pc[x] = "submitted" /\ resultCh[x] = "open" /\ errCh[x] = "open"
            => Queued(x) \/ Held(x)

(* A caller selects on both channels (handlers.go:389): it never finds a   *)
(* value in both.                                                          *)
AtMostOneReply ==
    \A x \in Item : ~(resultCh[x] = "sent" /\ errCh[x] = "sent")

(* A reply that a caller may have read is never changed nor sent again.    *)
RepliesFinalStep ==
    \A x \in Item :
        /\ resultCh[x] # "open" => resultCh'[x] = resultCh[x]
        /\ errCh[x] # "open" => errCh'[x] = errCh[x]

RepliesFinal == [][RepliesFinalStep]_pvars

(* "Ensures no inference request is lost, even if the agent is restarted   *)
(* or crashes" (docs/api_worker_integration.md:20): what was persisted is  *)
(* on disk or in the process until a worker has dealt with it.             *)
NoTaskLost ==
    \A x \in persisted \ handled :
        \/ \E k \in Live : db[k] = x
        \/ \E i \in DOMAIN tasks : tasks[i].item = x
        \/ \E w \in Holding : wtask[w].item = x
        \/ recItem = x /\ pc[Recovery] \in {"enqueue", "len", "gauge", "send"}

(* What a handler's Submit has persisted stays on disk while its process   *)
(* runs, in the first process and after any restart: no later Enqueue      *)
(* (queue.go:30), whose numbers start again at 0, reuses its key, and no   *)
(* Dequeue of the recovery loop (pool.go:187) reaches it. A call is "gone" *)
(* when its process has ended; its item is then the recovery loop's.       *)
PersistedOnDisk ==
    \A x \in persisted : pc[x] # "gone" => \E k \in Live : db[k] = x

(* Every call of Submit is answered, unless Shutdown or a restart comes.   *)
Answered ==
    \A x \in Item :
        pc[x] \in {"enqueue", "send"} ~>
            \/ resultCh[x] = "sent" \/ errCh[x] = "sent"
            \/ CtxDone \/ pc[x] = "gone"

(* After Shutdown every worker ends, even those that keep choosing the     *)
(* tasks that were still buffered (pool.go:79-83).                         *)
WorkersEnd ==
    CtxDone ~> (\A w \in Worker : wpc[w] = "exited") \/ ~CtxDone

(* Start-up gets past recovery (server.go:215): "On startup, recover and   *)
(* process any tasks from the persistent queue" (pool.go:173).             *)
RecoveryEnds == pc[Recovery] = "dequeue" ~> pc[Recovery] = "done"
=============================================================================
