----------------------------- MODULE OnnxEngine -----------------------------
(***************************************************************************)
(* The session pools of internal/inference/onnx_runtime.go. A loaded model *)
(* owns PoolSize session slots, kept in a buffered channel; Predict checks *)
(* one out and gives it back. LoadModel, UnloadModel and Close hold the    *)
(* engine's lock, Predict holds it only while it looks the model up.       *)
(*                                                                         *)
(* Every successful LoadModel makes a new ONNXModel: a generation. A slot  *)
(* is a number within its generation. The tensors and ONNX Runtime itself  *)
(* are abstracted to "the call returns, with a result or an error".        *)
(***************************************************************************)
EXTENDS Integers

CONSTANTS
    Key,        \* model keys, id or id:version
    Client,     \* goroutines that call Predict: the workers
    PoolSize,   \* sessionPoolSize()
    MaxLoads    \* bound on the number of loads

ASSUME EngineAssumption ==
    /\ PoolSize \in Nat \ {0}
    /\ MaxLoads \in Nat

Slot == 1 .. PoolSize
Gen == 1 .. MaxLoads

VARIABLES
    models,     \* e.models: the generation under each key, 0 for none
    pool,       \* the slots in each generation's channel
    closed,     \* the generation's channel has been closed
    destroyed,  \* the slots of each generation whose session is destroyed
    nextGen,    \* the generation that LoadModel makes next
    admin,      \* what the holder of e.mu.Lock() is doing
    akey,       \* the key it loads
    akeys,      \* the keys it still has to unload
    made,       \* the slots LoadModel has made so far
    ppc,        \* where each Predict call is
    pgen,       \* m: the generation it found
    pslot,      \* slot: what it checked out, 0 for none
    ctxDone     \* the context of the Predict calls is cancelled

registryVars == <<models, closed, nextGen>>
adminVars == <<admin, akey, akeys, made>>
clientVars == <<ppc, pgen, pslot>>
evars == <<registryVars, pool, destroyed, adminVars, clientVars, ctxDone>>

EngineTypeOK ==
    /\ models \in [Key -> Gen \cup {0}]
    /\ pool \in [Gen -> SUBSET Slot]
    /\ closed \in [Gen -> BOOLEAN]
    /\ destroyed \in [Gen -> SUBSET Slot]
    /\ nextGen \in 1 .. MaxLoads + 1
    /\ admin \in {"free", "creating", "stuck", "unloading"}
    /\ akey \in Key
    /\ akeys \subseteq Key
    /\ made \in 0 .. PoolSize
    /\ ppc \in [Client -> {"idle", "checkout", "running", "panicked"}]
    /\ pgen \in [Client -> Gen \cup {0}]
    /\ pslot \in [Client -> Slot \cup {0}]
    /\ ctxDone \in BOOLEAN

Loaded == {k \in Key : models[k] # 0}

(* Predict runs in a worker goroutine, where nothing recovers a panic: it  *)
(* ends the process.                                                       *)
Alive == \A c \in Client : ppc[c] # "panicked"

EngineInit ==
    /\ models = [k \in Key |-> 0]
    /\ pool = [g \in Gen |-> {}]
    /\ closed = [g \in Gen |-> FALSE]
    /\ destroyed = [g \in Gen |-> {}]
    /\ nextGen = 1
    /\ admin = "free"
    /\ akey \in Key
    /\ akeys = {}
    /\ made = 0
    /\ ppc = [c \in Client |-> "idle"]
    /\ pgen = [c \in Client |-> 0]
    /\ pslot = [c \in Client |-> 0]
    /\ ctxDone = FALSE

-----------------------------------------------------------------------------
(* LoadModel takes the lock; a model that is loaded already, or whose file *)
(* cannot be read, is refused and nothing changes.                         *)
LoadBegin(k) ==
    /\ Alive
    /\ admin = "free"
    /\ models[k] = 0
    /\ nextGen <= MaxLoads
    /\ admin' = "creating"
    /\ akey' = k
    /\ made' = 0
    /\ UNCHANGED <<registryVars, pool, destroyed, akeys, clientVars, ctxDone>>

(* A bug: the loop runs to i <= poolSize. *)
BugLoadSlotOneMore ==
    /\ Alive
    /\ admin = "creating"
    /\ made <= PoolSize
    /\ made' = made + 1
    /\ pool' = [pool EXCEPT ![nextGen] = @ \cup {made + 1}]
    /\ UNCHANGED <<registryVars, destroyed, admin, akey, akeys, clientVars,
                   ctxDone>>

(* createSessionSlot succeeds and the slot goes to the channel. *)
LoadSlot ==
    /\ Alive
    /\ admin = "creating"
    /\ made < PoolSize
    /\ made' = made + 1
    /\ pool' = [pool EXCEPT ![nextGen] = @ \cup {made + 1}]
    /\ UNCHANGED <<registryVars, destroyed, admin, akey, akeys, clientVars,
                   ctxDone>>

(* A bug: the model is registered before its pool is filled. *)
BugLoadEndEarly ==
    /\ Alive
    /\ admin = "creating"
    /\ models' = [models EXCEPT ![akey] = nextGen]
    /\ nextGen' = nextGen + 1
    /\ admin' = "free"
    /\ UNCHANGED <<closed, pool, destroyed, akey, akeys, made, clientVars,
                   ctxDone>>

(* The model is registered and the lock released. *)
LoadEnd ==
    /\ Alive
    /\ admin = "creating"
    /\ made = PoolSize
    /\ models' = [models EXCEPT ![akey] = nextGen]
    /\ nextGen' = nextGen + 1
    /\ admin' = "free"
    /\ UNCHANGED <<closed, pool, destroyed, akey, akeys, made, clientVars,
                   ctxDone>>

(* createSessionSlot fails: the slots made so far are destroyed by ranging *)
(* over a channel nobody closes, so the loop never ends and the lock is    *)
(* never released.                                                         *)
LoadFails ==
    /\ Alive
    /\ admin = "creating"
    /\ made < PoolSize
    /\ destroyed' = [destroyed EXCEPT ![nextGen] = pool[nextGen]]
    /\ pool' = [pool EXCEPT ![nextGen] = {}]
    /\ admin' = "stuck"
    /\ UNCHANGED <<registryVars, akey, akeys, made, clientVars, ctxDone>>

(* UnloadModel takes the lock and finds the model. *)
UnloadBegin(k) ==
    /\ Alive
    /\ admin = "free"
    /\ k \in Loaded
    /\ admin' = "unloading"
    /\ akeys' = {k}
    /\ UNCHANGED <<registryVars, pool, destroyed, akey, made, clientVars,
                   ctxDone>>

(* Close takes the lock to unload every model. *)
CloseBegin ==
    /\ Alive
    /\ admin = "free"
    /\ Loaded # {}
    /\ admin' = "unloading"
    /\ akeys' = Loaded
    /\ UNCHANGED <<registryVars, pool, destroyed, akey, made, clientVars,
                   ctxDone>>

(* close(m.pool), of one model after the other. *)
UnloadClose(k) ==
    /\ Alive
    /\ admin = "unloading"
    /\ k \in akeys
    /\ \A j \in akeys : ~closed[models[j]]
    /\ closed' = [closed EXCEPT ![models[k]] = TRUE]
    /\ UNCHANGED <<models, nextGen, pool, destroyed, adminVars, clientVars,
                   ctxDone>>

(* A bug: unloadModel destroys the slots of the model, checked out or not. *)
BugUnloadDestroysAll(k) ==
    /\ Alive
    /\ admin = "unloading"
    /\ k \in akeys
    /\ closed[models[k]]
    /\ destroyed' = [destroyed EXCEPT ![models[k]] = Slot]
    /\ pool' = [pool EXCEPT ![models[k]] = {}]
    /\ UNCHANGED <<registryVars, adminVars, clientVars, ctxDone>>

(* The drain loop destroys a slot it finds in the closed channel, while    *)
(* Predict calls may still receive from it.                                *)
UnloadDestroy(k) ==
    /\ Alive
    /\ admin = "unloading"
    /\ k \in akeys
    /\ closed[models[k]]
    /\ \E s \in pool[models[k]] :
          /\ pool' = [pool EXCEPT ![models[k]] = @ \ {s}]
          /\ destroyed' = [destroyed EXCEPT ![models[k]] = @ \cup {s}]
    /\ UNCHANGED <<registryVars, adminVars, clientVars, ctxDone>>

(* A bug: the loop of Close ends while the lock is held. *)
BugUnloadEndKeepsLock(k) ==
    /\ Alive
    /\ admin = "unloading"
    /\ k \in akeys
    /\ closed[models[k]]
    /\ pool[models[k]] = {}
    /\ models' = [models EXCEPT ![k] = 0]
    /\ akeys' = akeys \ {k}
    /\ UNCHANGED <<closed, nextGen, pool, destroyed, admin, akey, made,
                   clientVars, ctxDone>>

(* The closed channel is empty: the model is forgotten. *)
UnloadEnd(k) ==
    /\ Alive
    /\ admin = "unloading"
    /\ k \in akeys
    /\ closed[models[k]]
    /\ pool[models[k]] = {}
    /\ models' = [models EXCEPT ![k] = 0]
    /\ akeys' = akeys \ {k}
    /\ admin' = IF akeys = {k} THEN "free" ELSE "unloading"
    /\ UNCHANGED <<closed, nextGen, pool, destroyed, akey, made, clientVars,
                   ctxDone>>

-----------------------------------------------------------------------------
(* Predict looks the model up under the read lock; a missing model, or an  *)
(* input that does not fit it, is an error and nothing changes.            *)
PredictLookup(c, k) ==
    /\ Alive
    /\ ppc[c] = "idle"
    /\ admin = "free"
    /\ models[k] # 0
    /\ ppc' = [ppc EXCEPT ![c] = "checkout"]
    /\ pgen' = [pgen EXCEPT ![c] = models[k]]
    /\ UNCHANGED <<registryVars, pool, destroyed, adminVars, pslot, ctxDone>>

(* A bug: the slot is used in place and not taken off the channel. *)
BugCheckoutShares(c) ==
    /\ Alive
    /\ ppc[c] = "checkout"
    /\ \E s \in pool[pgen[c]] : pslot' = [pslot EXCEPT ![c] = s]
    /\ ppc' = [ppc EXCEPT ![c] = "running"]
    /\ UNCHANGED <<registryVars, pool, destroyed, adminVars, pgen, ctxDone>>

(* case slot := <-m.pool *)
PredictCheckout(c) ==
    /\ Alive
    /\ ppc[c] = "checkout"
    /\ \E s \in pool[pgen[c]] :
          /\ pool' = [pool EXCEPT ![pgen[c]] = @ \ {s}]
          /\ pslot' = [pslot EXCEPT ![c] = s]
    /\ ppc' = [ppc EXCEPT ![c] = "running"]
    /\ UNCHANGED <<registryVars, destroyed, adminVars, pgen, ctxDone>>

(* The receive finds the channel closed and empty: runSlot dereferences a  *)
(* nil slot.                                                               *)
PredictNilSlot(c) ==
    /\ Alive
    /\ ppc[c] = "checkout"
    /\ closed[pgen[c]]
    /\ pool[pgen[c]] = {}
    /\ ppc' = [ppc EXCEPT ![c] = "panicked"]
    /\ UNCHANGED <<registryVars, pool, destroyed, adminVars, pgen, pslot,
                   ctxDone>>

(* case <-ctx.Done() *)
PredictCancelled(c) ==
    /\ Alive
    /\ ppc[c] = "checkout"
    /\ ctxDone
    /\ ppc' = [ppc EXCEPT ![c] = "idle"]
    /\ UNCHANGED <<registryVars, pool, destroyed, adminVars, pgen, pslot,
                   ctxDone>>

(* A bug: an error return of runSlot keeps the slot. *)
BugReturnLeaks(c) ==
    /\ Alive
    /\ ppc[c] = "running"
    /\ pslot' = [pslot EXCEPT ![c] = 0]
    /\ ppc' = [ppc EXCEPT ![c] = "idle"]
    /\ UNCHANGED <<registryVars, pool, destroyed, adminVars, pgen, ctxDone>>

(* runSlot is done, with a result or an error, and the deferred function   *)
(* gives the slot back; there is room, since the slot came from there.     *)
PredictReturn(c) ==
    /\ Alive
    /\ ppc[c] = "running"
    /\ ~closed[pgen[c]]
    /\ pool' = [pool EXCEPT ![pgen[c]] = @ \cup {pslot[c]}]
    /\ pslot' = [pslot EXCEPT ![c] = 0]
    /\ ppc' = [ppc EXCEPT ![c] = "idle"]
    /\ UNCHANGED <<registryVars, destroyed, adminVars, pgen, ctxDone>>

(* The deferred send meets a closed channel. *)
PredictReturnPanics(c) ==
    /\ Alive
    /\ ppc[c] = "running"
    /\ closed[pgen[c]]
    /\ ppc' = [ppc EXCEPT ![c] = "panicked"]
    /\ UNCHANGED <<registryVars, pool, destroyed, adminVars, pgen, pslot,
                   ctxDone>>

(* The worker pool's context is cancelled. *)
Cancel ==
    /\ Alive
    /\ ~ctxDone
    /\ ctxDone' = TRUE
    /\ UNCHANGED <<registryVars, pool, destroyed, adminVars, clientVars>>

-----------------------------------------------------------------------------
LoadStep == LoadSlot \/ LoadEnd \/ LoadFails

UnloadStep ==
    \E k \in Key : UnloadClose(k) \/ UnloadDestroy(k) \/ UnloadEnd(k)

PredictDone(c) == PredictReturn(c) \/ PredictReturnPanics(c)

EngineNext ==
    \/ \E k \in Key : LoadBegin(k) \/ UnloadBegin(k)
    \/ CloseBegin
    \/ LoadStep
    \/ UnloadStep
    \/ \E c \in Client, k \in Key : PredictLookup(c, k)
    \/ \E c \in Client :
          \/ PredictCheckout(c)
          \/ PredictNilSlot(c)
          \/ PredictCancelled(c)
          \/ PredictDone(c)
    \/ Cancel

EngineSpec == EngineInit /\ [][EngineNext]_evars

(* The holder of the lock and a call that runs make progress; session.Run  *)
(* returns. A channel serves its waiting receivers in the order they came, *)
(* so a Predict call that waits is not passed over for ever.               *)
EngineFairness ==
    /\ WF_evars(LoadStep)
    /\ WF_evars(UnloadStep)
    /\ \A c \in Client :
          /\ SF_evars(PredictCheckout(c))
          /\ WF_evars(PredictNilSlot(c))
          /\ WF_evars(PredictDone(c))

FairEngineSpec == EngineSpec /\ EngineFairness

-----------------------------------------------------------------------------
Running == {c \in Client : ppc[c] = "running"}

InUse(g) == {s \in Slot : \E c \in Running : pgen[c] = g /\ pslot[c] = s}

(* "A slot is used by at most one goroutine at a time"                     *)
(* (onnx_runtime.go:20), through loads, unloads and cancellations.         *)
SlotExclusive ==
    /\ \A c, d \in Running :
          pgen[c] = pgen[d] /\ pslot[c] = pslot[d] => c = d
    /\ \A c \in Running : pslot[c] \notin pool[pgen[c]]

(* Unloading a model, or closing the engine, never destroys the session of *)
(* a slot that a Predict call is running on (onnx_runtime.go:181).         *)
NoUseAfterDestroy ==
    \A c \in Running : pslot[c] # 0 /\ pslot[c] \notin destroyed[pgen[c]]

(* A model that is loaded keeps all its slots, in the channel or with a    *)
(* call: neither an error nor a cancellation leaks one ("returns it when   *)
(* done", onnx_runtime.go:47).                                             *)
SlotsConserved ==
    Alive => \A k \in Loaded :
        ~closed[models[k]] => pool[models[k]] \cup InUse(models[k]) = Slot

(* A Predict call does not wait for a slot for ever (onnx_runtime.go:726), *)
(* whether the model stays or is unloaded meanwhile.                       *)
CheckoutEnds ==
    \A c \in Client : ppc[c] = "checkout" ~> ppc[c] # "checkout" \/ ~Alive

(* Every request "checks one set out of the pool and returns it when done" *)
(* (onnx_runtime.go:46-47): no Predict call panics.                        *)
NoPanic == Alive

(* LoadModel, UnloadModel and Close release the engine's lock              *)
(* (onnx_runtime.go:161-208, :357-435), unless a session could not be      *)
(* created: LoadModel then ranges over an open channel for ever (:411).    *)
LockReleased ==
    admin \in {"creating", "unloading"} ~> admin \in {"free", "stuck"} \/ ~Alive
=============================================================================
