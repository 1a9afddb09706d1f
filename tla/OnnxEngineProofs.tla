-------------------------- MODULE OnnxEngineProofs --------------------------
(***************************************************************************)
(* Proofs about OnnxEngine, for any models, callers, pool size and number  *)
(* of loads: slots are exclusive, never used after they are destroyed and  *)
(* never lost while their model is loaded.                                 *)
(***************************************************************************)
EXTENDS OnnxEngine, TLAPS

USE EngineAssumption DEF Gen, Slot

-----------------------------------------------------------------------------
(* The inductive invariant.                                                *)

(* A call that has found a model holds a generation that exists, and a     *)
(* running call a slot of it that is not destroyed.                        *)
ClientShape ==
    /\ \A c \in Client : ppc[c] \in {"checkout", "running"} =>
          pgen[c] \in Gen /\ pgen[c] < nextGen
    /\ \A c \in Running :
          pslot[c] \in Slot /\ pslot[c] \notin destroyed[pgen[c]]

(* The registry knows only finished generations, each under one key, and   *)
(* the holder of the lock unloads only what is loaded.                     *)
RegistryShape ==
    /\ \A k \in Key : models[k] < nextGen
    /\ \A j, k \in Loaded : models[j] = models[k] => j = k
    /\ akeys \subseteq Loaded
    /\ admin # "unloading" => akeys = {}
    /\ admin = "creating" => nextGen \in Gen /\ models[akey] = 0

(* The generation in the making has the slots made so far; the ones after  *)
(* it have none.                                                           *)
FutureShape ==
    /\ \A g \in Gen : g > nextGen => pool[g] = {} /\ destroyed[g] = {}
    /\ nextGen \in Gen =>
          /\ pool[nextGen] = IF admin = "creating" THEN 1 .. made ELSE {}
          /\ admin # "stuck" => destroyed[nextGen] = {}

(* A finished generation has each of its slots in the channel, in use or   *)
(* destroyed, and destroys none before its channel is closed.              *)
SlotAccount ==
    /\ \A g \in Gen : pool[g] \cap destroyed[g] = {}
    /\ \A g \in Gen : g < nextGen /\ ~closed[g] => destroyed[g] = {}
    /\ Alive => \A g \in Gen : g < nextGen =>
                   \A s \in Slot : \/ s \in pool[g]
                                   \/ s \in destroyed[g]
                                   \/ \E c \in Running : pgen[c] = g /\ pslot[c] = s

EngineInv ==
    /\ EngineTypeOK
    /\ SlotExclusive
    /\ ClientShape
    /\ RegistryShape
    /\ FutureShape
    /\ SlotAccount

LEMMA EngineInvInit == EngineInit => EngineInv
<1> SUFFICES ASSUME EngineInit PROVE EngineInv
  OBVIOUS
<1>1. Running = {} /\ Loaded = {}
  BY DEF EngineInit, Running, Loaded
<1>2. EngineTypeOK
  <2>1. ctxDone \in BOOLEAN /\ closed \in [Gen -> BOOLEAN]
    BY ZenonT(20) DEF EngineInit
  <2>2. /\ models \in [Key -> Gen \cup {0}]
        /\ pool \in [Gen -> SUBSET Slot]
        /\ destroyed \in [Gen -> SUBSET Slot]
        /\ nextGen \in 1 .. MaxLoads + 1
    BY DEF EngineInit
  <2>3. /\ ppc \in [Client -> {"idle", "checkout", "running", "panicked"}]
        /\ pgen \in [Client -> Gen \cup {0}]
        /\ pslot \in [Client -> Slot \cup {0}]
    BY DEF EngineInit
  <2> QED
    BY <2>1, <2>2, <2>3 DEF EngineInit, EngineTypeOK
<1>3. SlotExclusive /\ ClientShape
  BY <1>1 DEF EngineInit, SlotExclusive, ClientShape
<1>4. RegistryShape /\ FutureShape /\ SlotAccount
  BY <1>1 DEF EngineInit, RegistryShape, FutureShape, SlotAccount, Loaded
<1> QED
  BY <1>2, <1>3, <1>4 DEF EngineInv

-----------------------------------------------------------------------------
(* LoadModel. *)
LEMMA EngineInvLoad ==
    ASSUME EngineInv, (\E k \in Key : LoadBegin(k)) \/ LoadStep
    PROVE  EngineInv'
<1> USE DEF EngineInv, EngineTypeOK, registryVars, clientVars, Running, Alive
<1>1. ASSUME NEW k \in Key, LoadBegin(k) PROVE EngineInv'
  <2>1. SlotExclusive' /\ ClientShape' /\ SlotAccount'
    BY <1>1 DEF LoadBegin, SlotExclusive, ClientShape, SlotAccount
  <2>2. RegistryShape' /\ FutureShape'
    BY <1>1 DEF LoadBegin, RegistryShape, FutureShape, Loaded
  <2> QED
    BY <1>1, <2>1, <2>2 DEF LoadBegin
<1>2. CASE LoadSlot
  <2>1. nextGen \in Gen
    BY <1>2 DEF LoadSlot, RegistryShape
  <2>2. EngineTypeOK'
    BY <1>2, <2>1 DEF LoadSlot
  <2>3. \A g \in Gen : g < nextGen => pool'[g] = pool[g]
    BY <1>2, <2>1 DEF LoadSlot
  <2>4. SlotExclusive' /\ ClientShape'
    BY <1>2, <2>1, <2>3 DEF LoadSlot, SlotExclusive, ClientShape
  <2>5. RegistryShape'
    BY <1>2 DEF LoadSlot, RegistryShape, Loaded
  <2>6. FutureShape'
    BY <1>2, <2>1 DEF LoadSlot, FutureShape
  <2>7. SlotAccount'
    <3>1. \A g \in Gen : pool'[g] \cap destroyed'[g] = {}
      BY <1>2, <2>1 DEF LoadSlot, SlotAccount, FutureShape
    <3> QED
      BY <1>2, <2>3, <3>1 DEF LoadSlot, SlotAccount
  <2> QED
    BY <2>2, <2>4, <2>5, <2>6, <2>7
<1>3. CASE LoadEnd
  <2>1. nextGen \in Gen /\ pool[nextGen] = Slot
    BY <1>3 DEF LoadEnd, RegistryShape, FutureShape
  <2>2. EngineTypeOK'
    BY <1>3, <2>1 DEF LoadEnd
  <2>3. SlotExclusive' /\ ClientShape'
    BY <1>3 DEF LoadEnd, SlotExclusive, ClientShape
  <2>4. RegistryShape'
    BY <1>3, <2>1 DEF LoadEnd, RegistryShape, Loaded
  <2>5. FutureShape'
    BY <1>3, <2>1 DEF LoadEnd, FutureShape
  <2>6. SlotAccount'
    BY <1>3, <2>1 DEF LoadEnd, SlotAccount, FutureShape
  <2> QED
    BY <2>2, <2>3, <2>4, <2>5, <2>6
<1>4. CASE LoadFails
  <2>1. nextGen \in Gen
    BY <1>4 DEF LoadFails, RegistryShape
  <2>2. EngineTypeOK'
    BY <1>4, <2>1 DEF LoadFails
  <2>3. \A g \in Gen : g < nextGen =>
           pool'[g] = pool[g] /\ destroyed'[g] = destroyed[g]
    BY <1>4, <2>1 DEF LoadFails
  <2>4. SlotExclusive' /\ ClientShape'
    BY <1>4, <2>1, <2>3 DEF LoadFails, SlotExclusive, ClientShape
  <2>5. RegistryShape' /\ FutureShape'
    BY <1>4, <2>1 DEF LoadFails, RegistryShape, FutureShape, Loaded
  <2>6. SlotAccount'
    <3>1. \A g \in Gen : pool'[g] \cap destroyed'[g] = {}
      BY <1>4, <2>1 DEF LoadFails, SlotAccount
    <3> QED
      BY <1>4, <2>3, <3>1 DEF LoadFails, SlotAccount
  <2> QED
    BY <2>2, <2>4, <2>5, <2>6
<1> QED
  BY <1>1, <1>2, <1>3, <1>4 DEF LoadStep

(* UnloadModel and Close. *)
LEMMA EngineInvUnload ==
    ASSUME EngineInv,
           (\E k \in Key : UnloadBegin(k)) \/ CloseBegin \/ UnloadStep
    PROVE  EngineInv'
<1> USE DEF EngineInv, EngineTypeOK, registryVars, adminVars, clientVars,
        Running, Alive
<1>1. CASE (\E k \in Key : UnloadBegin(k)) \/ CloseBegin
  <2>1. SlotExclusive' /\ ClientShape' /\ SlotAccount'
    BY <1>1 DEF UnloadBegin, CloseBegin, SlotExclusive, ClientShape, SlotAccount
  <2>2. EngineTypeOK' /\ RegistryShape'
    BY <1>1 DEF UnloadBegin, CloseBegin, RegistryShape, Loaded
  <2>3. FutureShape'
    BY <1>1 DEF UnloadBegin, CloseBegin, FutureShape
  <2> QED
    BY <2>1, <2>2, <2>3
<1>2. ASSUME NEW k \in Key, admin = "unloading", k \in akeys
      PROVE  models[k] \in Gen /\ models[k] < nextGen
  BY <1>2 DEF RegistryShape, Loaded
<1>3. ASSUME NEW k \in Key, UnloadClose(k) PROVE EngineInv'
  <2>1. models[k] \in Gen
    BY <1>2, <1>3 DEF UnloadClose
  <2>2. EngineTypeOK' /\ SlotAccount'
    BY <1>3, <2>1 DEF UnloadClose, SlotAccount
  <2>3. SlotExclusive' /\ ClientShape' /\ FutureShape' /\ RegistryShape'
    BY <1>3 DEF UnloadClose, SlotExclusive, ClientShape, FutureShape,
       RegistryShape, Loaded
  <2> QED
    BY <2>2, <2>3
<1>4. ASSUME NEW k \in Key, UnloadDestroy(k) PROVE EngineInv'
  <2> DEFINE g == models[k]
  <2>1. g \in Gen /\ g < nextGen /\ closed[g]
    BY <1>2, <1>4 DEF UnloadDestroy
  <2>2. PICK s \in pool[g] :
           /\ pool' = [pool EXCEPT ![g] = @ \ {s}]
           /\ destroyed' = [destroyed EXCEPT ![g] = @ \cup {s}]
    BY <1>4 DEF UnloadDestroy
  <2>3. UNCHANGED <<models, closed, nextGen, admin, akey, akeys, made, ppc,
                    pgen, pslot, ctxDone>>
    BY <1>4 DEF UnloadDestroy
  <2>4. s \in Slot
    BY <2>1, <2>2
  <2>5. EngineTypeOK'
    BY <2>1, <2>2, <2>3, <2>4
  <2>6. SlotExclusive' /\ ClientShape'
    BY <2>1, <2>2, <2>3 DEF SlotExclusive, ClientShape
  <2>7. RegistryShape' /\ FutureShape'
    BY <2>1, <2>2, <2>3 DEF RegistryShape, FutureShape, Loaded
  <2>8. SlotAccount'
    <3>1. \A h \in Gen : pool'[h] \cap destroyed'[h] = {}
      BY <2>1, <2>2 DEF SlotAccount
    <3>2. \A h \in Gen : h < nextGen' /\ ~closed'[h] => destroyed'[h] = {}
      BY <2>1, <2>2, <2>3 DEF SlotAccount
    <3>3. \A h \in Gen, t \in Slot :
             t \in pool[h] \/ t \in destroyed[h] =>
                t \in pool'[h] \/ t \in destroyed'[h]
      BY <2>1, <2>2
    <3> QED
      BY <2>3, <3>1, <3>2, <3>3 DEF SlotAccount
  <2> QED
    BY <2>5, <2>6, <2>7, <2>8
<1>5. ASSUME NEW k \in Key, UnloadEnd(k) PROVE EngineInv'
  <2>1. SlotExclusive' /\ ClientShape' /\ SlotAccount'
    BY <1>5 DEF UnloadEnd, SlotExclusive, ClientShape, SlotAccount
  <2>2. EngineTypeOK' /\ RegistryShape'
    BY <1>5 DEF UnloadEnd, RegistryShape, Loaded
  <2>3. FutureShape'
    BY <1>5 DEF UnloadEnd, FutureShape
  <2> QED
    BY <2>1, <2>2, <2>3
<1> QED
  BY <1>1, <1>3, <1>4, <1>5 DEF UnloadStep

(* Predict. *)
LEMMA EngineInvPredict ==
    ASSUME EngineInv, NEW c \in Client,
           \/ \E k \in Key : PredictLookup(c, k)
           \/ PredictCheckout(c)
           \/ PredictNilSlot(c)
           \/ PredictCancelled(c)
           \/ PredictDone(c)
    PROVE  EngineInv'
<1> USE DEF EngineInv, EngineTypeOK, registryVars, adminVars, Running, Alive
<1>1. ASSUME NEW k \in Key, PredictLookup(c, k) PROVE EngineInv'
  <2>1. models[k] \in Gen /\ models[k] < nextGen
    BY <1>1 DEF PredictLookup, RegistryShape
  <2>2. EngineTypeOK'
    BY <1>1, <2>1 DEF PredictLookup
  <2>3. SlotExclusive' /\ ClientShape'
    BY <1>1, <2>1 DEF PredictLookup, SlotExclusive, ClientShape
  <2>4. RegistryShape' /\ FutureShape'
    BY <1>1 DEF PredictLookup, RegistryShape, FutureShape, Loaded
  <2>5. SlotAccount'
    BY <1>1 DEF PredictLookup, SlotAccount
  <2> QED
    BY <2>2, <2>3, <2>4, <2>5
<1>2. CASE PredictCheckout(c)
  <2> DEFINE g == pgen[c]
  <2>1. g \in Gen /\ g < nextGen
    BY <1>2 DEF PredictCheckout, ClientShape
  <2>2. PICK s \in pool[g] :
           /\ pool' = [pool EXCEPT ![g] = @ \ {s}]
           /\ pslot' = [pslot EXCEPT ![c] = s]
    BY <1>2 DEF PredictCheckout
  <2>3. /\ UNCHANGED <<models, closed, nextGen, destroyed, admin, akey, akeys,
                       made, pgen, ctxDone>>
        /\ ppc[c] = "checkout"
        /\ ppc' = [ppc EXCEPT ![c] = "running"]
    BY <1>2 DEF PredictCheckout
  <2>4. s \in Slot /\ s \notin destroyed[g]
    BY <2>1, <2>2 DEF SlotAccount
  <2>5. EngineTypeOK'
    BY <2>1, <2>2, <2>3, <2>4
  <2>6. ClientShape'
    BY <2>1, <2>2, <2>3, <2>4 DEF ClientShape
  <2>7. SlotExclusive'
    BY <2>1, <2>2, <2>3, <2>4 DEF SlotExclusive, ClientShape
  <2>8. RegistryShape' /\ FutureShape'
    BY <2>1, <2>2, <2>3 DEF RegistryShape, FutureShape, Loaded
  <2>9. SlotAccount'
    <3>1. \A h \in Gen : pool'[h] \cap destroyed'[h] = {}
      BY <2>1, <2>2, <2>3 DEF SlotAccount
    <3>2. ASSUME Alive', NEW h \in Gen, h < nextGen', NEW t \in Slot
          PROVE  \/ t \in pool'[h]
                 \/ t \in destroyed'[h]
                 \/ \E d \in Running' : pgen'[d] = h /\ pslot'[d] = t
      <4>1. CASE h = g /\ t = s
        BY <2>2, <2>3, <4>1
      <4>2. CASE ~(h = g /\ t = s)
        BY <1>2, <2>1, <2>2, <2>3, <3>2, <4>2 DEF SlotAccount, PredictCheckout
      <4> QED
        BY <4>1, <4>2
    <3> QED
      BY <2>3, <3>1, <3>2 DEF SlotAccount
  <2> QED
    BY <2>5, <2>6, <2>7, <2>8, <2>9
<1>3. CASE PredictNilSlot(c) \/ PredictReturnPanics(c) \/ PredictCancelled(c)
  <2>1. EngineTypeOK'
    BY <1>3 DEF PredictNilSlot, PredictReturnPanics, PredictCancelled
  <2>2. Running' \subseteq Running
    BY <1>3 DEF PredictNilSlot, PredictReturnPanics, PredictCancelled
  <2>3. SlotExclusive' /\ ClientShape'
    BY <1>3, <2>2 DEF PredictNilSlot, PredictReturnPanics, PredictCancelled,
       SlotExclusive, ClientShape
  <2>4. RegistryShape' /\ FutureShape'
    BY <1>3 DEF PredictNilSlot, PredictReturnPanics, PredictCancelled,
       RegistryShape, FutureShape, Loaded
  <2>5. SlotAccount'
    BY <1>3 DEF PredictNilSlot, PredictReturnPanics, PredictCancelled,
       SlotAccount
  <2> QED
    BY <2>1, <2>3, <2>4, <2>5
<1>4. CASE PredictReturn(c)
  <2> DEFINE g == pgen[c]
             s == pslot[c]
  <2>1. /\ g \in Gen /\ g < nextGen /\ ~closed[g]
        /\ s \in Slot /\ s \notin pool[g]
    BY <1>4 DEF PredictReturn, ClientShape, SlotExclusive
  <2>2. /\ UNCHANGED <<models, closed, nextGen, destroyed, admin, akey, akeys,
                       made, pgen, ctxDone>>
        /\ ppc[c] = "running"
        /\ ppc' = [ppc EXCEPT ![c] = "idle"]
        /\ pslot' = [pslot EXCEPT ![c] = 0]
        /\ pool' = [pool EXCEPT ![g] = @ \cup {s}]
    BY <1>4 DEF PredictReturn
  <2>3. EngineTypeOK'
    BY <2>1, <2>2
  <2>4. ClientShape'
    BY <2>1, <2>2 DEF ClientShape
  <2>5. SlotExclusive'
    BY <2>1, <2>2 DEF SlotExclusive
  <2>6. RegistryShape' /\ FutureShape'
    BY <2>1, <2>2 DEF RegistryShape, FutureShape, Loaded
  <2>7. SlotAccount'
    <3>1. \A h \in Gen : pool'[h] \cap destroyed'[h] = {}
      BY <2>1, <2>2 DEF SlotAccount, ClientShape
    <3>2. ASSUME Alive', NEW h \in Gen, h < nextGen', NEW t \in Slot
          PROVE  \/ t \in pool'[h]
                 \/ t \in destroyed'[h]
                 \/ \E d \in Running' : pgen'[d] = h /\ pslot'[d] = t
      BY <1>4, <2>1, <2>2, <3>2 DEF SlotAccount, PredictReturn
    <3> QED
      BY <2>2, <3>1, <3>2 DEF SlotAccount
  <2> QED
    BY <2>3, <2>4, <2>5, <2>6, <2>7
<1> QED
  BY <1>1, <1>2, <1>3, <1>4 DEF PredictDone

LEMMA EngineInvAlways == EngineSpec => []EngineInv
<1>1. ASSUME EngineInv, Cancel \/ UNCHANGED evars PROVE EngineInv'
  <2>1. EngineTypeOK'
    BY <1>1 DEF EngineInv, EngineTypeOK, Cancel, evars, registryVars,
       adminVars, clientVars
  <2>2. UNCHANGED <<registryVars, pool, destroyed, adminVars, clientVars>>
    BY <1>1 DEF Cancel, evars
  <2> QED
    BY <1>1, <2>1, <2>2 DEF EngineInv, registryVars, adminVars, clientVars,
       SlotExclusive, ClientShape, RegistryShape, FutureShape, SlotAccount,
       Running, Alive, Loaded
<1>2. EngineInv /\ [EngineNext]_evars => EngineInv'
  BY <1>1, EngineInvLoad, EngineInvUnload, EngineInvPredict DEF EngineNext
<1> QED
  BY <1>2, EngineInvInit, PTL DEF EngineSpec

-----------------------------------------------------------------------------
(* The registry and the pools are well formed after any sequence of loads, *)
(* unloads and predictions: in particular no channel ever holds a slot     *)
(* that its generation does not have (onnx_runtime.go:409-417).            *)
THEOREM EngineTypeCorrect == EngineSpec => []EngineTypeOK
BY EngineInvAlways, PTL DEF EngineInv

(* A session slot is used by at most one goroutine at a time, for any      *)
(* number of models, callers and slots (onnx_runtime.go:20).               *)
THEOREM EngineSlotsSafe == EngineSpec => []SlotExclusive
<1>1. EngineInv => SlotExclusive
  BY DEF EngineInv
<1> QED
  BY <1>1, EngineInvAlways, PTL

(* No session is destroyed under the goroutine that runs it, whatever      *)
(* unloads and closes of the same model overlap (onnx_runtime.go:181).     *)
THEOREM EngineNoUseAfterDestroy == EngineSpec => []NoUseAfterDestroy
<1>1. EngineInv => NoUseAfterDestroy
  BY DEF EngineInv, ClientShape, NoUseAfterDestroy
<1> QED
  BY <1>1, EngineInvAlways, PTL

(* A loaded model keeps all its slots (onnx_runtime.go:728).               *)
THEOREM EngineSlotsConserved == EngineSpec => []SlotsConserved
<1>1. EngineInv => SlotsConserved
  <2> SUFFICES ASSUME EngineInv, Alive, NEW k \in Loaded, ~closed[models[k]]
               PROVE  pool[models[k]] \cup InUse(models[k]) = Slot
    BY DEF SlotsConserved
  <2>1. models[k] \in Gen /\ models[k] < nextGen
    BY DEF EngineInv, EngineTypeOK, RegistryShape, Loaded
  <2>2. destroyed[models[k]] = {} /\ pool[models[k]] \subseteq Slot
    BY <2>1 DEF EngineInv, EngineTypeOK, SlotAccount
  <2>3. Slot \subseteq pool[models[k]] \cup InUse(models[k])
    BY <2>1, <2>2 DEF EngineInv, SlotAccount, InUse
  <2> QED
    BY <2>2, <2>3 DEF InUse
<1> QED
  BY <1>1, EngineInvAlways, PTL

-----------------------------------------------------------------------------
(* A model that the registry holds, and that nobody is unloading, has an   *)
(* open channel, as have the generations to come; a call that panicked met *)
(* a closed one.                                                           *)
OpenInv ==
    /\ \A k \in Loaded \ akeys : ~closed[models[k]]
    /\ \A g \in Gen : g >= nextGen => ~closed[g]
    /\ \A c \in Client : ppc[c] = "panicked" =>
          pgen[c] \in Gen /\ closed[pgen[c]]

LEMMA OpenInvAlways == EngineSpec => []OpenInv
<1>1. EngineInit => OpenInv
  BY DEF EngineInit, OpenInv, Loaded
<1>2. EngineInv /\ OpenInv /\ [EngineNext]_evars => OpenInv'
  <2> SUFFICES ASSUME EngineInv, OpenInv, [EngineNext]_evars PROVE OpenInv'
    OBVIOUS
  <2> USE DEF registryVars, adminVars, clientVars
  <2>0. EngineTypeOK /\ RegistryShape /\ ClientShape
    BY DEF EngineInv
  <2>1. ASSUME NEW k \in Key, LoadBegin(k) \/ UnloadBegin(k) PROVE OpenInv'
    BY <2>0, <2>1 DEF LoadBegin, UnloadBegin, OpenInv, RegistryShape, Loaded
  <2>2. CASE CloseBegin \/ LoadSlot \/ LoadFails \/ Cancel
    BY <2>0, <2>2 DEF CloseBegin, LoadSlot, LoadFails, Cancel, OpenInv,
       RegistryShape, Loaded
  <2>3. CASE LoadEnd
    <3>1. /\ nextGen \in Gen /\ ~closed[nextGen] /\ akeys = {}
          /\ models' = [models EXCEPT ![akey] = nextGen]
          /\ UNCHANGED <<closed, akeys, ppc, pgen>> /\ nextGen' = nextGen + 1
      BY <2>0, <2>3 DEF LoadEnd, OpenInv, RegistryShape, EngineTypeOK
    <3>2. \A k \in Loaded' : ~closed[models'[k]]
      BY <2>0, <3>1 DEF OpenInv, EngineTypeOK, Loaded
    <3>3. \A g \in Gen : g >= nextGen' => g >= nextGen
      BY <2>0, <3>1 DEF EngineTypeOK
    <3> QED
      BY <3>1, <3>2, <3>3 DEF OpenInv
  <2>4. ASSUME NEW k \in Key, UnloadClose(k) PROVE OpenInv'
    <3>1. k \in Loaded /\ models[k] \in Gen /\ models[k] < nextGen
      BY <2>0, <2>4 DEF UnloadClose, RegistryShape, EngineTypeOK, Loaded
    <3>2. \A j \in Loaded \ akeys : models[j] # models[k]
      BY <2>0, <2>4, <3>1 DEF UnloadClose, RegistryShape
    <3> QED
      BY <2>0, <2>4, <3>1, <3>2 DEF UnloadClose, OpenInv, EngineTypeOK, Loaded
  <2>5. ASSUME NEW k \in Key, UnloadDestroy(k) \/ UnloadEnd(k) PROVE OpenInv'
    <3>1. CASE UnloadDestroy(k)
      BY <3>1 DEF UnloadDestroy, OpenInv, Loaded
    <3>2. CASE UnloadEnd(k)
      <4>1. \A j \in Loaded' \ akeys' :
               j \in Loaded \ akeys /\ models'[j] = models[j]
        BY <2>0, <3>2 DEF UnloadEnd, EngineTypeOK, Loaded
      <4> QED
        BY <3>2, <4>1 DEF UnloadEnd, OpenInv
    <3> QED
      BY <2>5, <3>1, <3>2
  <2>6. ASSUME NEW c \in Client, NEW k \in Key, PredictLookup(c, k)
        PROVE  OpenInv'
    BY <2>0, <2>6 DEF PredictLookup, OpenInv, EngineTypeOK, Loaded
  <2>7. ASSUME NEW c \in Client,
               \/ PredictCheckout(c) \/ PredictNilSlot(c)
               \/ PredictCancelled(c) \/ PredictDone(c)
        PROVE  OpenInv'
    BY <2>0, <2>7 DEF PredictCheckout, PredictNilSlot, PredictCancelled,
       PredictDone, PredictReturn, PredictReturnPanics, OpenInv, ClientShape,
       Running, EngineTypeOK, Loaded
  <2>8. CASE UNCHANGED evars
    BY <2>8 DEF evars, OpenInv, Loaded
  <2> QED
    BY <2>1, <2>2, <2>3, <2>4, <2>5, <2>6, <2>7, <2>8
       DEF EngineNext, LoadStep, UnloadStep
<1> QED
  BY <1>1, <1>2, EngineInvAlways, PTL DEF EngineSpec

(* The generation a call panicked on is no longer one that Predict finds:  *)
(* its model is being unloaded, or has been (onnx_runtime.go:178-187).     *)
PanicAfterUnload ==
    \A c \in Client : ppc[c] = "panicked" =>
        \A k \in Loaded \ akeys : models[k] # pgen[c]

(* A Predict call panics only when its model is unloaded after the call    *)
(* looked it up: neither loads, errors, cancellation nor unloads of other  *)
(* models do it (onnx_runtime.go:725-731).                                 *)
THEOREM EnginePanicNeedsUnload == EngineSpec => []PanicAfterUnload
<1>1. OpenInv => PanicAfterUnload
  BY DEF OpenInv, PanicAfterUnload
<1> QED
  BY <1>1, OpenInvAlways, PTL

(* Predict never finds a model whose channel is closed: a new call after   *)
(* an unload gets an error or the model that was loaded since.             *)
LookupOpen ==
    admin = "free" => \A k \in Loaded : ~closed[models[k]]

(* The registry entry and the channel go together although unloadModel     *)
(* closes, drains and deletes in separate steps (onnx_runtime.go:178-187). *)
THEOREM EngineLookupOpen == EngineSpec => []LookupOpen
<1>1. EngineInv /\ OpenInv => LookupOpen
  BY DEF EngineInv, RegistryShape, OpenInv, LookupOpen
<1> QED
  BY <1>1, EngineInvAlways, OpenInvAlways, PTL
=============================================================================
