------------------------- MODULE TFLiteEngineProofs -------------------------
(***************************************************************************)
(* Proofs about TFLiteEngine, in both builds, for any ids, versions,       *)
(* callers and number of loads.                                            *)
(***************************************************************************)
EXTENDS TFLiteEngine, TLAPS

USE TFLiteAssumption

-----------------------------------------------------------------------------
(* The inductive invariant, in four parts besides the type invariant.      *)

(* RegistriesMatch, with what LoadModel has done to the id it loads: the   *)
(* base engine knows it, the other registry does not yet.                  *)
BaseMatches(i) ==
    IF admin = "loading" /\ aname[1] = i
    THEN aname[2] = NoVersion /\ BaseKnows(<<i, NoVersion>>) /\ models[i] = 0
    ELSE BaseKnows(<<i, NoVersion>>) <=> models[i] # 0

BaseInv ==
    /\ admin = "loading" => nextGen <= MaxLoads
    /\ \A i \in Id \ irregular : BaseMatches(i)

(* Generations are never used twice. *)
GenInv ==
    /\ \A i \in Id : models[i] < nextGen
    /\ \A g \in live : g < nextGen
    /\ \A i, j \in Id : models[i] = models[j] /\ models[i] # 0 => i = j

(* A call under way that has not been disturbed is alone on an interpreter *)
(* that exists, and the tensors hold what it has put there.                *)
SoloCall(c) ==
    /\ pgen[c] \in live
    /\ \A d \in Client : InProgress(d) /\ pgen[d] = pgen[c] => d = c
    /\ ppc[c] = "filled" => input[pgen[c]] = c
    /\ ppc[c] = "invoked" => output[pgen[c]] = c

CallInv ==
    /\ \A c \in Client : InProgress(c) => build = "cgo" /\ pgen[c] \in Gen
    /\ \A c \in Client \ disturbed : InProgress(c) => SoloCall(c)

TFLiteInv ==
    /\ TFLiteTypeOK
    /\ BaseInv
    /\ GenInv
    /\ InterpretersOwned
    /\ CallInv
    /\ SoloCallsSafe

LEMMA TFLiteInvInit == TFLiteInit => TFLiteInv
<1> SUFFICES ASSUME TFLiteInit PROVE TFLiteInv
  OBVIOUS
<1>1. TFLiteTypeOK
  BY DEF TFLiteInit, TFLiteTypeOK
<1>2. \A i \in Id : models[i] = 0
  BY DEF TFLiteInit
<1>3. \A c \in Client : ppc[c] = "idle" /\ result[c] = NoData
  BY DEF TFLiteInit
<1>4. BaseInv /\ GenInv
  BY <1>2 DEF TFLiteInit, BaseInv, BaseMatches, BaseKnows, GenInv
<1>5. InterpretersOwned
  BY <1>2 DEF TFLiteInit, InterpretersOwned, Registered
<1>6. CallInv /\ SoloCallsSafe
  BY <1>3 DEF CallInv, SoloCallsSafe, InProgress
<1> QED
  BY <1>1, <1>4, <1>5, <1>6 DEF TFLiteInv

(* A step of LoadModel deletes no interpreter and touches no call. *)
LEMMA LoadFrame ==
    ASSUME CallInv, SoloCallsSafe,
           UNCHANGED <<build, clientVars, disturbed>>, live \subseteq live'
    PROVE  CallInv' /\ SoloCallsSafe'
<1> USE DEF clientVars
<1>1. \A c \in Client : InProgress(c)' <=> InProgress(c)
  BY DEF InProgress
<1>2. \A c \in Client : SoloCall(c) => SoloCall(c)'
  BY <1>1 DEF SoloCall
<1> QED
  BY <1>1, <1>2 DEF CallInv, SoloCallsSafe

LEMMA LoadBeginInv ==
    ASSUME TFLiteInv, NEW n \in Name, LoadBegin(n)
    PROVE  TFLiteInv'
<1> USE DEF TFLiteInv
<1>1. n[1] \in Id /\ n = <<n[1], n[2]>>
  BY DEF Name
<1>2. TFLiteTypeOK'
  BY <1>1 DEF TFLiteTypeOK, LoadBegin, clientVars
<1>3. BaseInv'
  <2>1. nextGen' <= MaxLoads
    BY DEF LoadBegin
  <2>2. ASSUME NEW i \in Id \ irregular' PROVE BaseMatches(i)'
    <3>1. i \in Id \ irregular /\ BaseMatches(i)
      BY <2>2 DEF LoadBegin, BaseInv
    <3>2. CASE i = n[1]
      <4>1. n[2] = NoVersion
        BY <2>2, <3>2 DEF LoadBegin
      <4>2. n = <<i, NoVersion>>
        BY <1>1, <3>2, <4>1
      <4>3. models[i] = 0
        BY <3>1, <4>2 DEF LoadBegin, BaseMatches
      <4> QED
        BY <3>2, <4>1, <4>2, <4>3 DEF LoadBegin, BaseMatches, BaseKnows
    <3>3. CASE i # n[1]
      <4>1. <<i, NoVersion>> # n
        BY <1>1, <3>3
      <4> QED
        BY <3>1, <3>3, <4>1 DEF LoadBegin, BaseMatches, BaseKnows
    <3> QED
      BY <3>2, <3>3
  <2> QED
    BY <2>1, <2>2 DEF BaseInv
<1>4. GenInv' /\ InterpretersOwned'
  BY DEF LoadBegin, GenInv, InterpretersOwned, Registered
<1>5. CallInv' /\ SoloCallsSafe'
  BY LoadFrame DEF LoadBegin
<1> QED
  BY <1>2, <1>3, <1>4, <1>5

(* A good load, of either build. *)
LEMMA LoadEndInv ==
    ASSUME TFLiteInv, LoadEnd \/ MockLoadEnd
    PROVE  TFLiteInv'
<1> DEFINE a == aname[1]
<1> USE DEF TFLiteInv
<1>1. /\ a \in Id /\ models \in [Id -> Gen \cup {0}]
      /\ nextGen \in Gen /\ live \subseteq Gen
      /\ admin = "loading"
      /\ models' = [models EXCEPT ![a] = nextGen]
      /\ nextGen' = nextGen + 1 /\ admin' = "free"
      /\ UNCHANGED <<build, base, aname, clientVars, irregular, disturbed>>
  BY DEF LoadEnd, MockLoadEnd, TFLiteTypeOK, BaseInv, Name, Gen
<1>2. live' = (IF build = "cgo" THEN live \cup {nextGen} ELSE live)
  BY DEF LoadEnd, MockLoadEnd
<1>3. TFLiteTypeOK'
  BY <1>1, <1>2 DEF TFLiteTypeOK, clientVars, Gen
<1>4. BaseInv'
  <2>1. ASSUME NEW i \in Id \ irregular PROVE BaseMatches(i)'
    BY <1>1 DEF BaseInv, BaseMatches, BaseKnows, Gen
  <2> QED
    BY <1>1, <2>1 DEF BaseInv
<1>5. GenInv'
  BY <1>1, <1>2 DEF GenInv, Gen
<1>6. InterpretersOwned'
  <2> SUFFICES ASSUME build = "cgo"
               PROVE  /\ Registered' \subseteq live'
                      /\ irregular' = {} => live' \subseteq Registered'
    BY <1>1 DEF InterpretersOwned
  <2>1. Registered' \subseteq Registered \cup {nextGen}
    BY <1>1 DEF Registered
  <2>2. irregular = {} => models[a] = 0
    BY <1>1 DEF BaseInv, BaseMatches
  <2>3. nextGen \in Registered'
    BY <1>1 DEF Registered, Gen
  <2>4. models[a] = 0 => Registered \subseteq Registered'
    BY <1>1 DEF Registered
  <2> QED
    BY <1>1, <1>2, <2>1, <2>2, <2>3, <2>4 DEF InterpretersOwned
<1>7. CallInv' /\ SoloCallsSafe'
  BY <1>1, <1>2, LoadFrame
<1> QED
  BY <1>3, <1>4, <1>5, <1>6, <1>7

LEMMA LoadFailsInv ==
    ASSUME TFLiteInv, LoadFails \/ LoadPanics
    PROVE  TFLiteInv'
<1> DEFINE a == aname[1]
<1> USE DEF TFLiteInv
<1>1. /\ a \in Id /\ admin = "loading" /\ admin' = "free"
      /\ UNCHANGED <<build, models, live, aname, nextGen, clientVars, disturbed>>
  BY DEF LoadFails, LoadPanics, TFLiteTypeOK, Name
<1>2. TFLiteTypeOK'
  BY <1>1 DEF TFLiteTypeOK, LoadFails, LoadPanics, BaseForgets, clientVars
<1>3. BaseInv'
  <2>1. CASE LoadFails
    <3>1. ASSUME NEW i \in Id \ irregular PROVE BaseMatches(i)'
      <4>1. <<i, NoVersion>> \in base' <=> <<i, NoVersion>> \in base /\ i # a
        BY <2>1 DEF LoadFails, BaseForgets
      <4> QED
        BY <1>1, <4>1 DEF BaseInv, BaseMatches, BaseKnows
    <3> QED
      BY <1>1, <2>1, <3>1 DEF LoadFails, BaseInv
  <2>2. CASE LoadPanics
    <3>1. ASSUME NEW i \in Id \ irregular' PROVE BaseMatches(i)'
      BY <1>1, <2>2, <3>1 DEF LoadPanics, BaseInv, BaseMatches, BaseKnows
    <3> QED
      BY <1>1, <3>1 DEF BaseInv
  <2> QED
    BY <2>1, <2>2
<1>4. irregular \subseteq irregular'
  BY DEF LoadFails, LoadPanics
<1>5. GenInv' /\ InterpretersOwned'
  BY <1>1, <1>4 DEF GenInv, InterpretersOwned, Registered
<1>6. CallInv' /\ SoloCallsSafe'
  BY <1>1, LoadFrame
<1> QED
  BY <1>2, <1>3, <1>5, <1>6

-----------------------------------------------------------------------------
(* Deleting models disturbs the calls that use them, and no other call or  *)
(* model loses its interpreter.                                            *)
LEMMA DestroyInv ==
    ASSUME TFLiteInv, admin = "free", NEW ids \in SUBSET Id, Destroy(ids),
           \A i \in ids : models[i] # 0 \/ build = "mock"
    PROVE  TFLiteInv'
<1> DEFINE gens == {models[i] : i \in ids}
<1> USE DEF TFLiteInv
<1>1. /\ models \in [Id -> Gen \cup {0}] /\ live \subseteq Gen
      /\ models' = [i \in Id |-> IF i \in ids THEN 0 ELSE models[i]]
      /\ live' = live \ gens
      /\ disturbed' = disturbed \cup
                      {c \in Client : InProgress(c) /\ pgen[c] \in gens}
      /\ UNCHANGED <<build, admin, aname, nextGen, clientVars, irregular>>
  BY DEF Destroy, TFLiteTypeOK, adminVars
<1>2. TFLiteTypeOK'
  BY <1>1 DEF TFLiteTypeOK, Destroy, BaseForgets, clientVars
<1>3. BaseInv'
  <2>1. ASSUME NEW i \in Id \ irregular PROVE BaseMatches(i)'
    <3>1. <<i, NoVersion>> \in base' <=> <<i, NoVersion>> \in base /\ i \notin ids
      BY DEF Destroy, BaseForgets
    <3> QED
      BY <1>1, <3>1 DEF BaseInv, BaseMatches, BaseKnows
  <2> QED
    BY <1>1, <2>1 DEF BaseInv
<1>4. GenInv'
  BY <1>1 DEF GenInv, TFLiteTypeOK, Gen
<1>5. InterpretersOwned'
  <2> SUFFICES ASSUME build = "cgo"
               PROVE  /\ Registered' \subseteq live'
                      /\ irregular' = {} => live' \subseteq Registered'
    BY <1>1 DEF InterpretersOwned
  <2>1. \A j \in Id : j \notin ids /\ models[j] # 0 => models[j] \notin gens
    BY DEF GenInv
  <2>2. Registered' = Registered \ gens
    BY <1>1, <2>1 DEF Registered
  <2> QED
    BY <1>1, <2>2 DEF InterpretersOwned
<1>6. CallInv' /\ SoloCallsSafe'
  <2>1. \A c \in Client : InProgress(c)' <=> InProgress(c)
    BY <1>1 DEF InProgress, clientVars
  <2>2. ASSUME NEW c \in Client \ disturbed', InProgress(c)
        PROVE  SoloCall(c)'
    <3>1. c \in Client \ disturbed /\ SoloCall(c) /\ pgen[c] \notin gens
      BY <1>1, <2>2 DEF CallInv
    <3> QED
      BY <1>1, <2>1, <3>1 DEF SoloCall, clientVars
  <2> QED
    BY <1>1, <2>1, <2>2 DEF CallInv, SoloCallsSafe, clientVars
<1> QED
  BY <1>2, <1>3, <1>4, <1>5, <1>6

LEMMA UnloadInv ==
    ASSUME TFLiteInv,
           Close \/ \E i \in Id : UnloadModel(i) \/ MockUnloadModel(i)
    PROVE  TFLiteInv'
<1>1. ASSUME NEW i \in Id, UnloadModel(i) \/ MockUnloadModel(i)
      PROVE  TFLiteInv'
  <2>1. /\ admin = "free" /\ Destroy({i}) /\ {i} \in SUBSET Id
        /\ \A j \in {i} : models[j] # 0 \/ build = "mock"
    BY <1>1 DEF UnloadModel, MockUnloadModel
  <2> QED
    BY <2>1, DestroyInv
<1>2. CASE Close
  <2> DEFINE ids == {i \in Id : models[i] # 0}
  <2>1. /\ admin = "free" /\ Destroy(ids) /\ ids \in SUBSET Id
        /\ \A j \in ids : models[j] # 0 \/ build = "mock"
    BY <1>2 DEF Close
  <2> HIDE DEF ids
  <2> QED
    BY <2>1, DestroyInv
<1> QED
  BY <1>1, <1>2

-----------------------------------------------------------------------------
(* A call that finds its model starts undisturbed only if nobody uses the  *)
(* interpreter, and otherwise disturbs everybody who does.                 *)
LEMMA LookupInv ==
    ASSUME TFLiteInv, NEW c \in Client, NEW i \in Id, PredictLookup(c, i)
    PROVE  TFLiteInv'
<1> DEFINE g == models[i]
<1> USE DEF TFLiteInv
<1>1. /\ ppc \in [Client -> {"idle", "found", "filled", "invoked", "fault",
                            "panicked"}]
      /\ pgen \in [Client -> Gen \cup {0}]
      /\ result \in [Client -> Client \cup {NoData}]
      /\ disturbed \subseteq Client
      /\ g \in Gen /\ build = "cgo" /\ ppc[c] = "idle"
      /\ ppc' = [ppc EXCEPT ![c] = "found"]
      /\ pgen' = [pgen EXCEPT ![c] = g]
      /\ result' = [result EXCEPT ![c] = NoData]
      /\ UNCHANGED <<build, base, models, live, admin, aname, nextGen, input,
                     output, irregular>>
  BY DEF PredictLookup, TFLiteTypeOK, adminVars
<1>2. disturbed' = IF Users(g) = {} THEN disturbed \ {c}
                   ELSE disturbed \cup Users(g) \cup {c}
  BY DEF PredictLookup
<1>3. TFLiteTypeOK'
  BY <1>1, <1>2 DEF TFLiteTypeOK, Users
<1>4. BaseInv' /\ GenInv' /\ InterpretersOwned'
  BY <1>1 DEF BaseInv, BaseMatches, BaseKnows, GenInv, InterpretersOwned,
     Registered
<1>5. \A d \in Client : InProgress(d)' <=> InProgress(d) \/ d = c
  BY <1>1 DEF InProgress
<1>6. ASSUME NEW d \in Client \ disturbed', InProgress(d)'
      PROVE  SoloCall(d)'
  <2>1. CASE d = c
    <3>1. Users(g) = {}
      BY <1>2, <1>6, <2>1
    <3>2. g \in live
      BY <1>1 DEF InterpretersOwned, Registered, Gen
    <3> QED
      BY <1>1, <1>5, <2>1, <3>1, <3>2 DEF SoloCall, Users
  <2>2. CASE d # c
    <3>1. d \notin disturbed /\ InProgress(d) /\ d \notin Users(g)
      BY <1>2, <1>5, <1>6, <2>2
    <3>2. SoloCall(d) /\ pgen[d] # g
      BY <3>1 DEF CallInv, Users
    <3> QED
      BY <1>1, <1>5, <2>2, <3>1, <3>2 DEF SoloCall
  <2> QED
    BY <2>1, <2>2
<1>7. CallInv'
  BY <1>1, <1>5, <1>6 DEF CallInv
<1>8. SoloCallsSafe'
  BY <1>1, <1>2 DEF SoloCallsSafe
<1> QED
  BY <1>3, <1>4, <1>7, <1>8

(* A step of a call on its interpreter: the tensors of an interpreter that *)
(* a solo call uses are its own.                                           *)
LEMMA PredictInv ==
    ASSUME TFLiteInv, NEW c \in Client, PredictStep(c)
    PROVE  TFLiteInv'
<1> DEFINE g == pgen[c]
<1> USE DEF TFLiteInv
<1>1. /\ ppc \in [Client -> {"idle", "found", "filled", "invoked", "fault",
                            "panicked"}]
      /\ input \in [Gen -> Client \cup {NoData}]
      /\ output \in [Gen -> Client \cup {NoData}]
      /\ result \in [Client -> Client \cup {NoData}]
      /\ InProgress(c) /\ g \in Gen
      /\ UNCHANGED <<build, base, models, live, admin, aname, nextGen, pgen,
                     irregular, disturbed>>
  BY DEF PredictStep, PredictFill, PredictInvoke, PredictRead, PredictError,
     PredictPanics, PredictFault, PredictFrame, adminVars, TFLiteTypeOK,
     InProgress, CallInv
<1>2. /\ input' = [input EXCEPT ![g] = c] \/ input' = input
      /\ output' = [output EXCEPT ![g] = input[g]] \/ output' = output
      /\ result' = [result EXCEPT ![c] = output[g]] \/ result' = result
      /\ \E s \in {"filled", "invoked", "idle", "panicked", "fault"} :
            ppc' = [ppc EXCEPT ![c] = s]
  BY DEF PredictStep, PredictFill, PredictInvoke, PredictRead, PredictError,
     PredictPanics, PredictFault
<1>3. /\ input' \in [Gen -> Client \cup {NoData}]
      /\ output' \in [Gen -> Client \cup {NoData}]
      /\ result' \in [Client -> Client \cup {NoData}]
  BY <1>1, <1>2
<1>4. TFLiteTypeOK'
  <2>1. ppc' \in [Client -> {"idle", "found", "filled", "invoked", "fault",
                            "panicked"}]
    BY <1>1, <1>2
  <2> QED
    BY <1>1, <1>3, <2>1 DEF TFLiteTypeOK
<1>5. BaseInv' /\ GenInv' /\ InterpretersOwned'
  BY <1>1 DEF BaseInv, BaseMatches, BaseKnows, GenInv, InterpretersOwned,
     Registered
<1>6. \A d \in Client : InProgress(d)' => InProgress(d)
  BY <1>1, <1>2 DEF InProgress
<1>7. ASSUME NEW d \in Client \ disturbed, d # c, InProgress(d)'
      PROVE  SoloCall(d)'
  <2>1. InProgress(d) /\ SoloCall(d) /\ pgen[d] # g
    BY <1>1, <1>6, <1>7 DEF CallInv, SoloCall
  <2>2. pgen[d] \in Gen
    BY <2>1 DEF CallInv
  <2>3. /\ ppc'[d] = ppc[d] /\ input'[pgen[d]] = input[pgen[d]]
        /\ output'[pgen[d]] = output[pgen[d]]
    BY <1>1, <1>2, <1>7, <2>1, <2>2
  <2> QED
    BY <1>1, <1>6, <2>1, <2>3 DEF SoloCall
<1>8. ASSUME c \notin disturbed
      PROVE  /\ InProgress(c)' => SoloCall(c)'
             /\ ppc'[c] # "fault" /\ result'[c] \in {c, NoData}
  <2>1. SoloCall(c) /\ result[c] \in {c, NoData}
    BY <1>1, <1>8 DEF CallInv, SoloCallsSafe
  <2>2. \A d \in Client : InProgress(d)' /\ pgen'[d] = pgen'[c] => d = c
    BY <1>1, <1>6, <2>1 DEF SoloCall
  <2>3. CASE PredictFill(c)
    BY <1>1, <2>1, <2>2, <2>3 DEF PredictFill, SoloCall
  <2>4. CASE PredictInvoke(c)
    BY <1>1, <2>1, <2>2, <2>4 DEF PredictInvoke, SoloCall
  <2>5. CASE PredictRead(c)
    BY <1>1, <2>1, <2>5 DEF PredictRead, SoloCall, InProgress
  <2>6. CASE PredictError(c) \/ PredictPanics(c)
    BY <1>1, <2>1, <2>6 DEF PredictError, PredictPanics, InProgress
  <2>7. ~PredictFault(c)
    BY <2>1 DEF PredictFault, SoloCall
  <2> QED
    BY <2>3, <2>4, <2>5, <2>6, <2>7 DEF PredictStep
<1>9. CallInv'
  BY <1>1, <1>6, <1>7, <1>8 DEF CallInv
<1>10. SoloCallsSafe'
  <2>1. \A d \in Client : d # c => ppc'[d] = ppc[d] /\ result'[d] = result[d]
    BY <1>1, <1>2
  <2> QED
    BY <1>1, <1>8, <2>1 DEF SoloCallsSafe
<1> QED
  BY <1>4, <1>5, <1>9, <1>10

-----------------------------------------------------------------------------
LEMMA TFLiteInvAlways == TFLiteSpec => []TFLiteInv
<1>1. ASSUME TFLiteInv, UNCHANGED tvars PROVE TFLiteInv'
  <2> USE <1>1 DEF TFLiteInv, tvars, adminVars, clientVars
  <2>1. TFLiteTypeOK'
    BY DEF TFLiteTypeOK
  <2>2. BaseInv' /\ GenInv' /\ InterpretersOwned'
    BY DEF BaseInv, BaseMatches, BaseKnows, GenInv, InterpretersOwned,
       Registered
  <2>3. CallInv' /\ SoloCallsSafe'
    BY LoadFrame
  <2> QED
    BY <2>1, <2>2, <2>3
<1>2. TFLiteInv /\ [TFLiteNext]_tvars => TFLiteInv'
  BY <1>1, LoadBeginInv, LoadEndInv, LoadFailsInv, UnloadInv, LookupInv,
     PredictInv DEF TFLiteNext
<1> QED
  BY <1>2, TFLiteInvInit, PTL DEF TFLiteSpec

(* Both TFLite engines keep their registries and calls well typed, for any *)
(* number of ids, callers and loads.                                       *)
THEOREM TFLiteTypeCorrect == TFLiteSpec => []TFLiteTypeOK
  BY TFLiteInvAlways, PTL DEF TFLiteInv

(* The registry that Predict reads and the one that GetModel and           *)
(* ListModels report agree on every id that is used without versions and   *)
(* whose load did not panic (tflite_engine_cgo.go:79, :96).                *)
THEOREM TFLiteRegistriesMatch == TFLiteSpec => []RegistriesMatch
<1>1. TFLiteInv => RegistriesMatch
  BY DEF TFLiteInv, BaseInv, BaseMatches, RegistriesMatch
<1> QED
  BY <1>1, TFLiteInvAlways, PTL

(* What Predict finds is never deleted, and without versions no            *)
(* interpreter is lost (tflite_engine_cgo.go:48).                          *)
THEOREM TFLiteInterpretersOwned == TFLiteSpec => []InterpretersOwned
  BY TFLiteInvAlways, PTL DEF TFLiteInv

(* A Predict call that had its interpreter to itself returns the result of *)
(* its own input and never touches a deleted interpreter                   *)
(* (tflite_engine_cgo.go:191-237).                                         *)
THEOREM TFLiteSoloCallsSafe == TFLiteSpec => []SoloCallsSafe
  BY TFLiteInvAlways, PTL DEF TFLiteInv
=============================================================================
