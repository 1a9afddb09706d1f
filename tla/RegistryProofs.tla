--------------------------- MODULE RegistryProofs ---------------------------
(***************************************************************************)
(* Type correctness and agreement of the two registries, for any ids,      *)
(* versions and number of handlers.                                        *)
(***************************************************************************)
EXTENDS Registry, TLAPS

(* What holds of a model no load and unload of which overlapped.           *)

(* Between its two steps a load owns the key in the manager's map.         *)
LoadOwnsKey ==
    \A n \in Name \ overlap : \A r \in Loading(n) :
        /\ n \in manager \ refused
        /\ n \notin engine
        /\ Unloading(n) = {}

(* Between its two steps an unload has taken the key out of that map.      *)
UnloadFreedKey ==
    \A n \in Name \ overlap : Unloading(n) # {} => n \notin manager

AgreeInv ==
    /\ RegistryTypeOK
    /\ refused \subseteq manager \cup overlap
    /\ LoadOwnsKey
    /\ UnloadFreedKey
    /\ LoadersExclusive
    /\ RegistriesAgree

(* The registries and the handlers are well typed.                         *)
THEOREM RegistryTypeCorrect == RegistrySpec => []RegistryTypeOK
<1>1. RegistryInit => RegistryTypeOK
  BY DEF RegistryInit, RegistryTypeOK
<1>2. RegistryTypeOK /\ [RegistryNext]_rvars => RegistryTypeOK'
  <2> SUFFICES ASSUME RegistryTypeOK, [RegistryNext]_rvars
               PROVE  RegistryTypeOK'
    OBVIOUS
  <2> USE DEF RegistryTypeOK
  <2>0. ASSUME NEW n \in Name PROVE Target(n) \in Name
    BY DEF Target, Name
  <2>1. CASE UNCHANGED rvars
    BY <2>1 DEF rvars
  <2>2. ASSUME NEW r \in Request, NEW n \in Name,
               LoadConflict(r, n) \/ LoadCheck(r, n) \/ UnloadUnknown(r, n)
        PROVE  RegistryTypeOK'
    BY <2>2 DEF LoadConflict, LoadCheck, UnloadUnknown, rvars
  <2>3. ASSUME NEW r \in Request, NEW n \in Name, ManagerUnloads(r, n)
        PROVE  RegistryTypeOK'
    BY <2>0, <2>3 DEF ManagerUnloads, MeetsAny
  <2>4. ASSUME NEW r \in Request, ManagerRefuses(r) \/ EngineUnloads(r)
        PROVE  RegistryTypeOK'
    BY <2>4 DEF ManagerRefuses, EngineUnloads, Return
  <2>5. ASSUME NEW r \in Request, ManagerLoads(r)
        PROVE  RegistryTypeOK'
    BY <2>5 DEF ManagerLoads, MeetsAny
  <2>6. ASSUME NEW r \in Request, EngineRefuses(r) \/ EngineLoads(r)
        PROVE  RegistryTypeOK'
    BY <2>6 DEF EngineRefuses, EngineLoads, Return
  <2> QED
    BY <2>1, <2>2, <2>3, <2>4, <2>5, <2>6 DEF RegistryNext
<1> QED
  BY <1>1, <1>2, PTL DEF RegistrySpec

-----------------------------------------------------------------------------
(* What AgreeInv says of one model. *)
ModelInv(n) ==
    /\ \A r \in Loading(n) :
          /\ n \in manager \ refused
          /\ n \notin engine
          /\ Unloading(n) = {}
          /\ \A q \in Loading(n) : q = r
    /\ Unloading(n) # {} => n \notin manager
    /\ Loading(n) = {} /\ Unloading(n) = {} =>
          (n \in engine <=> n \in manager \ refused)

LEMMA AgreeInvByModel ==
    AgreeInv <=> /\ RegistryTypeOK
                 /\ refused \subseteq manager \cup overlap
                 /\ \A n \in Name \ overlap : ModelInv(n)
  BY DEF AgreeInv, ModelInv, LoadOwnsKey, UnloadFreedKey, LoadersExclusive,
         RegistriesAgree

(* Every step keeps AgreeInv.                                              *)
LEMMA AgreeStep == AgreeInv /\ RegistryTypeOK' /\ [RegistryNext]_rvars => AgreeInv'
<1> SUFFICES ASSUME AgreeInv, RegistryTypeOK', [RegistryNext]_rvars
             PROVE  AgreeInv'
  OBVIOUS
<1>1. /\ RegistryTypeOK
      /\ refused \subseteq manager \cup overlap
      /\ \A n \in Name \ overlap : ModelInv(n)
  BY AgreeInvByModel
<1>2. ASSUME refused' \subseteq manager' \cup overlap',
             \A n \in Name \ overlap' : ModelInv(n)'
      PROVE  AgreeInv'
  BY <1>2 DEF AgreeInv, ModelInv, LoadOwnsKey, UnloadFreedKey, LoadersExclusive,
         RegistriesAgree
<1>3. CASE UNCHANGED rvars
  <2>1. \A n \in Name : Loading(n)' = Loading(n) /\ Unloading(n)' = Unloading(n)
    BY <1>3 DEF rvars, Loading, Unloading
  <2> QED
    BY <1>1, <1>2, <1>3, <2>1 DEF rvars, ModelInv
<1>4. ASSUME NEW r \in Request, NEW n \in Name, LoadCheck(r, n)
      PROVE  AgreeInv'
  <2>1. \A m \in Name : Loading(m)' = Loading(m) /\ Unloading(m)' = Unloading(m)
    BY <1>1, <1>4 DEF LoadCheck, Loading, Unloading, RegistryTypeOK
  <2> QED
    BY <1>1, <1>2, <1>4, <2>1 DEF LoadCheck, ModelInv
<1>5. ASSUME NEW r \in Request, ManagerRefuses(r)
      PROVE  AgreeInv'
  <2>1. \A m \in Name : Loading(m)' = Loading(m) /\ Unloading(m)' = Unloading(m)
    BY <1>1, <1>5 DEF ManagerRefuses, Return, Loading, Unloading, RegistryTypeOK
  <2> QED
    BY <1>1, <1>2, <1>5, <2>1 DEF ManagerRefuses, ModelInv
<1>6. ASSUME NEW r \in Request, NEW n \in Name, ManagerUnloads(r, n)
      PROVE  AgreeInv'
  <2> DEFINE t == Target(n)
  <2>0. t \in Name
    BY DEF Target, Name
  <2>1. \A m \in Name \ {t} : Loading(m)' = Loading(m) /\ Unloading(m)' = Unloading(m)
    BY <1>1, <1>6 DEF ManagerUnloads, Loading, Unloading, RegistryTypeOK
  <2>2. Loading(t)' = Loading(t) /\ r \in Unloading(t)'
    BY <1>1, <1>6 DEF ManagerUnloads, Loading, Unloading, RegistryTypeOK
  <2>3. overlap \subseteq overlap' /\ (t \notin overlap' => Loading(t) = {})
    BY <1>6 DEF ManagerUnloads, MeetsAny
  <2>4. refused' \subseteq manager' \cup overlap'
    BY <1>1, <1>6, <2>3 DEF ManagerUnloads
  <2>5. ASSUME NEW m \in Name \ overlap', m # t PROVE ModelInv(m)'
    BY <1>1, <1>6, <2>1, <2>3, <2>5 DEF ManagerUnloads, ModelInv
  <2>6. ASSUME t \notin overlap' PROVE ModelInv(t)'
    BY <1>6, <2>2, <2>3, <2>6 DEF ManagerUnloads, ModelInv
  <2> QED
    BY <1>2, <2>4, <2>5, <2>6
<1>7. ASSUME NEW r \in Request, ManagerLoads(r)
      PROVE  AgreeInv'
  <2> PICK t \in Name : t = name[r]
    BY <1>1 DEF RegistryTypeOK
  <2>0. t \notin manager
    BY <1>7 DEF ManagerLoads
  <2>1. \A m \in Name \ {t} : Loading(m)' = Loading(m) /\ Unloading(m)' = Unloading(m)
    BY <1>1, <1>7 DEF ManagerLoads, Loading, Unloading, RegistryTypeOK
  <2>2. Loading(t)' = Loading(t) \cup {r} /\ Unloading(t)' = Unloading(t)
    BY <1>1, <1>7 DEF ManagerLoads, Loading, Unloading, RegistryTypeOK
  <2>3. overlap \subseteq overlap' /\ (t \notin overlap' => Unloading(t) = {})
    BY <1>7 DEF ManagerLoads, MeetsAny
  <2>4. refused' \subseteq manager' \cup overlap'
    BY <1>1, <1>7, <2>3 DEF ManagerLoads
  <2>5. ASSUME NEW m \in Name \ overlap', m # t PROVE ModelInv(m)'
    BY <1>1, <1>7, <2>1, <2>3, <2>5 DEF ManagerLoads, ModelInv
  <2>6. ASSUME t \notin overlap' PROVE ModelInv(t)'
    <3>1. ModelInv(t) /\ Unloading(t) = {}
      BY <1>1, <2>0, <2>3, <2>6
    <3>2. Loading(t) = {} /\ t \notin engine /\ t \notin refused
      BY <1>1, <2>0, <2>3, <2>6, <3>1 DEF ModelInv
    <3>3. Loading(t)' = {r} /\ Unloading(t)' = {}
      BY <2>2, <3>1, <3>2
    <3> QED
      BY <1>7, <3>2, <3>3 DEF ManagerLoads, ModelInv
  <2> QED
    BY <1>2, <2>4, <2>5, <2>6
<1>8. ASSUME NEW r \in Request, EngineRefuses(r) \/ EngineLoads(r)
      PROVE  AgreeInv'
  <2> PICK t \in Name : t = name[r]
    BY <1>1 DEF RegistryTypeOK
  <2>0. r \in Loading(t)
    BY <1>8 DEF EngineRefuses, EngineLoads, Loading
  <2>1. \A m \in Name \ {t} : Loading(m)' = Loading(m) /\ Unloading(m)' = Unloading(m)
    BY <1>1, <1>8 DEF EngineRefuses, EngineLoads, Return, Loading, Unloading, RegistryTypeOK
  <2>2. Loading(t)' = Loading(t) \ {r} /\ Unloading(t)' = Unloading(t)
    BY <1>1, <1>8 DEF EngineRefuses, EngineLoads, Return, Loading, Unloading, RegistryTypeOK
  <2>3. overlap' = overlap
    BY <1>8 DEF EngineRefuses, EngineLoads
  <2>4. refused' \subseteq manager' \cup overlap'
    BY <1>1, <1>8, <2>0 DEF EngineRefuses, EngineLoads, ModelInv
  <2>5. ASSUME NEW m \in Name \ overlap', m # t PROVE ModelInv(m)'
    BY <1>1, <1>8, <2>1, <2>3, <2>5 DEF EngineRefuses, EngineLoads, ModelInv
  <2>6. ASSUME t \notin overlap' PROVE ModelInv(t)'
    <3>1. /\ t \in manager \ refused
          /\ t \notin engine
          /\ Unloading(t) = {}
          /\ Loading(t) = {r}
      BY <1>1, <2>0, <2>3, <2>6 DEF ModelInv
    <3>2. Loading(t)' = {} /\ Unloading(t)' = {}
      BY <2>2, <3>1
    <3> QED
      BY <1>8, <3>1, <3>2 DEF EngineRefuses, EngineLoads, ModelInv
  <2> QED
    BY <1>2, <2>4, <2>5, <2>6
<1>9. ASSUME NEW r \in Request, EngineUnloads(r)
      PROVE  AgreeInv'
  <2> PICK t \in Name : t = name[r]
    BY <1>1 DEF RegistryTypeOK
  <2>0. r \in Unloading(t)
    BY <1>9 DEF EngineUnloads, Unloading
  <2>1. \A m \in Name \ {t} : Loading(m)' = Loading(m) /\ Unloading(m)' = Unloading(m)
    BY <1>1, <1>9 DEF EngineUnloads, Return, Loading, Unloading, RegistryTypeOK
  <2>2. Loading(t)' = Loading(t) /\ Unloading(t)' = Unloading(t) \ {r}
    BY <1>1, <1>9 DEF EngineUnloads, Return, Loading, Unloading, RegistryTypeOK
  <2>3. overlap' = overlap
    BY <1>9 DEF EngineUnloads
  <2>4. refused' \subseteq manager' \cup overlap'
    BY <1>1, <1>9 DEF EngineUnloads
  <2>5. ASSUME NEW m \in Name \ overlap', m # t PROVE ModelInv(m)'
    BY <1>1, <1>9, <2>1, <2>3, <2>5 DEF EngineUnloads, ModelInv
  <2>6. ASSUME t \notin overlap' PROVE ModelInv(t)'
    BY <1>1, <1>9, <2>0, <2>2, <2>3, <2>6 DEF EngineUnloads, ModelInv
  <2> QED
    BY <1>2, <2>4, <2>5, <2>6
<1> QED
  BY <1>3, <1>4, <1>5, <1>6, <1>7, <1>8, <1>9
     DEF RegistryNext, LoadConflict, UnloadUnknown

LEMMA AgreeInvAlways == RegistrySpec => []AgreeInv
<1>1. RegistryInit => AgreeInv
  <2> SUFFICES ASSUME RegistryInit PROVE AgreeInv
    OBVIOUS
  <2>1. \A n \in Name : Loading(n) = {} /\ Unloading(n) = {}
    BY DEF RegistryInit, Loading, Unloading
  <2> QED
    BY <2>1 DEF RegistryInit, AgreeInv, RegistryTypeOK, LoadOwnsKey,
                UnloadFreedKey, LoadersExclusive, RegistriesAgree
<1>2. AgreeInv /\ RegistryTypeOK' /\ [RegistryNext]_rvars => AgreeInv'
  BY AgreeStep
<1> QED
  BY <1>1, <1>2, RegistryTypeCorrect, PTL DEF RegistrySpec

(* Where no load and unload of a model overlapped, the manager and the     *)
(* engine agree on it unless a load of it failed after its registration.   *)
THEOREM RegistryAgreement == RegistrySpec => []RegistriesAgree
<1>1. AgreeInv => RegistriesAgree
  BY DEF AgreeInv
<1> QED
  BY <1>1, AgreeInvAlways, PTL

(* Nor are two loads of such a model on their way to the engine at once,   *)
(* though the engine itself only checks for its key before the slow part   *)
(* of the load (onnx_runtime.go:438-453).                                  *)
THEOREM RegistryLoadersExclusive == RegistrySpec => []LoadersExclusive
<1>1. AgreeInv => LoadersExclusive
  BY DEF AgreeInv
<1> QED
  BY <1>1, AgreeInvAlways, PTL
=============================================================================
