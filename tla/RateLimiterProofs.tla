------------------------- MODULE RateLimiterProofs -------------------------
(***************************************************************************)
(* Proofs about the token bucket, for any rate, capacity and resolution of *)
(* the clock.                                                              *)
(***************************************************************************)
EXTENDS RateLimiter, TLAPS

(* A product with the rate or the token size, as a variable of the linear  *)
(* arithmetic that is left.                                                *)
LEMMA Distributes == ASSUME NEW x \in Int, NEW y \in Int, NEW z \in Int
                     PROVE  /\ (x + y) * z = x * z + y * z
                            /\ (x - y) * z = x * z - y * z
  OBVIOUS

LEMMA NatProduct == ASSUME NEW x \in Nat, NEW y \in Nat
                    PROVE  x * y \in Nat
  OBVIOUS

(* The capacity is a number of units. *)
LEMMA CapNat == Cap \in Nat
  BY RateAssumption, NatProduct DEF Cap

(* The bucket never holds less than nothing after the refill. *)
LEMMA RefilledRange == RateTypeOK => Paid \in Nat /\ Refilled \in 0 .. Cap
<1> SUFFICES ASSUME RateTypeOK
             PROVE  Paid \in Nat /\ Refilled \in 0 .. Cap
  OBVIOUS
<1>1. now - lastCheck \in Nat /\ Rate \in Nat /\ tokens \in Nat
  BY RateAssumption, CapNat DEF RateTypeOK
<1>2. (now - lastCheck) * Rate \in Nat
  BY <1>1, NatProduct
<1> QED
  BY <1>1, <1>2, CapNat DEF Paid, Refilled

-----------------------------------------------------------------------------
LEMMA RateTypeInit == RateInit => RateTypeOK
  BY RateAssumption, CapNat DEF RateInit, RateTypeOK

LEMMA RateTypeStep == RateTypeOK /\ [RateNext]_rvars => RateTypeOK'
<1> SUFFICES ASSUME RateTypeOK, [RateNext]_rvars
             PROVE  RateTypeOK'
  OBVIOUS
<1> USE DEF RateTypeOK
<1>r. Refilled \in 0 .. Cap
  BY RefilledRange
<1>1. CASE Allow
  <2>1. tokens' \in 0 .. Cap
    BY <1>1, <1>r, RateAssumption, CapNat DEF Allow
  <2> QED BY <1>1, <2>1, CapNat, RateAssumption DEF Allow, Record
<1>2. CASE Refuse
  BY <1>2, <1>r, RateAssumption DEF Refuse, Record
<1>3. CASE Skip
  BY <1>3 DEF Skip, bucketVars
<1>4. CASE Tick
  BY <1>4, RateAssumption DEF Tick, bucketVars
<1>5. CASE OpenWindow
  BY <1>5 DEF OpenWindow, bucketVars
<1>6. CASE UNCHANGED rvars
  BY <1>6 DEF rvars, bucketVars
<1> QED
  BY <1>1, <1>2, <1>3, <1>4, <1>5, <1>6 DEF RateNext

(* The bucket is well typed: never negative, never above its capacity      *)
(* (rate_limit.go:41-49).                                                  *)
THEOREM RateTypeCorrect == RateSpec => []RateTypeOK
<1> QED
  BY RateTypeInit, RateTypeStep, PTL DEF RateSpec

-----------------------------------------------------------------------------
(* What the window has admitted and what the bucket would now pay for are  *)
(* together within the bound: the bound alone is not inductive, since it   *)
(* does not say how much a burst can still take.                           *)
WindowInv == admitted * K + Refilled <= Cap + (now - from) * Rate

(* The exact account of the bucket at its last check. *)
Account ==
    /\ full <= lastCheck
    /\ tokens = Cap + (lastCheck - full) * Rate - since * K
    /\ answer = "refused" => lastCheck = now /\ tokens < K

RateInv == RateTypeOK /\ WindowInv /\ Account

LEMMA RateInvInit == RateInit => RateInv
<1> SUFFICES ASSUME RateInit PROVE RateInv
  OBVIOUS
<1>1. RateTypeOK
  BY RateTypeInit
<1>2. 0 * Rate = 0 /\ 0 * K = 0
  BY RateAssumption
<1>3. Paid = Cap /\ Refilled = Cap
  BY <1>2, CapNat DEF RateInit, Paid, Refilled
<1> QED
  BY <1>1, <1>2, <1>3, CapNat DEF RateInit, RateInv, WindowInv, Account

(* A check of the limiter does not change what the bucket would pay for,   *)
(* except by the token it takes.                                           *)
LEMMA CheckedLevel ==
    ASSUME RateTypeOK, RateTypeOK', now' = now, lastCheck' = now
    PROVE  Refilled' = tokens'
<1>1. (now' - lastCheck') * Rate = 0
  BY RateAssumption DEF RateTypeOK
<1> QED
  BY <1>1, CapNat DEF Paid, Refilled, RateTypeOK, Cap

LEMMA WindowStep == RateInv /\ [RateNext]_rvars => WindowInv'
<1> SUFFICES ASSUME RateInv, [RateNext]_rvars
             PROVE  WindowInv'
  OBVIOUS
<1>t. RateTypeOK /\ RateTypeOK' /\ WindowInv
  BY RateTypeStep DEF RateInv
<1>r. Refilled \in 0 .. Cap /\ Paid \in Nat
  BY <1>t, RefilledRange
<1>p. /\ admitted * K \in Nat
      /\ (now - from) * Rate \in Nat
      /\ K \in Nat /\ Rate \in Nat /\ admitted \in Nat /\ now \in Nat
      /\ from \in Nat /\ lastCheck \in Nat /\ tokens \in Nat
  BY <1>t, NatProduct, RateAssumption, CapNat DEF RateTypeOK
<1>1. CASE Allow
  <2>1. Refilled' = Refilled - K
    BY <1>1, <1>t, CheckedLevel DEF Allow, Record
  <2>2. admitted' * K = admitted * K + K
    BY <1>1, <1>p, Distributes DEF Allow, Record
  <2> QED
    BY <2>1, <2>2, <1>1, <1>t, <1>p, <1>r, CapNat
    DEF Allow, Record, WindowInv, Cap
<1>2. CASE Refuse
  <2>1. Refilled' = Refilled
    BY <1>2, <1>t, CheckedLevel DEF Refuse, Record
  <2>2. admitted' = admitted
    BY <1>2, <1>p DEF Refuse, Record
  <2> QED
    BY <2>1, <2>2, <1>2, <1>t DEF Refuse, Record, WindowInv, Cap
<1>3. CASE Skip
  BY <1>3, <1>t DEF Skip, bucketVars, WindowInv, Refilled, Paid, Cap
<1>4. CASE Tick
  <2>1. /\ (now' - lastCheck') * Rate = (now - lastCheck) * Rate + Rate
        /\ (now' - from') * Rate = (now - from) * Rate + Rate
    <3>1. /\ now' - lastCheck' = (now - lastCheck) + 1
          /\ now' - from' = (now - from) + 1
      BY <1>4, <1>p DEF Tick, bucketVars
    <3> QED BY <3>1, <1>p, Distributes
  <2>2. Paid' = Paid + Rate
    BY <2>1, <1>4, <1>p DEF Tick, bucketVars, Paid
  <2>3. Refilled' <= Refilled + Rate
    BY <2>2, <1>p, <1>r, CapNat DEF Refilled, Cap
  <2>4. admitted' = admitted
    BY <1>4 DEF Tick
  <2>5. Refilled' \in 0 .. Cap
    BY <2>2, <1>r, <1>p, CapNat DEF Refilled, Cap
  <2> QED
    BY <2>1, <2>3, <2>4, <2>5, <1>p, <1>t, <1>r, CapNat DEF WindowInv, Cap
<1>5. CASE OpenWindow
  <2>1. Refilled' = Refilled
    BY <1>5 DEF OpenWindow, bucketVars, Refilled, Paid, Cap
  <2>2. admitted' * K = 0 /\ (now' - from') * Rate = 0
    BY <1>5, <1>p DEF OpenWindow
  <2> QED
    BY <2>1, <2>2, <1>r, CapNat DEF WindowInv, Cap
<1>6. CASE UNCHANGED rvars
  BY <1>6, <1>t DEF rvars, bucketVars, WindowInv, Refilled, Paid, Cap
<1> QED
  BY <1>1, <1>2, <1>3, <1>4, <1>5, <1>6 DEF RateNext

(* A check keeps the account, whether or not it takes a token. *)
LEMMA AccountCheck ==
    ASSUME RateInv, NEW n \in {0, 1}, tokens' = Refilled - n * K,
           lastCheck' = now, full' = (IF Paid > Cap THEN now ELSE full),
           since' = n + IF Paid > Cap THEN 0 ELSE since
    PROVE  /\ full' <= lastCheck'
           /\ tokens' = Cap + (lastCheck' - full') * Rate - since' * K
<1>p. /\ K \in Nat /\ Rate \in Nat /\ now \in Nat /\ since \in Nat
      /\ full \in Nat /\ full <= lastCheck /\ lastCheck <= now
      /\ lastCheck \in Nat /\ Cap \in Nat /\ Paid \in Nat
  BY RateAssumption, CapNat, RefilledRange DEF RateInv, RateTypeOK, Account
<1>1. CASE Paid > Cap
  <2>1. (lastCheck' - full') * Rate = 0
    BY <1>1, <1>p
  <2> QED BY <1>1, <2>1, <1>p DEF Refilled
<1>2. CASE ~(Paid > Cap)
  <2>1. since' * K = since * K + n * K
    BY <1>2, <1>p, Distributes
  <2>2. (now - full) * Rate = (now - lastCheck) * Rate + (lastCheck - full) * Rate
    <3>1. now - full = (now - lastCheck) + (lastCheck - full)
      BY <1>p
    <3> QED BY <3>1, <1>p, Distributes
  <2>3. /\ since * K \in Int /\ n * K \in Int
        /\ (now - lastCheck) * Rate \in Int /\ (lastCheck - full) * Rate \in Int
    BY <1>p
  <2>4. tokens' = tokens + (now - lastCheck) * Rate - n * K
    <3>1. Refilled = Paid
      BY <1>2 DEF Refilled
    <3>2. tokens \in Nat
      BY <1>p DEF RateInv, RateTypeOK
    <3> QED BY <3>1, <3>2, <2>3 DEF Paid
  <2>5. tokens = Cap + (lastCheck - full) * Rate - since * K
    BY DEF RateInv, Account
  <2> QED
    BY <1>2, <2>1, <2>2, <2>3, <2>4, <2>5, <1>p
<1> QED
  BY <1>1, <1>2

LEMMA AccountStep == RateInv /\ [RateNext]_rvars => Account'
<1> SUFFICES ASSUME RateInv, [RateNext]_rvars
             PROVE  Account'
  OBVIOUS
<1>t. RateTypeOK /\ Account /\ Refilled \in 0 .. Cap /\ Cap \in Nat
  BY RefilledRange, CapNat DEF RateInv
<1>1. CASE Allow
  <2>1. tokens' = Refilled - 1 * K
    BY <1>1, RateAssumption DEF Allow
  <2> QED BY <2>1, <1>1, AccountCheck DEF Allow, Record, Account, Cap
<1>2. CASE Refuse
  <2>1. tokens' = Refilled - 0 * K
    BY <1>2, <1>t, RateAssumption DEF Refuse
  <2>2. tokens' < K /\ lastCheck' = now'
    BY <1>2 DEF Refuse, Record
  <2> QED BY <2>1, <2>2, <1>2, AccountCheck DEF Refuse, Record, Account, Cap
<1>3. CASE Skip
  BY <1>3, <1>t DEF Skip, bucketVars, Account, Cap
<1>4. CASE Tick
  BY <1>4, <1>t DEF Tick, bucketVars, Account, Cap
<1>5. CASE OpenWindow
  BY <1>5, <1>t DEF OpenWindow, bucketVars, Account, Cap
<1>6. CASE UNCHANGED rvars
  BY <1>6, <1>t DEF rvars, bucketVars, Account, Cap
<1> QED
  BY <1>1, <1>2, <1>3, <1>4, <1>5, <1>6 DEF RateNext

LEMMA RateInvariant == RateSpec => []RateInv
<1>1. RateInv /\ [RateNext]_rvars => RateInv'
  BY RateTypeStep, WindowStep, AccountStep DEF RateInv
<1> QED
  BY RateInvInit, <1>1, PTL DEF RateSpec

(* In every window the limiter admits at most the burst and what the rate  *)
(* pays for (rate_limit.go:31-53).                                         *)
THEOREM RateWindowBound == RateSpec => []WindowBound
<1>1. RateInv => WindowBound
  <2> SUFFICES ASSUME RateInv PROVE WindowBound
    OBVIOUS
  <2>1. Refilled \in 0 .. Cap /\ WindowInv /\ RateTypeOK
    BY RefilledRange DEF RateInv
  <2>2. admitted * K \in Nat /\ (now - from) * Rate \in Nat /\ Cap \in Nat
    BY <2>1, NatProduct, RateAssumption, CapNat DEF RateTypeOK
  <2> QED BY <2>1, <2>2 DEF WindowInv, WindowBound
<1> QED
  BY RateInvariant, <1>1, PTL

(* A request is refused only when one more in the window since the bucket  *)
(* was full would exceed that bound (rate_limit.go:38-52).                 *)
THEOREM RateRefusalJustified == RateSpec => []RefusalJustified
<1>1. RateInv => RefusalJustified
  <2> SUFFICES ASSUME RateInv, answer = "refused"
               PROVE  (since + 1) * K > Cap + (now - full) * Rate
    BY DEF RefusalJustified
  <2>1. lastCheck = now /\ tokens < K /\ since \in Nat /\ K \in Nat
    BY RateAssumption DEF RateInv, RateTypeOK, Account
  <2>2. tokens = Cap + (now - full) * Rate - since * K
    BY <2>1 DEF RateInv, Account
  <2>3. (since + 1) * K = since * K + K
    BY <2>1, Distributes
  <2>4. since * K \in Int /\ (now - full) * Rate \in Int /\ Cap \in Int
    BY <2>1, RateAssumption, CapNat DEF RateInv, RateTypeOK
  <2> QED BY <2>1, <2>2, <2>3, <2>4
<1> QED
  BY RateInvariant, <1>1, PTL
=============================================================================
