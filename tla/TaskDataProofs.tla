--------------------------- MODULE TaskDataProofs ---------------------------
(***************************************************************************)
(* Proofs about TaskData, for any arrays, any pipelines and any number of  *)
(* reloads.                                                                *)
(***************************************************************************)
EXTENDS TaskData, WellFoundedInduction, TLAPS

USE PipelineAssumption, TaskDataAssumption

-----------------------------------------------------------------------------
(* What the values are made of. *)
Number == Int \cup {PosInf, NegInf, NaN}

InRange(x, d) == Finite(x) => x \in -(MaxFloat * d) .. MaxFloat * d

ValueOK(v) ==
    /\ v.kind \in {"floats", "ints", "labels", "list", "map", "task"}
    /\ v.kind = "floats" =>
          /\ v.num \in Seq(Number)
          /\ v.den \in Nat \ {0}
          /\ \A i \in DOMAIN v.num : InRange(v.num[i], v.den)
    /\ v.kind = "ints" => v.arr \in Seq({0, 1})

(* The order of v's elements is the order of w's, up to the infinite ones. *)
SameOrder(v, w) ==
    v.kind = "floats" /\ w.kind \in {"floats", "ints"} =>
        /\ DOMAIN Elements(w) = DOMAIN v.num
        /\ \A i, j \in DOMAIN v.num :
              v.num[j] # PosInf /\ Below(v.num[i], v.num[j]) =>
                  Below(Elements(w)[i], Elements(w)[j]) /\ Elements(w)[j] # PosInf

(* The parameter of a threshold step is a fraction. *)
StepOK(s) ==
    s.type = "apply_threshold" /\ s.param # NoParam =>
        s.param.num \in Int /\ s.param.den \in Nat \ {0}

-----------------------------------------------------------------------------
(* Lemmas about the operators of Pipeline.                                 *)

(* Every set of natural numbers has a least one: what stands for induction *)
(* below.                                                                  *)
LEMMA LeastNatural ==
    ASSUME NEW T \in SUBSET Nat, T # {}
    PROVE  \E n \in T : \A m \in T : n <= m
<1>1. PICK R : R = OpToRel(<, Nat)
  OBVIOUS
<1>2. IsWellFoundedOn(R, Nat)
  BY <1>1, NatLessThanWellFounded
<1>3. \A m, n \in Nat : m < n => <<m, n>> \in R
  BY <1>1 DEF OpToRel
<1>4. PICK n \in T : \A m \in T : ~(<<m, n>> \in R)
  BY <1>2, WFMin
<1>5. \A m \in T : m \in Nat /\ n \in Nat /\ ~(m < n)
  BY <1>3, <1>4
<1>6. \A m \in T : n <= m
  BY <1>5
<1> QED
  BY <1>6

(* Below is a total preorder of the numbers. *)
LEMMA BelowOrder ==
    ASSUME NEW x \in Number, NEW y \in Number, NEW z \in Number
    PROVE  /\ Below(x, x)
           /\ Below(x, y) \/ Below(y, x)
           /\ Below(x, y) /\ Below(y, z) => Below(x, z)
  BY DEF Number, Below, Finite

(* A sequence of numbers, with 0, has a largest element. *)
LEMMA PeakExists ==
    ASSUME NEW s \in Seq(Number)
    PROVE  \E m \in {0} \cup Range(s) :
               \A x \in {0} \cup Range(s) : Below(x, m)
<1> DEFINE Bounds(n, m) == Below(0, m) /\ \A i \in 1 .. n : Below(s[i], m)
           HasPeak(n) == \E m \in {0} \cup Range(s) : Bounds(n, m)
           T == {n \in 0 .. Len(s) : ~HasPeak(n)}
<1>0. 0 \in Number /\ \A i \in 1 .. Len(s) : s[i] \in Number /\ s[i] \in Range(s)
  BY DEF Number, Range
<1>1. T = {}
  <2> SUFFICES ASSUME T # {} PROVE FALSE
    OBVIOUS
  <2>1. PICK n \in T : \A k \in T : n <= k
    <3>1. T \in SUBSET Nat
      OBVIOUS
    <3> HIDE DEF T
    <3> QED
      BY <3>1, LeastNatural
  <2>2. HasPeak(0)
    BY <1>0, BelowOrder
  <2>3. n \in 1 .. Len(s) /\ n - 1 \in 0 .. Len(s) /\ n - 1 \notin T
    <3>1. n \in 0 .. Len(s) /\ ~HasPeak(n)
      BY <2>1
    <3>2. n # 0
      BY <2>2, <3>1
    <3>3. n \in 1 .. Len(s) /\ n - 1 \in 0 .. Len(s) /\ ~(n <= n - 1)
      BY <3>1, <3>2
    <3> QED
      BY <2>1, <3>3
  <2>4. PICK m \in {0} \cup Range(s) : Bounds(n - 1, m)
    BY <2>3
  <2>5. s[n] \in Number /\ s[n] \in Range(s) /\ m \in Number
    BY <1>0, <2>3 DEF Range
  <2>6. \A i \in 1 .. n : i = n \/ i \in 1 .. n - 1
    BY <2>3
  <2>7. CASE Below(s[n], m)
    <3>1. Bounds(n, m)
      BY <2>4, <2>6, <2>7
    <3> QED
      BY <2>1, <3>1
  <2>8. CASE Below(m, s[n])
    <3>1. Below(0, s[n])
      BY <1>0, <2>4, <2>5, <2>8, BelowOrder
    <3>2. \A i \in 1 .. n - 1 : s[i] \in Number /\ Below(s[i], m)
      BY <1>0, <2>3, <2>4
    <3>3. \A i \in 1 .. n - 1 : Below(s[i], s[n])
      BY <2>5, <2>8, <3>2, BelowOrder
    <3>4. Below(s[n], s[n])
      BY <2>5, BelowOrder
    <3>5. Bounds(n, s[n])
      BY <2>6, <3>1, <3>3, <3>4
    <3> QED
      BY <2>1, <2>5, <3>5
  <2> QED
    BY <2>5, <2>7, <2>8, BelowOrder
<1>2. HasPeak(Len(s))
  <2>1. Len(s) \in 0 .. Len(s)
    OBVIOUS
  <2> QED
    BY <1>1, <2>1
<1>3. PICK m \in {0} \cup Range(s) : Bounds(Len(s), m)
  BY <1>2
<1>4. \A x \in Range(s) : \E i \in 1 .. Len(s) : x = s[i]
  BY DEF Range
<1> QED
  BY <1>3, <1>4

(* max is a positive number, 0 or +Inf, and no element is above it. *)
LEMMA PeakIsMax ==
    ASSUME NEW v, v.num \in Seq(Number)
    PROVE  /\ Peak(v) \in Nat \cup {PosInf}
           /\ \A i \in DOMAIN v.num : Below(v.num[i], Peak(v))
<1> DEFINE C == {0} \cup Range(v.num)
<1>1. \E m \in C : \A x \in C : Below(x, m)
  BY PeakExists
<1>2. Peak(v) \in C /\ \A x \in C : Below(x, Peak(v))
  <2>1. Peak(v) = CHOOSE m \in C : \A x \in C : Below(x, m)
    BY DEF Peak
  <2> HIDE DEF C
  <2> QED
    BY <1>1, <2>1
<1>3. C \subseteq Number /\ 0 \in C /\ \A i \in DOMAIN v.num : v.num[i] \in C
  BY DEF Range, Number
<1>4. Peak(v) \in Number /\ Below(0, Peak(v))
  BY <1>2, <1>3
<1>5. Peak(v) \in Nat \cup {PosInf}
  BY <1>4 DEF Number, Below, Finite
<1> QED
  BY <1>2, <1>3, <1>5

(* Products with a positive number. *)
LEMMA TimesPositive ==
    ASSUME NEW a \in Nat \ {0}, NEW d \in Nat \ {0}
    PROVE  a * d \in Nat /\ d <= a * d
<1>1. (a - 1) * d >= 0 /\ (a - 1) * d = a * d - d /\ a * d \in Int
  OBVIOUS
<1> QED
  BY <1>1

(* Float32 keeps what it can represent. *)
LEMMA Float32Range ==
    ASSUME NEW x \in Int, NEW d \in Nat \ {0}
    PROVE  /\ Float32(x, d) \in {x, PosInf, NegInf}
           /\ InRange(Float32(x, d), d)
           /\ x <= d => Float32(x, d) # PosInf
<1> DEFINE M == MaxFloat * d
<1>1. M \in Nat /\ d <= M
  BY TimesPositive
<1>2. Float32(x, d) = IF x > M THEN PosInf ELSE IF x < -M THEN NegInf ELSE x
  BY DEF Float32
<1>3. InRange(Float32(x, d), d) <=>
        (Finite(Float32(x, d)) => Float32(x, d) \in -M .. M)
  BY DEF InRange
<1> HIDE DEF M
<1>4. CASE x > M
  BY <1>1, <1>2, <1>3, <1>4 DEF Finite
<1>5. CASE x < -M
  BY <1>1, <1>2, <1>3, <1>5 DEF Finite
<1>6. CASE ~(x > M) /\ ~(x < -M)
  BY <1>1, <1>2, <1>3, <1>6
<1> QED
  BY <1>4, <1>5, <1>6

LEMMA Float32Monotone ==
    ASSUME NEW x \in Int, NEW y \in Int, NEW d \in Nat \ {0}, x <= y
    PROVE  Below(Float32(x, d), Float32(y, d))
<1> DEFINE M == MaxFloat * d
<1>1. M \in Nat
  BY TimesPositive
<1>2. /\ Float32(x, d) = IF x > M THEN PosInf ELSE IF x < -M THEN NegInf ELSE x
      /\ Float32(y, d) = IF y > M THEN PosInf ELSE IF y < -M THEN NegInf ELSE y
  BY DEF Float32
<1> HIDE DEF M
<1>3. CASE x > M
  BY <1>1, <1>2, <1>3 DEF Below
<1>4. CASE x < -M
  BY <1>1, <1>2, <1>4 DEF Below
<1>5. CASE ~(x > M) /\ ~(x < -M)
  BY <1>1, <1>2, <1>5 DEF Below, Finite
<1> QED
  BY <1>3, <1>4, <1>5

(* The steps keep the shape of values and the order of their elements.     *)
LEMMA NormalizeKeeps ==
    ASSUME NEW v, ValueOK(v), v.kind = "floats", Peak(v) # 0
    PROVE  LET w == Normalize(v)
           IN  ValueOK(w) /\ w.kind = "floats" /\ SameOrder(v, w)
<1> DEFINE max == Peak(v)
           quotient(x) == IF ~Finite(x) THEN IF max = PosInf THEN NaN ELSE x
                          ELSE IF max = PosInf THEN 0 ELSE Float32(x, max)
           num == [i \in DOMAIN v.num |-> quotient(v.num[i])]
           den == IF max = PosInf THEN 1 ELSE max
           w == Normalize(v)
<1>1. /\ v.num \in Seq(Number)
      /\ DOMAIN v.num = 1 .. Len(v.num) /\ Len(v.num) \in Nat
      /\ \A i \in DOMAIN v.num : v.num[i] \in Number
  BY DEF ValueOK
<1>2. /\ max \in (Nat \ {0}) \cup {PosInf} /\ den \in Nat \ {0}
      /\ \A i \in DOMAIN v.num : Below(v.num[i], max)
  BY <1>1, PeakIsMax
<1>3. w = Floats(num, den)
  BY DEF Normalize
<1>4. ASSUME NEW x \in Number, Below(x, max)
      PROVE  /\ quotient(x) \in Number /\ InRange(quotient(x), den)
             /\ x # PosInf => quotient(x) # PosInf
  <2>1. CASE ~Finite(x)
    BY <2>1, <1>2, <1>4 DEF Number, Finite, InRange
  <2>2. CASE Finite(x) /\ max = PosInf
    <3>1. quotient(x) = 0 /\ den = 1 /\ MaxFloat * 1 \in Nat
      BY <2>2
    <3> QED
      BY <2>2, <3>1 DEF Number, InRange
  <2>3. CASE Finite(x) /\ max # PosInf
    <3>1. x \in Int /\ max \in Nat \ {0} /\ x <= max
      BY <2>3, <1>2, <1>4 DEF Number, Finite, Below
    <3> QED
      BY <2>3, <3>1, Float32Range DEF Number
  <2> QED
    BY <2>1, <2>2, <2>3
<1>5. ASSUME NEW x \in Number, NEW y \in Number, y # PosInf, Below(x, y)
      PROVE  Below(quotient(x), quotient(y))
  <2>1. CASE ~Finite(x) \/ ~Finite(y) \/ max = PosInf
    <3>1. CASE max = PosInf
      BY <1>5, <3>1 DEF Number, Finite, Below
    <3>2. CASE max # PosInf /\ ~Finite(x)
      <4>1. quotient(x) = x /\ x \in {NaN, NegInf}
        BY <1>5, <3>2 DEF Finite, Below
      <4>2. CASE y = NaN
        BY <1>5, <3>2, <4>1, <4>2 DEF Finite, Below
      <4>3. CASE y = NegInf
        BY <1>5, <3>2, <4>1, <4>3 DEF Finite, Below
      <4>4. CASE y \in Int
        <5>1. quotient(y) = Float32(y, max) /\ max \in Nat \ {0}
          BY <1>2, <3>2, <4>4 DEF Finite
        <5>2. quotient(y) \in {y, PosInf, NegInf}
          BY <5>1, <4>4, Float32Range
        <5>3. quotient(y) # NaN
          BY <5>2, <4>4
        <5> QED
          BY <4>1, <5>3 DEF Below
      <4> QED
        BY <1>5, <4>2, <4>3, <4>4 DEF Number
    <3>3. CASE max # PosInf /\ Finite(x) /\ ~Finite(y)
      BY <1>5, <3>3 DEF Finite, Below
    <3> QED
      BY <2>1, <3>1, <3>2, <3>3
  <2>2. CASE Finite(x) /\ Finite(y) /\ max # PosInf
    <3>1. x \in Int /\ y \in Int /\ x <= y /\ max \in Nat \ {0}
      BY <2>2, <1>2, <1>5 DEF Number, Finite, Below
    <3> QED
      BY <2>2, <3>1, Float32Monotone
  <2> QED
    BY <2>1, <2>2
<1> HIDE DEF max, quotient, den
<1>6. num \in Seq(Number) /\ DOMAIN num = DOMAIN v.num
  BY <1>1, <1>2, <1>4
<1>7. /\ w.kind = "floats" /\ w.num = num /\ w.den = den
      /\ Elements(w) = num
  BY <1>3 DEF Floats, Elements
<1>8. \A i \in DOMAIN num : InRange(num[i], den)
  BY <1>1, <1>2, <1>4
<1>9. \A i, j \in DOMAIN v.num :
         v.num[j] # PosInf /\ Below(v.num[i], v.num[j]) =>
             Below(num[i], num[j]) /\ num[j] # PosInf
  BY <1>1, <1>2, <1>4, <1>5
<1> HIDE DEF num, w
<1>10. ValueOK(w) /\ SameOrder(v, w)
  BY <1>2, <1>6, <1>7, <1>8, <1>9 DEF ValueOK, SameOrder
<1> QED
  BY <1>7, <1>10 DEF w

LEMMA SoftmaxKeeps ==
    ASSUME NEW v, ValueOK(v), v.kind = "floats", NEW w \in Softmax(v)
    PROVE  ValueOK(w) /\ w.kind = "floats" /\ SameOrder(v, w)
<1>1. v.num \in Seq(Number) /\ DOMAIN v.num = 1 .. Len(v.num)
  BY DEF ValueOK
<1>2. ASSUME w = Floats([i \in DOMAIN v.num |-> NaN], 1)
      PROVE  ValueOK(w) /\ w.kind = "floats" /\ SameOrder(v, w)
  <2>1. /\ [i \in DOMAIN v.num |-> NaN] \in Seq(Number)
        /\ InRange(NaN, 1) /\ Below(NaN, NaN)
    BY <1>1 DEF Number, InRange, Finite, Below
  <2> QED
    BY <1>2, <2>1 DEF Floats, ValueOK, SameOrder, Elements
<1>3. ASSUME NEW u \in Weights(v), w = Floats(u, Grid)
      PROVE  ValueOK(w) /\ w.kind = "floats" /\ SameOrder(v, w)
  <2>1. /\ u \in [DOMAIN v.num -> 0 .. Grid]
        /\ \A i, j \in DOMAIN u : Below(v.num[i], v.num[j]) => u[i] <= u[j]
    BY <1>3 DEF Weights
  <2>2. MaxFloat * Grid \in Nat /\ Grid <= MaxFloat * Grid
    BY TimesPositive
  <2>3. \A x \in 0 .. Grid : x \in Int /\ Finite(x) /\ x # PosInf
    BY DEF Finite
  <2>4. \A x \in 0 .. Grid : x \in -(MaxFloat * Grid) .. MaxFloat * Grid
    BY <2>2
  <2>5. u \in Seq(Number) /\ \A i \in DOMAIN u : InRange(u[i], Grid)
    <3>1. \A i \in DOMAIN u : InRange(u[i], Grid)
      BY <2>1, <2>4 DEF InRange
    <3>2. u \in Seq(Number)
      BY <1>1, <2>1 DEF Number
    <3> QED
      BY <3>1, <3>2
  <2>6. \A i, j \in DOMAIN u :
           Below(v.num[i], v.num[j]) => Below(u[i], u[j]) /\ u[j] # PosInf
    BY <2>1, <2>3 DEF Below
  <2> QED
    BY <1>3, <2>1, <2>5, <2>6 DEF Floats, ValueOK, SameOrder, Elements
<1> QED
  BY <1>2, <1>3 DEF Softmax

(* Multiplying by a number that is not negative keeps the order. *)
LEMMA TimesMonotone ==
    ASSUME NEW a \in Int, NEW b \in Int, NEW d \in Nat, a <= b
    PROVE  a * d <= b * d
<1>1. (b - a) * d >= 0
  OBVIOUS
<1>2. (b - a) * d = b * d - a * d
  OBVIOUS
<1>3. a * d \in Int /\ b * d \in Int
  OBVIOUS
<1> QED
  BY <1>1, <1>2, <1>3

LEMMA ThresholdKeeps ==
    ASSUME NEW v, ValueOK(v), v.kind = "floats", NEW param,
           param # NoParam => param.num \in Int /\ param.den \in Nat \ {0}
    PROVE  LET w == ApplyThreshold(v, param)
           IN  ValueOK(w) /\ w.kind = "ints" /\ SameOrder(v, w)
<1> DEFINE t == Threshold(param)
           reaches(x) == x = PosInf \/ (Finite(x) /\ x * t.den >= t.num * v.den)
           arr == [i \in DOMAIN v.num |-> IF reaches(v.num[i]) THEN 1 ELSE 0]
           w == ApplyThreshold(v, param)
<1>1. /\ v.num \in Seq(Number) /\ v.den \in Nat
      /\ DOMAIN v.num = 1 .. Len(v.num)
      /\ \A i \in DOMAIN v.num : v.num[i] \in Number
  BY DEF ValueOK
<1>2. t.num \in Int /\ t.den \in Nat
  BY DEF Threshold
<1>3. w = Ints(arr)
  BY DEF ApplyThreshold
<1>4. ASSUME NEW x \in Number, NEW y \in Number, Below(x, y), reaches(x)
      PROVE  reaches(y)
  <2>1. CASE y = PosInf
    BY <2>1
  <2>2. CASE y # PosInf
    <3>1. x \in Int /\ y \in Int /\ x <= y /\ Finite(x) /\ Finite(y)
      BY <1>4, <2>2 DEF Number, Below, Finite
    <3>2. x * t.den <= y * t.den
      BY <1>2, <3>1, TimesMonotone
    <3>3. t.num * v.den \in Int /\ x * t.den \in Int /\ y * t.den \in Int
      BY <1>1, <1>2, <3>1
    <3>4. x * t.den >= t.num * v.den
      BY <1>4, <3>1 DEF Finite
    <3> QED
      BY <3>1, <3>2, <3>3, <3>4
  <2> QED
    BY <2>1, <2>2
<1> HIDE DEF t, reaches
<1>5. arr \in Seq({0, 1}) /\ DOMAIN arr = DOMAIN v.num
  BY <1>1
<1>6. \A i, j \in DOMAIN v.num :
         Below(v.num[i], v.num[j]) => arr[i] <= arr[j]
  BY <1>1, <1>4
<1>7. w.kind = "ints" /\ w.arr = arr /\ Elements(w) = arr
  BY <1>3 DEF Ints, Elements
<1> HIDE DEF arr, w
<1>8. \A x \in {0, 1} : x \in Int /\ Finite(x) /\ x # PosInf
  BY DEF Finite
<1>9. \A i, j \in DOMAIN v.num :
         Below(v.num[i], v.num[j]) => Below(arr[i], arr[j]) /\ arr[j] # PosInf
  <2>1. \A i \in DOMAIN v.num : arr[i] \in {0, 1}
    BY <1>5
  <2> QED
    BY <1>6, <1>8, <2>1 DEF Below
<1>10. ValueOK(w) /\ SameOrder(v, w)
  BY <1>5, <1>7, <1>9 DEF ValueOK, SameOrder
<1> QED
  BY <1>7, <1>10 DEF w

(* A step of Run that does not fail makes a value of the step's type; if   *)
(* it gives numbers, it has got floats, and their order is kept.           *)
LEMMA StepKeeps ==
    ASSUME NEW s, NEW v, ValueOK(v), StepOK(s), ~Fails(s, v),
           ~ReturnsEarly(s, v), NEW w \in Results(s, v)
    PROVE  /\ ValueOK(w)
           /\ w.kind = KindAfter(s.type)
           /\ w.kind \in {"floats", "ints"} => v.kind = "floats"
           /\ SameOrder(v, w)
<1>1. CASE s.type = "normalize"
  <2>1. v.kind = "floats" /\ Peak(v) # 0 /\ w = Normalize(v)
    BY <1>1 DEF Fails, ReturnsEarly, Results, FloatSteps
  <2> QED
    BY <1>1, <2>1, NormalizeKeeps DEF KindAfter
<1>2. CASE s.type = "softmax"
  <2>1. v.kind = "floats" /\ w \in Softmax(v)
    BY <1>2 DEF Fails, Results, FloatSteps
  <2> QED
    BY <1>2, <2>1, SoftmaxKeeps DEF KindAfter
<1>3. CASE s.type = "apply_threshold"
  <2>1. v.kind = "floats" /\ w = ApplyThreshold(v, s.param)
    BY <1>3 DEF Fails, Results, FloatSteps
  <2>2. ValueOK(w) /\ w.kind = "ints" /\ SameOrder(v, w)
    BY <1>3, <2>1, ThresholdKeeps DEF StepOK
  <2> QED
    BY <1>3, <2>1, <2>2 DEF KindAfter
<1>4. CASE s.type = "map_to_labels"
  <2>1. w.kind = "labels"
    BY <1>4 DEF Results, MapToLabels, Labels
  <2> QED
    BY <1>4, <2>1 DEF KindAfter, ValueOK, SameOrder
<1> QED
  BY <1>1, <1>2, <1>3, <1>4 DEF Fails, FloatSteps

-----------------------------------------------------------------------------
(* The inductive invariant.                                                *)

ShapeInv ==
    /\ engine \in {"onnx", "tflite"}
    /\ pipeline \in Config /\ WellFormed(pipeline)
    /\ reloads \in 0 .. MaxReloads
    /\ entry \in {"none", "predict", "named", "batch", "grpc", "recovered"}
    /\ stage \in {"idle", "pre", "post"}
    /\ outcome \in {"none", "result", "error"}
    /\ ValueOK(data) /\ ValueOK(start)
    /\ used \in Config \cup {<<>>}
    /\ steps \in Seq(Range(used))
    /\ seen \subseteq Config
    /\ early \in BOOLEAN
    /\ engineFailed \in BOOLEAN

(* Run is under way, or the result of the last one has been sent. *)
Active == stage # "idle" \/ outcome = "result"

Done == Len(used) - Len(steps)

(* steps is what Run has not executed of used, and data is what the        *)
(* executed part has made of start.                                        *)
RunInv ==
    Active =>
        /\ used \in seen
        /\ IF early
           THEN steps = <<>> /\ used # <<>> /\ data.kind = "floats"
           ELSE /\ Done >= 0
                /\ \A k \in 1 .. Len(steps) : steps[k] = used[Done + k]
                /\ IF Done = 0 THEN data = start
                               ELSE data.kind = KindAfter(used[Done].type)
        /\ start.kind = "floats" /\ Numeric(used) => data.kind = "floats"

(* Where the data of a task that is under way can come from. *)
SourceInv ==
    /\ stage # "idle" => outcome = "none"
    /\ stage = "idle" => steps = <<>>
    /\ Active /\ entry \notin {"predict", "grpc"} =>
          stage = "pre" /\ data.kind \in {"list", "map", "task"}
    /\ stage = "pre" /\ entry \in {"predict", "grpc"} => start.kind = "floats"
    /\ stage = "post" \/ outcome = "result" =>
          IF engine = "onnx"
          THEN start.kind = "map" /\ data = start /\ ~early /\ steps = used
          ELSE start.kind = "floats"

TaskInv ==
    /\ ShapeInv
    /\ SameOrder(start, data)
    /\ RunInv
    /\ SourceInv
    /\ ServedExactly

-----------------------------------------------------------------------------
LEMMA ConfigShape ==
    \A c \in Config \cup {<<>>} :
        /\ c \in Seq(Range(c))
        /\ \A s \in Range(c) : StepOK(s)
<1>1. ASSUME NEW c \in Config PROVE c \in Seq(Range(c))
  BY <1>1, ConfigAssumption
<1>2. ASSUME NEW c \in Config, NEW s \in Range(c) PROVE StepOK(s)
  <2>1. PICK i \in DOMAIN c : s = c[i]
    BY DEF Range
  <2> QED
    BY <2>1, ConfigAssumption DEF StepOK
<1>3. <<>> \in Seq(Range(<<>>)) /\ Range(<<>>) = {}
  BY DEF Range
<1> QED
  BY <1>1, <1>2, <1>3

(* The next step of Run is one of the pipeline it runs, the one after      *)
(* those that are done.                                                    *)
LEMMA NextStep ==
    ASSUME ShapeInv, steps # <<>>
    PROVE  /\ Head(steps) \in Range(used) /\ StepOK(Head(steps))
           /\ Tail(steps) \in Seq(Range(used))
           /\ Len(Tail(steps)) = Len(steps) - 1
           /\ \A k \in 1 .. Len(steps) - 1 : Tail(steps)[k] = steps[k + 1]
           /\ Head(steps) = steps[1]
           /\ Len(steps) \in Nat \ {0} /\ Len(used) \in Nat
<1>1. steps \in Seq(Range(used)) /\ used \in Seq(Range(used))
  BY ConfigShape DEF ShapeInv
<1>2. Head(steps) \in Range(used) /\ Tail(steps) \in Seq(Range(used))
  BY <1>1
<1>3. StepOK(Head(steps))
  BY <1>2, ConfigShape DEF ShapeInv
<1> QED
  BY <1>1, <1>2, <1>3

(* Nothing is done of a run that begins. *)
LEMMA BeginRunInv ==
    ASSUME ShapeInv, NEW v, ValueOK(v), BeginRun(v), pipeline \in seen'
    PROVE  /\ ValueOK(data') /\ ValueOK(start')
           /\ used' \in Config /\ steps' \in Seq(Range(used')) /\ early' = FALSE
           /\ SameOrder(start, data)'
           /\ RunInv'
<1>1. /\ steps' = pipeline /\ used' = pipeline /\ data' = v /\ start' = v
      /\ early' = FALSE /\ pipeline \in Config
  BY DEF BeginRun, ShapeInv
<1>2. pipeline \in Seq(Range(pipeline))
  BY <1>1, ConfigShape
<1>3. SameOrder(start, data)'
  BY <1>1 DEF SameOrder, Elements
<1>4. Done' = 0 /\ \A k \in 1 .. Len(steps') : steps'[k] = used'[Done' + k]
  BY <1>1, <1>2 DEF Done
<1>5. RunInv'
  BY <1>1, <1>4 DEF RunInv
<1> QED
  BY <1>1, <1>2, <1>3, <1>5

LEMMA TaskInvInit == TaskDataInit => TaskInv
<1> SUFFICES ASSUME TaskDataInit PROVE TaskInv
  OBVIOUS
<1>1. data.kind = "list" /\ start = data
  BY DEF TaskDataInit, Opaque
<1>2. ShapeInv
  <2>1. ValueOK(data) /\ ValueOK(start)
    BY <1>1 DEF ValueOK
  <2>2. used = <<>> /\ steps \in Seq(Range(used)) /\ early = FALSE
    BY ConfigShape DEF TaskDataInit
  <2>3. /\ engine \in {"onnx", "tflite"} /\ pipeline \in Config
        /\ WellFormed(pipeline) /\ reloads \in 0 .. MaxReloads
    BY DEF TaskDataInit
  <2> QED
    BY <2>1, <2>2, <2>3 DEF TaskDataInit, ShapeInv
<1>3. SameOrder(start, data) /\ RunInv /\ SourceInv /\ ServedExactly
  BY <1>1 DEF TaskDataInit, SameOrder, RunInv, Active, SourceInv,
     ServedExactly
<1> QED
  BY <1>2, <1>3 DEF TaskInv

(* The []float32 of requests and predictions. *)
LEMMA FloatInputs ==
    \A x \in ConvertedInputs \cup InferInputs : x.kind = "floats" /\ ValueOK(x)
<1>1. ASSUME NEW a \in Array
      PROVE  LET x == Floats([i \in DOMAIN a |-> Float32(a[i], Unit)], Unit)
             IN  x.kind = "floats" /\ ValueOK(x)
  <2> DEFINE num == [i \in DOMAIN a |-> Float32(a[i], Unit)]
  <2>1. a \in Seq(Int) /\ DOMAIN a = 1 .. Len(a)
    OBVIOUS
  <2>2. \A i \in DOMAIN a : /\ Float32(a[i], Unit) \in Number
                            /\ InRange(Float32(a[i], Unit), Unit)
    BY <2>1, Float32Range DEF Number
  <2>3. num \in Seq(Number) /\ \A i \in DOMAIN num : InRange(num[i], Unit)
    BY <2>1, <2>2
  <2> HIDE DEF num
  <2>4. Floats(num, Unit).kind = "floats" /\ ValueOK(Floats(num, Unit))
    BY <2>3 DEF Floats, ValueOK
  <2> QED
    BY <2>4 DEF num
<1>2. ASSUME NEW a \in Tensor
      PROVE  Floats(a, Unit).kind = "floats" /\ ValueOK(Floats(a, Unit))
  <2>1. a \in Seq(Number) /\ \A i \in DOMAIN a : a[i] \in Number
    BY DEF Number
  <2>2. \A i \in DOMAIN a : InRange(a[i], Unit)
    <3> SUFFICES ASSUME NEW i \in DOMAIN a, Finite(a[i])
                 PROVE  InRange(a[i], Unit)
      BY DEF InRange
    <3>1. a[i] \in Int /\ Float32(a[i], Unit) = a[i]
      BY <2>1 DEF Number, Finite
    <3> QED
      BY <3>1, Float32Range
  <2> QED
    BY <2>1, <2>2 DEF Floats, ValueOK
<1> QED
  BY <1>1, <1>2 DEF ConvertedInputs, InferInputs

LEMMA TakeInv ==
    ASSUME TaskInv, NEW e, NEW v, Take(e, v)
    PROVE  TaskInv'
<1> USE DEF TaskInv
<1>1. /\ e \in {"predict", "named", "batch", "grpc", "recovered"}
      /\ e \in {"predict", "grpc"} => v.kind = "floats"
      /\ e \notin {"predict", "grpc"} => v.kind \in {"list", "map", "task"}
      /\ ValueOK(v)
  <2>1. \A x \in ConvertedInputs \cup InferInputs :
           x.kind = "floats" /\ ValueOK(x)
    BY FloatInputs
  <2>2. \A k \in {"list", "map", "task"} :
           Opaque(k).kind = k /\ ValueOK(Opaque(k))
    BY DEF Opaque, ValueOK
  <2>3. <<e, v>> \in Submitted
    BY DEF Take
  <2>4. CASE e \in {"predict", "grpc"} /\ v \in ConvertedInputs \cup InferInputs
    BY <2>1, <2>4
  <2>5. CASE /\ e \in {"named", "batch", "recovered"}
             /\ v \in {Opaque("list"), Opaque("map"), Opaque("task")}
    BY <2>2, <2>5
  <2> QED
    BY <2>3, <2>4, <2>5 DEF Submitted, NamedInput, BatchInput, RecoveredInputs
<1>2. /\ entry' = e /\ stage' = "pre" /\ outcome' = "none"
      /\ seen' = {pipeline} /\ engineFailed' = FALSE /\ BeginRun(v)
      /\ UNCHANGED <<engine, pipeline, reloads>>
  BY DEF Take
<1>3. /\ ValueOK(data') /\ ValueOK(start')
      /\ used' \in Config /\ steps' \in Seq(Range(used')) /\ early' = FALSE
      /\ SameOrder(start, data)'
      /\ RunInv'
  BY <1>1, <1>2, BeginRunInv
<1>4. ShapeInv'
  BY <1>1, <1>2, <1>3 DEF ShapeInv
<1>5. SourceInv' /\ ServedExactly'
  BY <1>1, <1>2 DEF BeginRun, SourceInv, ServedExactly
<1> QED
  BY <1>3, <1>4, <1>5

LEMMA RunStepInv ==
    ASSUME TaskInv, RunStep
    PROVE  TaskInv'
<1> DEFINE s == Head(steps)
<1> USE DEF TaskInv
<1>1. /\ steps # <<>> /\ ~Fails(s, data) /\ data' \in Results(s, data)
      /\ steps' = Tail(steps)
      /\ UNCHANGED <<engine, pipeline, reloads, entry, stage, outcome, start,
                     used, seen, early, engineFailed>>
  BY DEF RunStep
<1>2. /\ s \in Range(used) /\ StepOK(s)
      /\ steps' \in Seq(Range(used)) /\ Len(steps') = Len(steps) - 1
      /\ \A k \in 1 .. Len(steps) - 1 : steps'[k] = steps[k + 1]
      /\ s = steps[1]
      /\ Len(steps) \in Nat \ {0} /\ Len(used) \in Nat
  BY <1>1, NextStep
<1>3. /\ ValueOK(data') /\ data'.kind = KindAfter(s.type)
      /\ data'.kind \in {"floats", "ints"} => data.kind = "floats"
      /\ SameOrder(data, data')
  BY <1>1, <1>2, StepKeeps DEF RunStep, ShapeInv
<1>4. ShapeInv'
  BY <1>1, <1>2, <1>3 DEF ShapeInv
<1>5. SameOrder(start, data')
  <2> SUFFICES ASSUME start.kind = "floats", data'.kind \in {"floats", "ints"}
               PROVE  /\ DOMAIN Elements(data') = DOMAIN start.num
                      /\ \A i, j \in DOMAIN start.num :
                            start.num[j] # PosInf
                              /\ Below(start.num[i], start.num[j])
                              => /\ Below(Elements(data')[i], Elements(data')[j])
                                 /\ Elements(data')[j] # PosInf
    BY DEF SameOrder
  <2>1. data.kind = "floats" /\ Elements(data) = data.num
    BY <1>3 DEF Elements
  <2> QED
    BY <1>3, <2>1 DEF SameOrder
<1>6. RunInv'
  <2> SUFFICES ASSUME Active PROVE RunInv'
    BY <1>1 DEF RunInv, Active
  <2>1. /\ used \in seen /\ ~early
        /\ Done \in Nat /\ Done' = Done + 1
        /\ \A k \in 1 .. Len(steps) : steps[k] = used[Done + k]
    BY <1>1, <1>2 DEF RunInv, Done
  <2>2. s = used[Done']
    BY <1>2, <2>1
  <2>3. \A k \in 1 .. Len(steps') : steps'[k] = used[Done' + k]
    <3> SUFFICES ASSUME NEW k \in 1 .. Len(steps')
                 PROVE  steps'[k] = used[Done' + k]
      OBVIOUS
    <3>1. k + 1 \in 1 .. Len(steps) /\ steps'[k] = steps[k + 1]
      BY <1>2
    <3>2. Done + (k + 1) = Done' + k
      BY <1>2, <2>1
    <3> QED
      BY <2>1, <3>1, <3>2
  <2>4. Numeric(used) => data'.kind = "floats"
    BY <1>2, <1>3 DEF Numeric, Range, KindAfter
  <2> QED
    BY <1>1, <1>3, <2>1, <2>2, <2>3, <2>4 DEF RunInv, Numeric
<1>7. SourceInv'
  <2>1. data.kind \notin {"list", "map", "task"}
    BY <1>1 DEF Fails
  <2>2. outcome # "result"
    BY <1>1 DEF SourceInv
  <2>3. stage = "post" => engine # "onnx"
    BY <2>1 DEF SourceInv
  <2> QED
    BY <1>1, <2>1, <2>2, <2>3 DEF SourceInv, Active
<1>8. ServedExactly'
  BY <1>1 DEF ServedExactly
<1> QED
  BY <1>1, <1>4, <1>5, <1>6, <1>7, <1>8

LEMMA ReturnsEarlyInv ==
    ASSUME TaskInv, RunReturnsEarly
    PROVE  TaskInv'
<1> USE DEF TaskInv
<1>1. /\ steps # <<>> /\ data.kind = "floats" /\ steps' = <<>> /\ early' = TRUE
      /\ UNCHANGED <<engine, pipeline, reloads, entry, stage, outcome, data,
                     start, used, seen, engineFailed>>
  BY DEF RunReturnsEarly, ReturnsEarly
<1>2. ShapeInv'
  BY <1>1 DEF ShapeInv
<1>3. SameOrder(start, data)'
  BY <1>1
<1>4. used # <<>>
  BY <1>1, NextStep DEF Range
<1>5. RunInv'
  BY <1>1, <1>4 DEF RunInv, Active
<1>6. SourceInv'
  BY <1>1 DEF SourceInv, Active
<1>7. ServedExactly'
  BY <1>1 DEF ServedExactly
<1> QED
  BY <1>2, <1>3, <1>5, <1>6, <1>7

(* The task is over without a result: what is left to show is that one of  *)
(* its pipelines, or the engine, is to blame.                              *)
LEMMA FailureInv ==
    ASSUME TaskInv, stage # "idle", stage' = "idle", outcome' = "error",
           steps' = <<>>, engineFailed' \in BOOLEAN,
           entry \in {"predict", "grpc"} =>
               \/ engineFailed'
               \/ IF engine = "onnx" THEN used # <<>> ELSE ~Numeric(used),
           UNCHANGED <<engine, pipeline, reloads, entry, data, start, used,
                       seen, early>>
    PROVE  TaskInv'
<1> USE DEF TaskInv
<1>1. used \in seen
  BY DEF RunInv, Active
<1>2. ShapeInv' /\ SameOrder(start, data)'
  BY DEF ShapeInv
<1>3. RunInv' /\ SourceInv'
  BY DEF RunInv, SourceInv, Active
<1>4. ServedExactly'
  BY <1>1 DEF ServedExactly, Numeric
<1> QED
  BY <1>2, <1>3, <1>4

LEMMA RunFailsInv ==
    ASSUME TaskInv, RunFails
    PROVE  TaskInv'
<1> USE DEF TaskInv
<1>1. /\ steps # <<>> /\ Fails(Head(steps), data)
      /\ stage' = "idle" /\ steps' = <<>> /\ outcome' = "error"
      /\ UNCHANGED <<engine, pipeline, reloads, entry, data, start, used, seen,
                     early, engineFailed>>
  BY DEF RunFails
<1>2. Head(steps) \in Range(used) /\ used # <<>>
  BY <1>1, NextStep DEF Range
<1>3. stage # "idle"
  BY <1>1 DEF SourceInv
<1>4. Numeric(used) => data.kind # "floats"
  BY <1>1, <1>2 DEF Numeric, Range, Fails, FloatSteps
<1>5. entry \in {"predict", "grpc"} /\ engine # "onnx" => start.kind = "floats"
  BY <1>3 DEF SourceInv, ShapeInv
<1>6. entry \in {"predict", "grpc"} =>
        IF engine = "onnx" THEN used # <<>> ELSE ~Numeric(used)
  BY <1>2, <1>3, <1>4, <1>5 DEF RunInv, Active
<1>7. engineFailed' \in BOOLEAN
  BY <1>1 DEF ShapeInv
<1> QED
  BY <1>1, <1>3, <1>6, <1>7, FailureInv

LEMMA PredictFailsInv ==
    ASSUME TaskInv, PredictFails
    PROVE  TaskInv'
<1> USE DEF TaskInv
<1>1. /\ stage = "pre" /\ steps = <<>> /\ stage' = "idle" /\ outcome' = "error"
      /\ engineFailed' = EngineTakes(data)
      /\ UNCHANGED <<engine, pipeline, reloads, entry, seen, steps, data, start,
                     used, early>>
  BY DEF PredictFails, runVars
<1>2. ASSUME entry \in {"predict", "grpc"}, ~engineFailed'
      PROVE  used # <<>> /\ ~Numeric(used)
  <2>1. start.kind = "floats" /\ data.kind # "floats" /\ data # start
    BY <1>1, <1>2 DEF SourceInv, EngineTakes
  <2>2. ~Numeric(used)
    BY <1>1, <2>1 DEF RunInv, Active
  <2> QED
    BY <2>2 DEF Numeric
<1>3. engineFailed' \in BOOLEAN
  BY <1>1 DEF EngineTakes
<1> QED
  BY <1>1, <1>2, <1>3, FailureInv

LEMMA PredictInv ==
    ASSUME TaskInv, Predict
    PROVE  TaskInv'
<1> USE DEF TaskInv
<1>1. PICK v \in EngineReturns : BeginRun(v)
  BY DEF Predict
<1>2. /\ stage = "pre" /\ data.kind = "floats" /\ stage' = "post"
      /\ seen' = seen \cup {pipeline}
      /\ UNCHANGED <<engine, pipeline, reloads, entry, outcome, engineFailed>>
  BY DEF Predict, EngineTakes
<1>3. ValueOK(v) /\ IF engine = "onnx" THEN v.kind = "map" ELSE v.kind = "floats"
  <2>1. CASE engine = "onnx"
    BY <2>1 DEF EngineReturns, Opaque, ValueOK
  <2>2. CASE engine # "onnx"
    BY <2>2, FloatInputs DEF EngineReturns, InferInputs
  <2> QED
    BY <2>1, <2>2
<1>4. /\ ValueOK(data') /\ ValueOK(start')
      /\ used' \in Config /\ steps' \in Seq(Range(used')) /\ early' = FALSE
      /\ SameOrder(start, data)'
      /\ RunInv'
  BY <1>1, <1>2, <1>3, BeginRunInv
<1>5. ShapeInv'
  BY <1>2, <1>4 DEF ShapeInv
<1>6. entry \in {"predict", "grpc"} /\ outcome = "none"
  BY <1>2 DEF SourceInv, Active
<1>7. SourceInv'
  BY <1>1, <1>2, <1>3, <1>6 DEF SourceInv, BeginRun
<1>8. ServedExactly'
  BY <1>2, <1>6 DEF ServedExactly
<1> QED
  BY <1>4, <1>5, <1>7, <1>8

LEMMA ReplyInv ==
    ASSUME TaskInv, Reply
    PROVE  TaskInv'
<1> USE DEF TaskInv
<1>1. /\ stage = "post" /\ steps = <<>> /\ stage' = "idle" /\ outcome' = "result"
      /\ UNCHANGED <<engine, pipeline, reloads, entry, seen, engineFailed,
                     steps, data, start, used, early>>
  BY DEF Reply, runVars
<1>2. ShapeInv' /\ SameOrder(start, data)'
  BY <1>1 DEF ShapeInv
<1>3. RunInv'
  BY <1>1 DEF RunInv, Active, Done
<1>4. entry \in {"predict", "grpc"} /\ (engine = "onnx" => used = <<>>)
  BY <1>1 DEF SourceInv, Active
<1>5. SourceInv'
  BY <1>1, <1>4 DEF SourceInv
<1>6. ServedExactly'
  BY <1>1, <1>4 DEF ServedExactly
<1> QED
  BY <1>2, <1>3, <1>5, <1>6

LEMMA ReloadInv ==
    ASSUME TaskInv, (\E c \in Config : Reload(c)) \/ UNCHANGED dvars
    PROVE  TaskInv'
<1> USE DEF TaskInv
<1>1. UNCHANGED <<engine, entry, stage, outcome, seen, engineFailed, steps,
                  data, start, used, early>>
  BY DEF Reload, dvars, runVars
<1>2. /\ reloads' \in 0 .. MaxReloads
      /\ pipeline' \in Config /\ WellFormed(pipeline')
  BY DEF Reload, dvars, ShapeInv
<1>3. ShapeInv'
  BY <1>1, <1>2 DEF ShapeInv
<1>4. RunInv' /\ SourceInv' /\ SameOrder(start, data)'
  BY <1>1 DEF RunInv, SourceInv, Active, Done
<1>5. ServedExactly'
  BY <1>1 DEF ServedExactly
<1> QED
  BY <1>3, <1>4, <1>5

-----------------------------------------------------------------------------
LEMMA TaskInvAlways == TaskDataSpec => []TaskInv
<1>1. TaskInv /\ [TaskDataNext]_dvars => TaskInv'
  BY TakeInv, RunStepInv, ReturnsEarlyInv, RunFailsInv, PredictInv,
     PredictFailsInv, ReplyInv, ReloadInv DEF TaskDataNext
<1> QED
  BY <1>1, TaskInvInit, PTL DEF TaskDataSpec

(* A task's data, the two runs of the pipeline and the replies are well    *)
(* typed, whatever arrays are sent and whatever pipelines are configured.  *)
THEOREM TaskDataTypeCorrect == TaskDataSpec => []TaskDataTypeOK
<1>1. TaskInv => TaskDataTypeOK
  <2> SUFFICES ASSUME TaskInv PROVE TaskDataTypeOK
    OBVIOUS
  <2>1. \E c \in Config : Range(steps) \subseteq Range(c)
    BY DEF TaskInv, ShapeInv, Range
  <2>2. data.kind = "floats" =>
          /\ data.den \in Nat \ {0}
          /\ \A i \in DOMAIN data.num : Finite(data.num[i]) =>
                data.num[i] \in -(MaxFloat * data.den) .. MaxFloat * data.den
    BY DEF TaskInv, ShapeInv, ValueOK, InRange
  <2> QED
    BY <2>1, <2>2 DEF TaskInv, ShapeInv, ValueOK, TaskDataTypeOK
<1> QED
  BY <1>1, TaskInvAlways, PTL

(* No step of Run turns the order of two scores around, for arrays of any  *)
(* length with numbers, infinities and NaN, any pipeline, any threshold    *)
(* and any outcome of softmax that is monotone, unless the larger score is *)
(* +Inf (pipeline.go:47-58, :65-79, :90-97).                               *)
THEOREM TaskDataOrderKept == TaskDataSpec => []OrderKept
<1>1. TaskInv => OrderKept
  BY DEF TaskInv, SameOrder, OrderKept
<1> QED
  BY <1>1, TaskInvAlways, PTL

(* A result has the type that the pipeline in force when the engine        *)
(* returned gives it, through any reloads (pool.go:109-118).               *)
THEOREM TaskDataKindFollowsPipeline == TaskDataSpec => []KindFollowsPipeline
<1>1. TaskInv => KindFollowsPipeline
  <2> SUFFICES ASSUME TaskInv, outcome = "result", ~early, used # <<>>
               PROVE  data.kind = KindAfter(used[Len(used)].type)
    BY DEF KindFollowsPipeline
  <2>1. Len(steps) = 0 /\ Len(used) \in Nat \ {0}
    BY ConfigShape DEF TaskInv, SourceInv, ShapeInv
  <2> QED
    BY <2>1 DEF TaskInv, RunInv, Active, Done
<1> QED
  BY <1>1, TaskInvAlways, PTL

(* Which tasks are served is exactly what ServedExactly says, for any      *)
(* pipelines and any reload between the two runs (pool.go:86-118).         *)
THEOREM TaskDataServedExactly == TaskDataSpec => []ServedExactly
  BY TaskInvAlways, PTL DEF TaskInv
=============================================================================
