------------------------------ MODULE Pipeline ------------------------------
(***************************************************************************)
(* The steps of internal/processing/pipeline.go, as operators on values.   *)
(*                                                                         *)
(* A value is a record with its dynamic type under kind. A []float32 has a *)
(* numerator for each element and one positive denominator for all of      *)
(* them; an element may be an infinity or NaN instead. Rounding, which     *)
(* keeps the order of numbers, is left out; overflow is not.               *)
(***************************************************************************)
EXTENDS Integers, Sequences, Functions

CONSTANTS
    NoParam,     \* a parameter that is missing or of another type
    NoLabel,     \* the empty label
    PosInf, NegInf, NaN,
    MaxFloat,    \* the largest finite float32
    Underflow,   \* float32(exp(-x)) is 0 for x above this
    Grid         \* softmax's results are multiples of 1/Grid

ASSUME PipelineAssumption ==
    /\ PosInf \notin Int /\ NegInf \notin Int /\ NaN \notin Int
    /\ PosInf # NegInf /\ PosInf # NaN /\ NegInf # NaN
    /\ MaxFloat \in Nat \ {0}
    /\ Underflow \in Nat
    /\ Grid \in Nat \ {0}

Floats(num, den) == [kind |-> "floats", num |-> num, den |-> den]
Ints(arr) == [kind |-> "ints", arr |-> arr]
Labels(arr) == [kind |-> "labels", arr |-> arr]

Finite(x) == x \notin {PosInf, NegInf, NaN}

(* What float32 makes of the number x / d. *)
Float32(x, d) ==
    IF x > MaxFloat * d THEN PosInf
    ELSE IF x < -(MaxFloat * d) THEN NegInf
    ELSE x

(* The order of elements over the same denominator, NaN below all others. *)
Below(x, y) ==
    \/ x = NaN
    \/ y # NaN /\ (x = NegInf \/ y = PosInf)
    \/ Finite(x) /\ Finite(y) /\ x <= y

-----------------------------------------------------------------------------
(* max, which starts at 0: the numerator of the largest positive element.  *)
(* No comparison with NaN is true.                                         *)
Peak(v) ==
    LET candidates == {0} \cup Range(v.num)
    IN  CHOOSE m \in candidates : \A x \in candidates : Below(x, m)

(* arr[i] / max; without a positive element Run returns early instead. An  *)
(* infinite maximum makes numbers 0 and infinities NaN.                    *)
Normalize(v) ==
    LET max == Peak(v)
        quotient(x) == IF ~Finite(x) THEN IF max = PosInf THEN NaN ELSE x
                       ELSE IF max = PosInf THEN 0 ELSE Float32(x, max)
    IN  Floats([i \in DOMAIN v.num |-> quotient(v.num[i])],
               IF max = PosInf THEN 1 ELSE max)

(* The elements whose exponential is 0, if none is NaN or +Inf. *)
Vanishing(v) ==
    {i \in DOMAIN v.num : \/ v.num[i] = NegInf
                          \/ v.num[i] - Peak(v) < -(Underflow * v.den)}

(* What exp makes of the elements, relative to their sum: a larger element *)
(* has no smaller weight, equal ones have equal weights.                   *)
Weights(v) ==
    {w \in [DOMAIN v.num -> 0 .. Grid] :
        /\ FoldFunction(+, 0, w) = Grid
        /\ \A i \in Vanishing(v) : w[i] = 0
        /\ \A i, j \in DOMAIN w : Below(v.num[i], v.num[j]) => w[i] <= w[j]}

(* Where every exponential is 0, or one of them NaN (as is that of Inf -   *)
(* Inf), the quotients are NaN.                                            *)
Softmax(v) ==
    IF {NaN, PosInf} \cap Range(v.num) # {} \/ Vanishing(v) = DOMAIN v.num
    THEN {Floats([i \in DOMAIN v.num |-> NaN], 1)}
    ELSE {Floats(w, Grid) : w \in Weights(v)}

(* 0.5 unless the parameter is a float64. *)
Threshold(param) ==
    IF param = NoParam THEN [num |-> 1, den |-> 2] ELSE param

(* A bug: the cases are exchanged, v < thresh giving 0, so that NaN is 1.  *)
BugThresholdNotBelow(v, param) ==
    LET t == Threshold(param)
        under(x) == x = NegInf \/ (Finite(x) /\ x * t.den < t.num * v.den)
    IN  Ints([i \in DOMAIN v.num |-> IF under(v.num[i]) THEN 0 ELSE 1])

ApplyThreshold(v, param) ==
    LET t == Threshold(param)
        reaches(x) == x = PosInf \/ (Finite(x) /\ x * t.den >= t.num * v.den)
    IN  Ints([i \in DOMAIN v.num |-> IF reaches(v.num[i]) THEN 1 ELSE 0])

(* The elements are indices from 0. *)
MapToLabels(v, labels) ==
    Labels([i \in DOMAIN v.arr |->
               IF v.arr[i] \in 0 .. Len(labels) - 1 THEN labels[v.arr[i] + 1]
                                                    ELSE NoLabel])

-----------------------------------------------------------------------------
FloatSteps == {"normalize", "softmax", "apply_threshold"}

(* Run returns an error: a value of the wrong type, no labels, or a step   *)
(* of an unknown type.                                                     *)
Fails(s, v) ==
    \/ s.type \in FloatSteps /\ v.kind # "floats"
    \/ s.type = "map_to_labels" /\ (v.kind # "ints" \/ s.param = NoParam)
    \/ s.type \notin FloatSteps \cup {"map_to_labels"}

(* Run returns the array as it is, whatever steps are left. *)
ReturnsEarly(s, v) ==
    s.type = "normalize" /\ v.kind = "floats" /\ Peak(v) = 0

(* What Run goes on with. *)
Results(s, v) ==
    CASE s.type = "normalize"       -> {Normalize(v)}
      [] s.type = "softmax"         -> Softmax(v)
      [] s.type = "apply_threshold" -> {ApplyThreshold(v, s.param)}
      [] s.type = "map_to_labels"   -> {MapToLabels(v, s.param)}

(* NewPipelineFromConfig refuses a configuration with a step without type. *)
WellFormed(cfg) == \A i \in DOMAIN cfg : cfg[i].type # NoParam
=============================================================================
