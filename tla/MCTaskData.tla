----------------------------- MODULE MCTaskData -----------------------------
(***************************************************************************)
(* The instance of TaskData that TLC checks.                               *)
(***************************************************************************)
EXTENDS TaskData

Step(type, param) == [type |-> type, param |-> param]

NormalizeStep == Step("normalize", NoParam)
SoftmaxStep == Step("softmax", NoParam)
HalfStep == Step("apply_threshold", NoParam)
ThresholdStep == Step("apply_threshold", [num |-> 7, den |-> 10])

ZeroStep == Step("apply_threshold", [num |-> 0, den |-> 1])
LabelStep == Step("map_to_labels", <<"cat", "dog", "bird">>)

(* JSON arrays of up to two numbers, some of them beyond float32.          *)
JsonArrays == UNION {[1 .. n -> {-13, 1, 13}] : n \in 0 .. 2}

(* Arrays of float32 of up to two elements and a few of three, with the    *)
(* smallest and the largest number, infinities and NaN.                    *)
Tensors ==
    UNION {[1 .. n -> {-12, -1, 0, 1, 12, PosInf, NegInf, NaN}] : n \in 0 .. 2}
    \cup {<<2, -1, 1>>, <<1, 1, 2>>, <<-12, -11, -12>>, <<-12, -12, -1>>,
          <<NaN, NegInf, 0>>, <<PosInf, NegInf, 1>>}

(* The pipeline of docs/pipeline.md, each kind of step as the last one,    *)
(* chains that fit together and chains that do not.                        *)
Configs ==
    {<<>>,
     <<NormalizeStep>>,
     <<NormalizeStep, SoftmaxStep>>,
     <<SoftmaxStep, NormalizeStep>>,
     <<SoftmaxStep, ThresholdStep>>,
     <<NormalizeStep, ZeroStep>>,
     <<NormalizeStep, SoftmaxStep, ThresholdStep, LabelStep>>,
     <<HalfStep, Step("map_to_labels", <<"cat">>)>>,
     <<HalfStep, Step("map_to_labels", NoParam)>>,
     <<ThresholdStep, NormalizeStep>>,
     <<Step("crop", NoParam)>>,
     <<NormalizeStep, Step(NoParam, NoParam)>>}

(* The empty pipeline and the example of docs/pipeline.md:7-20. *)
DocumentedConfigs ==
    {<<>>, <<NormalizeStep, SoftmaxStep, ThresholdStep, LabelStep>>}
=============================================================================
