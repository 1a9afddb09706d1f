\* The pipelines that the documents show, and every form of request.
SPECIFICATION TaskDataSpec
CONSTANTS
    NoParam = NoParam
    NoLabel = NoLabel
    PosInf = PosInf
    NegInf = NegInf
    NaN = NaN
    MaxFloat = 6
    Underflow = 5
    Grid = 6
    Unit = 2
    Array <- JsonArrays
    Tensor <- Tensors
    Config <- DocumentedConfigs
    MaxReloads = 0
INVARIANT TasksServed
