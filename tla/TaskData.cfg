\* Arrays of up to three elements, twelve configurations, a reload at any
\* point. Numbers are halves, float32 reaches from -6 to 6, and Grid is a
\* multiple of every number of equal elements.
SPECIFICATION TaskDataSpec
CONSTANTS
    NoParam = NoParam
    NoLabel = NoLabel
    PosInf = PosInf
    NegInf = NegInf
    NaN = NaN
    MaxFloat = 6
    Underflow = 5
    Grid = 6
    Unit = 2
    Array <- JsonArrays
    Tensor <- Tensors
    Config <- Configs
    MaxReloads = 1
INVARIANTS TaskDataTypeOK OrderKept KindFollowsPipeline
