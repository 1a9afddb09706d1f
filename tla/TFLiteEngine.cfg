\* Two calls of Predict on two ids, each with and without a version, and up
\* to two good loads, in both builds.
SPECIFICATION TFLiteSpec
CONSTANTS
    a = a
    b = b
    v = v
    c1 = c1
    c2 = c2
    Id = {a, b}
    Version = {v}
    NoVersion = NoVersion
    Client = {c1, c2}
    NoData = NoData
    MaxLoads = 2
INVARIANTS RegistriesMatch InterpretersOwned SoloCallsSafe
CHECK_DEADLOCK FALSE
