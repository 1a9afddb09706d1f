\* Is a model unloaded safely while Predict calls use it?
SPECIFICATION EngineSpec
CONSTANTS
    m1 = m1
    m2 = m2
    c1 = c1
    c2 = c2
    Key = {m1, m2}
    Client = {c1, c2}
    PoolSize = 2
    MaxLoads = 2
INVARIANT NoPanic
CHECK_DEADLOCK FALSE
