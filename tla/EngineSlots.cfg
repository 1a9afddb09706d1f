\* Loads, unloads, Close and concurrent Predict calls on two models.
SPECIFICATION FairEngineSpec
CONSTANTS
    m1 = m1
    m2 = m2
    c1 = c1
    c2 = c2
    c3 = c3
    Key = {m1, m2}
    Client = {c1, c2, c3}
    PoolSize = 2
    MaxLoads = 2
INVARIANTS EngineTypeOK SlotExclusive NoUseAfterDestroy SlotsConserved
PROPERTIES CheckoutEnds LockReleased
CHECK_DEADLOCK FALSE
