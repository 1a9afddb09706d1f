\* One request and one restart: does start-up get past recovery?
SPECIFICATION FairPoolSpec
CONSTANTS
    a = a
    w1 = w1
    Item = {a}
    NoItem = NoItem
    Unserializable = {}
    Undecodable = {}
    SeqSpace = 4
    MaxReopen = 1
    DiskErrors = {}
    Recovery = Recovery
    Worker = {w1}
    QueueCap = 1
    Durable = TRUE
PROPERTY RecoveryEnds
CHECK_DEADLOCK FALSE
