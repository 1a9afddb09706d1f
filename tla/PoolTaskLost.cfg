\* Two requests and one restart: is every persisted request kept?
SPECIFICATION PoolSpec
CONSTANTS
    a = a
    b = b
    w1 = w1
    Item = {a, b}
    NoItem = NoItem
    Unserializable = {}
    Undecodable = {}
    SeqSpace = 4
    MaxReopen = 1
    DiskErrors = {}
    Recovery = Recovery
    Worker = {w1}
    QueueCap = 1
    Durable = TRUE
INVARIANT NoTaskLost
CHECK_DEADLOCK FALSE
