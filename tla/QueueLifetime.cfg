\* One process lifetime of the persistent queue.
SPECIFICATION LifeSpec
CONSTANTS
    Item = {a, b, chanTask, badJson}
    NoItem = NoItem
    a = a
    b = b
    chanTask = chanTask
    badJson = badJson
    Unserializable = {chanTask}
    Undecodable = {badJson}
    SeqSpace = 6
    MaxReopen = 0
    DiskErrors = {"enqueue", "dequeue", "len"}
INVARIANTS KeysBehindSeq
PROPERTIES FifoOrder ImplementsFifo
