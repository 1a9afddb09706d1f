\* The pool over its persistent queue: two callers, two workers, a channel of
\* one, shutdown, reloads, and one restart at any point. A failing Dequeue is
\* what lets recovery end, and requests come in, over a queue that is not
\* empty.
SPECIFICATION FairPoolSpec
CONSTANTS
    a = a
    b = b
    w1 = w1
    w2 = w2
    Item = {a, b}
    NoItem = NoItem
    Unserializable = {}
    Undecodable = {}
    SeqSpace = 3
    MaxReopen = 1
    DiskErrors = {"dequeue"}
    Recovery = Recovery
    Worker = {w1, w2}
    QueueCap = 1
    Durable = TRUE
INVARIANTS PoolTypeOK OneOwner ReplyReady NoLostTask AtMostOneReply PersistedOnDisk
PROPERTIES RepliesFinal Answered WorkersEnd
CHECK_DEADLOCK FALSE
