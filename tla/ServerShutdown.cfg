\* One process lifetime of the server, with up to two signals. The inputs
\* hold a value that JSON cannot represent, so that no Enqueue stores one.
SPECIFICATION FairServerSpec
CONSTANTS
    b1 = b1
    b2 = b2
    g1 = g1
    batch = batch
    call = call
    w1 = w1
    Item = {b1, b2, g1}
    NoItem = NoItem
    Unserializable = {b1, b2, g1}
    Undecodable = {}
    SeqSpace = 4
    MaxReopen = 0
    DiskErrors = {}
    Recovery = Recovery
    Worker = {w1}
    QueueCap = 1
    Durable = TRUE
    HttpReq = {batch}
    GrpcReq = {call}
    Inputs <- InferInputs
    MaxSignals = 2
INVARIANTS ServerTypeOK HttpDrained HttpUndisturbed CrashCauses
PROPERTIES HttpAnswered ShutdownCompletes
CHECK_DEADLOCK FALSE
