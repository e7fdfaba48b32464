SPECIFICATION FairPoolSpec
CONSTANTS
    Mailbox = {a, b}
    Producer = {p}
    Job = {j}
    QueueCap = 1
    Capacity = 1
    Batch = 1
    MaxPushes = 2
    MaxMoves = 2
CHECK_DEADLOCK FALSE
PROPERTIES Served SlotsAreFreed
