SPECIFICATION PoolSpec
CONSTANTS
    Mailbox = {a}
    Producer = {p}
    Job = {j, k}
    QueueCap = 1
    Capacity = 1
    Batch = 1
    MaxPushes = 2
    MaxMoves = 1
CHECK_DEADLOCK FALSE
PROPERTIES FailedStaysDown
