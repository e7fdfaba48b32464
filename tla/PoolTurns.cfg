SPECIFICATION TurnsSpec
CONSTANTS
    Mailbox = {a, b, c, d}
    Extra = {c, d}
    Producer = {p, q}
    Job = {j, k}
    QueueCap = 1
    Capacity = 1
    Batch = 1
    MaxPushes = 1
    MaxMoves = 4
SYMMETRY Interchangeable
CHECK_DEADLOCK FALSE
PROPERTIES TakesOldest KeepsSlots
