SPECIFICATION Spec
CONSTANTS
    Threads = {w1}
    Worker = w1
    queue_len = 2
    Cbs = {c1, d1}
    Datas = {x}
    DelayedWorks = {d1}
    NULL = NULL
    MaxOps = 5
INVARIANTS
    TypeOK
    TokensMatchItems
    FreedAfterLoop
    AtMostOneLateDelayed
PROPERTIES
    LateRunIsLast
    QueueDrains
