SPECIFICATION Spec
CONSTANTS
    Apps = {a1, a2}
    Handles = {h1, h2}
    TimeoutMs = 1
    MsPerSecond = 1
    MaxTime = 2
INVARIANTS
    TypeOK
    ListIsLive
    ToldOnce
    HandledOnce
PROPERTY PublishResolved
CHECK_DEADLOCK FALSE
