SPECIFICATION Spec
CONSTANTS
    Apps = {a1}
    Handles = {h1}
    TimeoutMs = 2
    MsPerSecond = 2
    MaxTime = 3
INVARIANT
    TimeoutIsMilliseconds
CHECK_DEADLOCK FALSE
