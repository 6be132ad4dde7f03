SPECIFICATION Spec
CONSTANTS
    Timers = {t1, t2}
    Apps = {a1}
    OwnedByCallback = {t2}
    Intervals = {1}
    MaxTime = 2
    MaxOps = 3
    Forever = Forever
    NoTimer = NoTimer
INVARIANTS
    TypeOK
    ActiveSorted
    ListsAgree
    NoOversleep
    CallbackOnLiveTimer
PROPERTY DueIsDispatched
CHECK_DEADLOCK FALSE
