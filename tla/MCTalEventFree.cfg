SPECIFICATION Spec
CONSTANTS
    e1 = e1
    sn = sn
    se = se
    so = so
    Threads = {a, b}
    Names = {e1}
    Subs = {sn, se, so}
    SubName <- MCSubName
    SubType <- MCSubType
    None = None
    MaxOps = 3
INVARIANT FreeSubscriberHasNoEvent
CHECK_DEADLOCK FALSE
