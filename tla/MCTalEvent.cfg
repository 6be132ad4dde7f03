SPECIFICATION Spec
CONSTANTS
    e1 = e1
    sn = sn
    se = se
    so = so
    Threads = {a, b}
    Names = {e1}
    Subs = {sn, se, so}
    SubName <- MCSubName
    SubType <- MCSubType
    None = None
    MaxOps = 6
INVARIANTS
    TypeOK
    EmergencyAhead
    OneTimeOnce
    DispatchComplete
PROPERTY CallsReturn
CHECK_DEADLOCK FALSE
