SPECIFICATION Spec
CONSTANTS
    pair = pair
    info = info
    Frames = {pair, info}
    FrameLen <- MCLen
    FrameSn <- MCSn
    FrameKind <- MCKind
    Plain = {pair}
    Sealed = {info}
    AirFrameMax = 3
    QueueLen = 2
    MaxConns = 2
    MaxRaw = 3
INVARIANTS
    TypeOK
    UnpairedIsTimed
    Discoverable
PROPERTY
    ImplementsFrameLink
CHECK_DEADLOCK FALSE
