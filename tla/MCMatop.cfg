SPECIFICATION Spec
CONSTANTS
    Main = main
    Apps = {a1}
    Handles = {h1, h2}
    IdMod = 3
    MaxConnects = 2
INVARIANTS
    TypeOK
    ListIsLive
    NoneForgotten
    OwnAnswer
PROPERTIES
    RequestResolved
    OneOutcome
CHECK_DEADLOCK FALSE
