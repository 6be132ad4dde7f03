SPECIFICATION Spec
CONSTANTS
    TableSize = 2
    WorkqLen = 1
    MaxEvents = 1
INVARIANTS
    TypeOK
    NotStranded
    StatusTrue
