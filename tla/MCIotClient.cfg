SPECIFICATION Spec
CONSTANTS
    MaxOps = 3
    MaxBoots = 1
INVARIANTS
    TypeOK
    BootAgrees
    BindingIsThere
PROPERTIES
    SteadyRequestServed
    StartedMakesProgress
CHECK_DEADLOCK FALSE
