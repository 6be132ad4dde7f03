SPECIFICATION Spec
CONSTANTS
    MaxOps = 2
    MaxBoots = 0
PROPERTY
    ResetIsPerformed
CHECK_DEADLOCK FALSE
