SPECIFICATION Spec
CONSTANTS
    Others = {r1}
    MaxNested = 1
    Faults = FALSE
PROPERTIES
    PauseStands
CHECK_DEADLOCK FALSE
