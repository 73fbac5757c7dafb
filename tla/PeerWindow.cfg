SPECIFICATION FairSpec
CONSTANTS
    Devices = {d1}
    Refreshers = {r1, r2}
    None = None
    Faults = TRUE
INVARIANTS
    TypeOK
    OneRefresher
PROPERTIES
    RefresherEnds
    WindowCatchesUp
CHECK_DEADLOCK FALSE
