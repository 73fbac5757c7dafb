\* Every action, every failure, leaving the program and starting it again.
SPECIFICATION Spec
CONSTANTS
    Peers = {p1}
    Endpoints = {e1, e2}
    Exits = {x1, x2}
    None = None
    Faults = TRUE
SYMMETRY Symmetry
INVARIANTS
    IInv
    WindowShowsTheRecord
    RecordedRouteStands
