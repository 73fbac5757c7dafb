\* The window and the tray, every moment of two pollers, every failure.
SPECIFICATION Spec
CONSTANTS
    Window = window
    Trays = {tray}
    UserOps = {"start", "stop", "enable", "disable"}
    Handlers = {}
    Pollers = {q1, q2}
    Ports = {80}
    Peers = {d1}
    Nobody = Nobody
    Faults = TRUE
SYMMETRY Symmetry
INVARIANTS
    IInv
    NoPollerLeaks
    PausedMeansClosed
    StoppedMeansClosed
