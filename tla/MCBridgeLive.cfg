\* A poller, the window and a connection under fairness; no symmetry.
SPECIFICATION FairSpec
CONSTANTS
    Window = window
    Trays = {}
    UserOps = {"start", "stop", "remove", "disable", "pair"}
    Handlers = {h}
    Pollers = {q1}
    Ports = {80}
    Peers = {d1}
    Nobody = Nobody
    Faults = FALSE
INVARIANTS
    IInv
    PausedMeansClosed
    StoppedMeansClosed
PROPERTIES
    StaleBridgesEnd
    PortsGetBridged
    ActionsEnd
