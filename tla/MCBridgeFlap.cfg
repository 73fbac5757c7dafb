\* Does a bridge stay while its port listens?
SPECIFICATION Spec
CONSTANTS
    Window = window
    Trays = {}
    UserOps = {"start"}
    Handlers = {}
    Pollers = {q1, q2}
    Ports = {80}
    Peers = {d1}
    Nobody = Nobody
    Faults = FALSE
PROPERTIES
    BridgeStaysWhilePortListens
