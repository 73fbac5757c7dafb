\* Two calls at a time; three devices, two of them with one label, that may
\* share or swap two addresses; every failure, and a crash at every point.
SPECIFICATION Spec
CONSTANTS
    Callers = {c1, c2}
    Devices = {d1, d2, d3}
    Alike = {d1, d2}
    Labels <- SanitizedParts
    Label <- Sanitized
    IPs = {ip1, ip2}
    NoCaller = NoCaller
    NoIP = NoIP
    Faults = TRUE
SYMMETRY Symmetry
INVARIANTS
    TypeOK
    TrustedMeansOpen
    RemovedMeansForgotten
PROPERTIES
    RefinesRegistry
