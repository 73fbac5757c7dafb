\* One caller, nothing fails: pair at two addresses, then remove.
SPECIFICATION Spec
CONSTANTS
    Callers = {c1}
    Devices = {d1}
    Alike = {}
    Labels <- SanitizedParts
    Label <- Sanitized
    IPs = {ip1, ip2}
    NoCaller = NoCaller
    NoIP = NoIP
    Faults = FALSE
INVARIANTS
    RemovalRevokesEverything
