\* Two devices that may dial each other at once, two secrets, every failure;
\* servers start and stop.
SPECIFICATION FairSpec
CONSTANTS
    Devices = {d1, d2}
    Secrets = {k1, k2}
    Sessions = {s1, s2}
    None = None
    Faults = TRUE
INVARIANTS
    TypeOK
    Agreement
    SameSecretNeverRefused
PROPERTIES
    SessionsEnd
