\* Two groups and three nodes, so that an older node is told from the one
\* before; every failure, and changes from outside at every moment.
SPECIFICATION Spec
CONSTANTS
    Groups = {g1, g2}
    Nodes = {n1, n2, n3}
    Endpoints = {e1, e2}
    None = None
    Faults = TRUE
SYMMETRY Symmetry
INVARIANTS
    IInv
    FailedApplyUndone
    RestoreGoesBack
PROPERTIES
    OnlyTheChosenGroup
