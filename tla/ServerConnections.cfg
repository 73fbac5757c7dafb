\* Three connections, and Close at every moment from before Serve on; a server
\* may come to rest with every connection over.
SPECIFICATION FairSpec
CONSTANTS
    Conns = {c1, c2, c3}
INVARIANTS
    IInv
    ClosedHearsNobody
PROPERTIES
    NoLateAuthentication
    CloseEndsEverything
    RefinesClosable
CHECK_DEADLOCK FALSE
