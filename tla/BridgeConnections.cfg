\* Two connections and Close at every moment; a bridge may come to rest,
\* with every connection over.
SPECIFICATION FairSpec
CONSTANTS
    Conns = {c1, c2}
INVARIANTS
    IInv
    ClosedCarriesNothing
PROPERTIES
    CloseEndsEverything
    HangUpEndsBoth
    RefinesClosable
CHECK_DEADLOCK FALSE
