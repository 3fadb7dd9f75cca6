\* Three clients, two slots, TLS or h2c listener, handlers that may block.
CONSTANTS
    c1 = c1
    c2 = c2
    c3 = c3
    Conns <- ThreeConns
    MaxConns = 2
    Opening = TRUE
    MayBlock <- ThreeConns
    MaxRequests = 1
    MayFail = TRUE
    HeaderLimit = TRUE
    DrainLimit = TRUE
SPECIFICATION Spec
SYMMETRY Symmetry
INVARIANTS
    TypeOK
    SlotConservation
    OpenWithinCap
    OwnersTracked
PROPERTIES
    OnlyStuckLeft
    RequestsNotCut
    ImplementsContract
CHECK_DEADLOCK FALSE
