\* One slot, handlers that finish, no deadline and no timeouts.
CONSTANTS
    c1 = c1
    c2 = c2
    c3 = c3
    Conns <- TwoConns
    MaxConns = 1
    Opening = TRUE
    MayBlock = {}
    MaxRequests = 2
    MayFail = FALSE
    HeaderLimit = FALSE
    DrainLimit = FALSE
SPECIFICATION OrderlySpec
PROPERTIES
    OrderlyStop
    BacklogAdmitted
CHECK_DEADLOCK FALSE
