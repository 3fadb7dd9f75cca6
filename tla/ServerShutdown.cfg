\* The shutdown deadline, with a handler that may block for ever and no idle timeouts.
CONSTANTS
    c1 = c1
    c2 = c2
    c3 = c3
    Conns <- TwoConns
    MaxConns = 1
    Opening = TRUE
    MayBlock <- FirstConn
    MaxRequests = 1
    MayFail = TRUE
    HeaderLimit = FALSE
    DrainLimit = TRUE
SPECIFICATION LiveSpec
PROPERTIES
    ShutdownReturns
    LeftoversEnd
CHECK_DEADLOCK FALSE
