\* The README's promise about handlers at the deadline, HTTP/2 included.
CONSTANTS
    c1 = c1
    c2 = c2
    c3 = c3
    Conns <- TwoConns
    MaxConns = 1
    Opening = TRUE
    MayBlock = {}
    MaxRequests = 1
    MayFail = FALSE
    HeaderLimit = TRUE
    DrainLimit = TRUE
SPECIFICATION Spec
PROPERTIES
    HandlersEndWithCall
CHECK_DEADLOCK FALSE
