\* Two layers around a route and a file.
CONSTANTS
    None = None
    Blocking = 2
    WholeFile = 2
    Tiny = 1
    Texts <- AllTexts
    Registered <- SparingLayers
    Requests <- Arriving
    Origins <- CorsOrigins
    MethodLists <- CorsMethods
    HeaderLists = {}
    MaxLayers = 2
SPECIFICATION Spec
INVARIANT HeadAlwaysAgrees
