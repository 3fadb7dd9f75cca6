\* Any three of the layers around a route, an upload and a file.
CONSTANTS
    None = None
    Blocking = 2
    WholeFile = 2
    Tiny = 1
    Texts <- AllTexts
    Registered <- Layers
    Requests <- Arriving
    Origins <- CorsOrigins
    MethodLists <- CorsMethods
    HeaderLists = {}
    MaxLayers = 3
SPECIFICATION Spec
CONSTRAINT Explored
INVARIANTS
    HeadAgrees
    RightVariant
    
    NoWildcardCredentials
    RefusalExplained
