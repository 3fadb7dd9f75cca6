\* Three routes anywhere in the trie, and beside it two routes in groups and the
\* document of two routes (Explored); no layers.
CONSTANTS
    None = None
    Capture = Capture
    Plain <- PlainTexts
    Encoded <- EncodedTexts
    Malformed <- MalformedTexts
    Decode <- Decoding
    MaxCaptures = 2
    Methods = {"GET", "POST"}
    Requested = {"GET"}
    Templates <- AllTemplates
    Prefixed <- LayerPrefixes
    Paths <- FewPaths
    Probes <- TriePaths
    DocPaths <- GeneratedAt
    Schemes = {"s"}
    Tags = {"t", "u"}
    MaxRoutes = 3
    MaxLayers = 0
    MaxNesting = 1
SPECIFICATION Spec
CONSTRAINT Explored
INVARIANTS
    BestMatch
    RoutesReachable
    DocumentFresh
\* build() may fail, and then there is nothing left to do.
CHECK_DEADLOCK FALSE
