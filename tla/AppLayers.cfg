\* Routes and layers, in nested groups or not, and requests through them.
CONSTANTS
    None = None
    Capture = Capture
    Plain <- PlainTexts
    Encoded <- EncodedTexts
    Malformed <- MalformedTexts
    Decode <- Decoding
    MaxCaptures = 2
    Methods = {"GET"}
    Requested = {"HEAD"}
    Templates <- LayerTemplates
    Prefixed <- LayerPrefixes
    Paths <- LayerPaths
    Probes = {}
    DocPaths = {}
    Schemes = {}
    Tags = {}
    MaxRoutes = 2
    MaxLayers = 2
    MaxNesting = 2
SPECIFICATION Spec
INVARIANTS
    LayersRun
    LayersPlaced
    PrefixesSeeDecoded
\* build() may fail, and then there is nothing left to do.
CHECK_DEADLOCK FALSE
