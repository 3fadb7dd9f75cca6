\* Seven components, each with limits of two or three ticks or bytes.
CONSTANTS
    None = None
    Delay = 1
    MaxTime = 8
    Preface <- ShortPreface
    Symbols = {"P", "R", "I", "x"}
    HeaderLimit = 3
    MaxTyped = 4
    BodyLimit = 2
    ReadTimeout = 3
    MaxUpload = 4
    SendTimeout = 2
    HoldLimit = 2
    MaxRoom = 3
    MaxPayload = 2
    MaxFrames = 2
    Dir = Dir
    SmallFile = 2
    Second = 2
    MaxSize = 4
    MaxWrites = 3
    Period = 3
    MaxEvents = 2
    Bytes = {"r", "-", "b"}
    Delimiter <- CrDashDash
    Blank = "b"
    Limit = 2
    MaxChunk = 2
    MaxBody = 11
    Handshakes <- Asked
    Origins = {"app"}
    Spoken <- Ours
    IdleTimeout = 2
    CloseTime = 1
    MaxInbox = 2
SPECIFICATION StreamsSpec
INVARIANTS
    SniffExact
    UploadSettled
    ScannerExact
    StallExact
    NotModifiedIsFresh
    OneFile
    GapsMarked
    GuardHolds
    RefusedOnlyStuck
    OpenedRightly
    SessionReleased
\* Components stop at the end of a stream, or at a bound.
CHECK_DEADLOCK FALSE
