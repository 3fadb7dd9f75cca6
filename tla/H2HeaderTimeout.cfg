\* One idle connection is enough to show it.
CONSTANTS
    s1 = s1
    s2 = s2
    Streams <- TwoStreams
    TickPeriod = 1
    StallLimit = 2
    IdleLimit = 2
    Grace = 1
    MaxTime = 5
SPECIFICATION Spec
SYMMETRY Symmetry
PROPERTIES
    HeaderTimeoutSparesH2
CHECK_DEADLOCK FALSE
