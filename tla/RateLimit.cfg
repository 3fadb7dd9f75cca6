\* Two shards with caps 2 and 1 and four keys, hashed in every way while time
\* stands still; three of them in the first shard once it runs (Focus).
CONSTANTS
    k1 = k1
    k2 = k2
    k3 = k3
    k4 = k4
    w1 = w1
    w2 = w2
    Keys <- FourKeys
    Workers <- TwoWorkers
    Shards = 2
    MaxKeys = 3
    Burst = 1
    Interval = 2
    Second = 1
    MaxDelay = 1
    MaxTime = 4
SPECIFICATION Spec
CONSTRAINT Focus
SYMMETRY Symmetry
INVARIANTS
    TableBounded
    WithinRate
PROPERTIES
    RetryAfterHolds
CHECK_DEADLOCK FALSE
