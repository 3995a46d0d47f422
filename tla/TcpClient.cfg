\* Two connect(), up to three retries as by default; a millisecond has three microseconds.
SPECIFICATION FairSpec
CHECK_DEADLOCK FALSE
CONSTANTS
    MaxRetry = 3
    RetryDelay = 3
    Milli = 3
    MaxGap = 2
    MaxLag = 4
    MaxConnects = 2
INVARIANTS
    IInv
    AttemptsCounted
PROPERTIES
    RetriesAreSpaced
    ConnectEnds
