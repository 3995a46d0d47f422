\* No pool or two loops; the main loop, both loops and an outsider may ask for all connections.
SPECIFICATION FairSpec
CONSTANTS
    PoolSizes = {0, 2}
    AcceptMax = 2
    Users = {0, 1, 2}
    MaxConns = 2
    MaxCalls = 1
CHECK_DEADLOCK FALSE
INVARIANTS
    IInv
PROPERTIES
    SnapshotIsRegular
    CallsReturn
    PostedIsServed
