\* The loop is started, used by its owner and another thread, stopped and destroyed.
SPECIFICATION FairThreadSpec
CONSTANTS
    Threads = {owner, user}
    Owner = owner
    Loop = loopThread
    Timers = {k1, k2}
    OneShots = {k1}
    MaxOps = 2
    MaxUses = 1
    LoopStops = TRUE
CHECK_DEADLOCK FALSE
INVARIANTS
    ThreadIInv
    
    NothingIsLost
PROPERTIES
    AsyncsInOrder
    SentRuns
    StopEnds
    DestructorReturns
