\* Three threads.
SPECIFICATION FairPoolSpec
CONSTANTS
    N = 3
CHECK_DEADLOCK FALSE
INVARIANTS
    PoolIInv
PROPERTIES
    StartReturns
    PairedDestructorReturns
