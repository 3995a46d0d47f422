\* Two workers, two producers, room for one task, started twice.
SPECIFICATION FairSpec
CONSTANTS
    ThreadNum = 2
    Producers = {p1, p2}
    MaxSize = 1
    MaxRuns = 2
    MaxStarts = 2
CHECK_DEADLOCK FALSE
INVARIANTS
    IInv
PROPERTIES
    TasksEndWithStop
    WakeupsArrive
