\* stop() while a worker waits for a task.
SPECIFICATION FairSpec
CONSTANTS
    ThreadNum = 2
    Producers = {p1}
    MaxSize = 2
    MaxRuns = 2
    MaxStarts = 1
CHECK_DEADLOCK FALSE
PROPERTIES
    StopReturns
