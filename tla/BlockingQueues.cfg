\* Both queues: two threads put twice each, two take or poll; two places in the bounded queue.
SPECIFICATION FairSpec
CONSTANTS
    Putters = {p1, p2}
    Takers = {t1, t2}
    MaxPuts = 2
    MaxSize = 2
INVARIANTS
    IInv
PROPERTIES
    ElementsInOrder
    TakeReturns
    PutReturns
