\* A client's connection; a thread sends, only the loop calls shutdown() and destroys the client.
SPECIFICATION FairSpec
CONSTANTS
    Threads = {t1}
    LoopThread = loop
    MaxSends = 1
    Closers = {loop}
    HasCloseCallback = FALSE
CHECK_DEADLOCK FALSE
INVARIANTS
    NothingIsLate
    CloseWaitCanSend
PROPERTIES
    DestroyedIsClosed
    RequestsEnd
