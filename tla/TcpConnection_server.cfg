\* A server's connection, used and shut down by its loop and by another thread, which send twice each.
SPECIFICATION Spec
CONSTANTS
    Threads = {t1}
    LoopThread = loop
    MaxSends = 2
    Closers = {loop, t1}
    HasCloseCallback = TRUE
CHECK_DEADLOCK FALSE
INVARIANTS
    IInv
    ReadCallbackFindsConn
    OnlyShutdownMayBeLate
PROPERTIES
    SendOrder
