\* Three connections on a wheel of three buckets; its timer is fair.
SPECIFICATION FairSpec
CONSTANTS
    Conns = {c1, c2, c3}
    K = 3
INVARIANTS
    IInv
PROPERTIES
    TimerSpec
    SilentIsReportedInTime
