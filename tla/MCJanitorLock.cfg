SPECIFICATION FairSpec
CONSTANTS
    p1 = p1
    p2 = p2
    p3 = p3
    Procs = {p1, p2, p3}
    NoOwner = NoOwner
    HostOf <- MCTwoHosts
    ShortLived = {p1, p2}
    MaxAge = 2
    MaxCrashes = 2
INVARIANTS
    TypeOK
PROPERTIES
    ImplementsLease
    AbandonedIsReclaimed
