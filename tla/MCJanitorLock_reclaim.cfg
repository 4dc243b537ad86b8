SPECIFICATION Spec
CONSTANTS
    p1 = p1
    p2 = p2
    p3 = p3
    Procs = {p1, p2, p3}
    NoOwner = NoOwner
    HostOf <- MCOneHost
    ShortLived = {p1, p2, p3}
    MaxAge = 0
    MaxCrashes = 0
INVARIANT MutualExclusion
