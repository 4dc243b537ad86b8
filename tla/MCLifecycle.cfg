SPECIFICATION FairSpec
CONSTANTS
    m1 = m1
    m2 = m2
    h1 = h1
    Memories = {m1, m2}
    Low = {m1, m2}
    Permanent = {}
    Private = {}
    Anchored = {m1}
    Hooks = {h1}
    FirmAt = 2
    BatchSize = 1
    MaxUses = 2
    MaxEdits = 1
INVARIANT TypeOK
PROPERTIES
    EvictsOnlyCondemned
    NeglectEnds
    DeadMoved
CHECK_DEADLOCK FALSE
