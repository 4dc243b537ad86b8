SPECIFICATION FairSpec
CONSTANTS
    m1 = m1
    m2 = m2
    h1 = h1
    Memories = {m1}
    Low = {m1}
    Permanent = {}
    Private = {}
    Anchored = {m1}
    Hooks = {h1}
    FirmAt = 2
    BatchSize = 2
    MaxUses = 2
    MaxEdits = 1
PROPERTIES
    FullyDecayedMoved
CHECK_DEADLOCK FALSE
