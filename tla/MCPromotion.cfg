SPECIFICATION FairSpec
CONSTANTS
    t1 = t1
    t2 = t2
    Texts = {t1, t2}
    None = None
    Gone = Gone
    MaxItem = 2
    MaxEdits = 2
    MaxCrashes = 1
INVARIANTS
    LinksHold
PROPERTIES
    NoRot
    EveryItemHandled
