SPECIFICATION Spec
CONSTANTS
    MaxId = 4
    DedupReview = FALSE
    ManualCuration = FALSE
    MaxRows = 32
INVARIANTS
    NoCycle
    AcceptedStaysApplied
PROPERTIES
    RecordsAgree
    ReviewKeepsOne
    ResolvedOnce
CHECK_DEADLOCK FALSE
