SPECIFICATION Spec
CONSTANTS
    MaxId = 3
    DedupReview = TRUE
    ManualCuration = TRUE
    MaxRows = 2
CONSTRAINT FewRows
INVARIANTS
    TypeOK
    PointerMeansSuperseded
CHECK_DEADLOCK FALSE
