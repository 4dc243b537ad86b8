SPECIFICATION Spec
CONSTANTS
    p1 = p1
    f1 = f1
    f2 = f2
    c1 = c1
    c2 = c2
    Projects = {p1}
    Facts = {f1, f2}
    Callers = {c1, c2}
    NoOne = NoOne
    NoKey = NoKey
    MaxReview = 3
    MaxCrashes = 1
SYMMETRY Symmetry
CHECK_DEADLOCK FALSE
INVARIANTS
    LedgerAgrees
    NoSupersessionCycle
PROPERTIES
    VerdictsFinal
    ImplementsFacts
