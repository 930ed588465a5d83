SPECIFICATION Spec
CONSTANTS
    w1 = w1
    s1 = s1
    w2 = w2
    UniqueExternalId = TRUE
    Strays = {s1}
    MaxPayments = 1
    Workers = {w1, w2}
    FulfillTargets = {}
CHECK_DEADLOCK FALSE
SYMMETRY Symmetry
INVARIANTS
    OrphanStaysCritical
