SPECIFICATION Spec
CONSTANTS
    w1 = w1
    s1 = s1
    w2 = w2
    UniqueExternalId = TRUE
    Strays = {s1}
    MaxPayments = 2
    Workers = {w1, w2}
    FulfillTargets = {"organizing"}
CHECK_DEADLOCK FALSE
SYMMETRY Symmetry
ACTION_CONSTRAINT CalmWhenMany
INVARIANTS
    TypeOK
    CaptureIsAccounted
PROPERTIES
    ImplementsOrderMoney
