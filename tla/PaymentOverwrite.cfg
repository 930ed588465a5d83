SPECIFICATION Spec
CONSTANTS
    UniqueExternalId = TRUE
    Strays = {}
    MaxPayments = 1
    Workers = {w1}
    FulfillTargets = {}
CHECK_DEADLOCK FALSE
INVARIANTS
    PaidOrderHasPayment
