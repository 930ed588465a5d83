SPECIFICATION Spec
CONSTANTS
    o1 = o1
    o2 = o2
    p1 = p1
    p2 = p2
    c1 = c1
    Orders = {o1, o2}
    Products = {p1, p2}
    Customers = {c1}
    Owner <- MCOwner
    Demo = {}
    InitOnHand <- MCInitOnHand
    InitBalance <- MCInitBalance
    EarnAmount = 1
    MaxQty = 1
    MaxCash = 1
    MaxOnHand = 2
    CouponLimits = {1}
    NoLimit = NoLimit
    BatchDeltas <- MCBatchDeltas
    MaxPending = 1
    MaxBatches = 1
SYMMETRY Symmetry
CONSTRAINT OneQuestion
INVARIANTS
    TypeOK
    CouponCountsOrders
    CashbackConserved
    ReservedMatchesOpenOrders
    NeverOversold
PROPERTIES
    CouponLimitRespected
