SPECIFICATION Spec
CONSTANTS
    o1 = o1
    o2 = o2
    p1 = p1
    p2 = p2
    c1 = c1
    Orders = {o1, o2}
    Products = {p1}
    Customers = {c1}
    Owner <- MCOwner
    Demo = {}
    InitOnHand <- MCInitOnHand
    InitBalance <- MCInitBalance
    EarnAmount = 0
    MaxQty = 1
    MaxCash = 0
    MaxOnHand = 3
    CouponLimits = {}
    NoLimit = NoLimit
    BatchDeltas <- MCBatchDeltas
    MaxPending = 0
    MaxBatches = 1
SYMMETRY Symmetry
INVARIANTS
    StockConserved
