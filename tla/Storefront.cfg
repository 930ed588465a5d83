SPECIFICATION StorefrontSpec
CONSTANTS
    Requests = {v1, v2}
    IdemKeys = {k1, k2}
    Bodies = {w1, w2}
    Contents = {w1, w2}
    Absent = Absent
    CartIds = {u1, u2, u3}
    Adds = {d1}
    Merges = {v1, v2}
    MaxQty = 2
    MaxAsked = 2
    Asks = {v1, v2}
    Cancels = {x1}
    Erasures = {e1}
    CustomerOrders = {o1}
    MaxNow = 1
    Devices = {g1}
    Products = {p1, p2}
    FirstProduct = p1
    Ticks = {t1, t2}
    FirstTick = t1
    Day = 2
    Delay = 1
    MaxAge = 2
    ProductCap = 3
    MaxTick = 1
    Batch = 2
    Mishaps = TRUE
    Phones = {w1, w2}
    Dispatchers = {v1, v2}
    PushBatch = 1
SYMMETRY Symmetry
CHECK_DEADLOCK FALSE
INVARIANTS
    RecordTellsTheOrder
    RetryFindsTheOrder
    ToldOfItsOwn
    NothingInvented
    OnePushPerVisit
    DayLimitKept
    CancelledIsQuiet
    OncePerPhone
PROPERTIES
    ImplementsOnceOnly
    AnsweredCancelIsHonoured
    ErasedOrdersAreOver
