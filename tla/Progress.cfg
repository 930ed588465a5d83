SPECIFICATION ProgressSpec
CONSTANTS
    Replicas = {r1, r2}
    NoReplica = NoReplica
    Gone = Gone
    Ttl = 4
    ClockError = 1
    Grace = 2
    Calls = {c1, c2, c3, c4}
    MutexKeys = {k1, k2}
    Nobody = Nobody
    Devices = {d1}
    Products = {p1}
    Ticks = {t1}
    Day = 2
    Delay = 1
    MaxAge = 2
    ProductCap = 3
    MaxTick = 1
    Batch = 1
    Mishaps = TRUE
    UniqueExternalId = TRUE
    Strays = {}
    MaxPayments = 1
    Workers = {w1}
    FulfillTargets = {}
CHECK_DEADLOCK FALSE
INVARIANTS
    OverlapNeedsOverrunOrShutdown
    RunsInTurn
    MapDoesNotLeak
PROPERTIES
    LeaseIsTakenOver
    EveryCallRuns
    VisitsAreDecided
    CaptureResolves
    ItsReservationEnds
