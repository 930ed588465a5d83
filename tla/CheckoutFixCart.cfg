SPECIFICATION CheckoutSpec
CONSTANTS
    Requests = {r1, r2}
    IdemKeys = {k1}
    Bodies = {b1}
    Contents = {c1, c2}
    Absent = Absent
CHECK_DEADLOCK FALSE
INVARIANTS
    FixedCartIsAccepted
