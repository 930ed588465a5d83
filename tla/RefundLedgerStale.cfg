SPECIFICATION Spec
CONSTANTS
    r1 = r1
    r2 = r2
    m1 = m1
    a1 = a1
    a2 = a2
    w1 = w1
    Refunds = {r1}
    Panel = {m1}
    Clerks = {a1}
    Hooks = {w1}
    Paid = 4
    Answers = {"approved"}
PROPERTIES
    LedgerCatchesUp
