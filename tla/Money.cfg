SPECIFICATION MoneySpec
CONSTANTS
    r1 = r1
    r2 = r2
    m1 = m1
    a1 = a1
    w1 = w1
    d1 = d1
    d2 = d2
    Refunds = {r1, r2}
    Panel = {m1}
    Clerks = {a1}
    Hooks = {w1}
    Paid = 3
    Answers = {"approved", "in_process", "lost"}
    DisputeHooks = {d1, d2}
    PanelRefunds = {m1}
    Amount = 2
SYMMETRY MoneySymmetry
INVARIANTS
    TypeOK
    DisputesTypeOK
    LedgerOnlyRealMoney
    LossIsRecorded
    DisputeIsSeen
PROPERTIES
    ImplementsMoneyBack
