----------------------------- MODULE OrderMoney -----------------------------
(***************************************************************************)
(* What the shop promises about one order and the money paid for it,       *)
(* whatever the order of webhooks, jobs and clicks: the order counts as    *)
(* paid only once the provider holds money for it, it is refunded only     *)
(* once money went back, it moves along the status allowlist only, and     *)
(* money that was taken or returned is never forgotten.                    *)
(***************************************************************************)
EXTENDS OrderStatus

CONSTANT Charges        \* payments at the provider that name this order

VARIABLES
    order,      \* Order.status
    captured,   \* charges the provider approved, whatever became of them
    returned    \* charges the provider refunded

vars == <<order, captured, returned>>

Init == order = "awaiting_payment" /\ captured = {} /\ returned = {}

\* The provider's side: a charge is approved, an approved one is returned.
Capture(c) == c \notin captured /\ captured' = captured \cup {c} /\ UNCHANGED <<order, returned>>
Return(c) == c \in captured /\ returned' = returned \cup {c} /\ UNCHANGED <<order, captured>>

\* The shop's side.
Pay ==
    /\ order = "awaiting_payment" /\ captured # {}
    /\ order' = "paid"
    /\ UNCHANGED <<captured, returned>>

Cancel ==
    /\ order = "awaiting_payment"
    /\ order' = "cancelled"
    /\ UNCHANGED <<captured, returned>>

Fulfill(to) ==
    /\ to \in ADMIN_FULFILLMENT_TARGETS /\ canTransition(order, to)
    /\ order' = to
    /\ UNCHANGED <<captured, returned>>

Refund ==
    /\ isRefundAllowed(order) /\ returned # {}
    /\ order' = "refunded"
    /\ UNCHANGED <<captured, returned>>

Next ==
    \/ \E c \in Charges : Capture(c) \/ Return(c)
    \/ Pay \/ Cancel \/ Refund
    \/ \E to \in ADMIN_FULFILLMENT_TARGETS : Fulfill(to)

Spec == Init /\ [][Next]_vars
============================================================================
