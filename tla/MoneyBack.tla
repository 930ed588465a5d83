----------------------------- MODULE MoneyBack -----------------------------
(* What the ledger promises about the money of one payment that goes back,    *)
(* whoever asks for it and in whatever order it is heard of: the provider     *)
(* returns no more than was paid, the shop debits only what was returned and  *)
(* takes no debit back, and the payment is refunded, for good, only once all  *)
(* of it was returned.                                                        *)
EXTENDS Integers

CONSTANT Paid

VARIABLES
    returned,   \* by the provider
    debited,    \* in the shop's ledger
    refunded    \* the payment, at the shop

vars == <<returned, debited, refunded>>

Init == returned = 0 /\ debited = 0 /\ refunded = FALSE

Return ==
    /\ returned' \in returned + 1 .. Paid
    /\ UNCHANGED <<debited, refunded>>

\* One transaction may write debits and the payment's state.
Record ==
    /\ debited' \in debited .. returned
    /\ refunded' \in {refunded, returned = Paid}
    /\ UNCHANGED returned

Next == Record \/ Return

Spec == Init /\ [][Next]_vars
=============================================================================
