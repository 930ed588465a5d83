------------------------------- MODULE MCMoney -------------------------------
(* Instances for TLC of the two ways in which captured money leaves again,     *)
(* refunds and disputes: one of them at a time.  They meet in the transitions  *)
(* of financialState, which each module takes from the same table.             *)
EXTENDS RefundLedger, Disputes, TLC

CONSTANTS r1, r2, m1, a1, w1, d1, d2

VARIABLE part

moneyVars == <<part, vars, disputeVars>>

MoneyInit == part \in {"refunds", "disputes"} /\ Init /\ DisputesInit

\* A dispute that was decided and told ends; nothing else may stop.
DisputeIsOver ==
    /\ claim.status \in {"reimbursed", "settled"} /\ unread = {}
    /\ \A h \in DisputeHooks : hook[h].step = "idle"

MoneyNext ==
    /\ \/ part = "refunds" /\ Next /\ UNCHANGED disputeVars
       \/ part = "disputes" /\ DisputesNext /\ UNCHANGED vars
       \/ part = "disputes" /\ DisputeIsOver /\ UNCHANGED <<vars, disputeVars>>
    /\ UNCHANGED part

MoneySpec == MoneyInit /\ [][MoneyNext]_moneyVars

MoneySymmetry == Permutations(Refunds) \cup Permutations(DisputeHooks)
==============================================================================
