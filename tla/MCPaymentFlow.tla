--------------------------- MODULE MCPaymentFlow ---------------------------
(* Instances of PaymentFlow for TLC. *)
EXTENDS PaymentFlow, TLC

CONSTANTS w1, w2, s1

\* One attempt to pay is checked with all that can happen to it.  Once there
\* are more, what one attempt shows is left out: customers and administrators
\* who cancel, refunds made at the provider or in the panel, fulfilment,
\* notifications repeated without need, an expiry job that dies, a second
\* webhook at the same time, an expiry job that meets a webhook.  Stray
\* charges touch no payment: they are left alone in a behavior that opens one.
\* An orphan row of a payment's own charge, and a discrepancy that was not
\* written, are looked at with one attempt and one webhook at a time.
Attempts == Payments \ HasStatus("none")

OneWebhook == \E w \in Workers : \A h \in (Workers \cup {"admin"}) \ {w} : handler[h] = Idle

NoWebhookMeetsExpiry == expiry.pc = "idle" \/ \A h \in Handlers : handler[h] = Idle

NoStrays == \A c \in Strays :
    /\ charge[c] = "pending" /\ orphans[c] = NoOrphan /\ c \notin notices
    /\ \A w \in Workers : handler[w].charge # c

Mishap ==
    \/ unflagged # {}
    \/ \E p \in Payments : \/ orphans[p] # NoOrphan
                            \/ \E w \in Workers : /\ handler[w].charge = p
                                                   /\ handler[w].pc \in {"orphaned", "report"}

Calm ==
    /\ \A c \in Charges : charge'[c] # "refunded"
    /\ ~CustomerCancels /\ ~ExpiryDies
    /\ \A c \in Charges : ~NotifyAgain(c)
    /\ \A to \in FulfillTargets : ~Fulfill(to)

CalmWhenMany ==
    /\ Attempts' # {} => NoStrays'
    /\ Cardinality(Attempts') > 1 => Calm /\ OneWebhook' /\ NoWebhookMeetsExpiry'
    /\ Mishap' => OneWebhook' /\ Cardinality(Attempts') < 2

Symmetry == Permutations(Workers)
============================================================================
