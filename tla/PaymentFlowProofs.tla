------------------------- MODULE PaymentFlowProofs -------------------------
(***************************************************************************)
(* For any number of payments and of webhook workers, the order and the    *)
(* provider's money behave as OrderMoney promises, whatever the            *)
(* interleaving of webhooks, checkout, expiry, people and deaths.          *)
(*                                                                         *)
(* What makes it true: a handler only carries a status the charge has had, *)
(* and money moves forward (approved, then refunded), so what a handler    *)
(* saw can be late but never false.                                        *)
(***************************************************************************)
EXTENDS PaymentFlow, TLAPS

PaymentRow == [status : ChargeStatuses \cup {"expired"}, ext : Payments \cup {None}]
HandlerRow == [pc : HandlerSteps, charge : Charges \cup {None}, seen : ChargeStatuses,
               local : Payments \cup {None}, from : OrderStatuses \cup {"none"}]
IntentRow == [pc : {"idle", "validated", "opened", "charged", "refused", "failed"},
              p : Payments \cup {None}, answer : ChargeStatuses]
OrphanRow == [row : ChargeStatuses, alert : {"none", "LOW", "CRITICAL"}]
SweepRow == [pc : {"idle", "decided", "sweeping", "remote"}, remote : SUBSET Payments]

\* A status that was seen can be behind the charge's present one, not beyond.
Reflects(seen, now) ==
    /\ seen \in {"approved", "refunded"} => now \in {"approved", "refunded"}
    /\ seen = "refunded" => now = "refunded"

RowSawIt(r, charges) ==
    r.pc # "idle" =>
        /\ r.charge \in Charges
        /\ r.pc \notin {"fetched", "unbound", "orphaned", "report"} => r.charge \in Payments
        /\ Reflects(r.seen, charges[r.charge])
        /\ r.pc \in {"approve", "transition"} => r.seen = "approved"
        /\ r.pc \in {"refunding", "finalize"} => r.seen = "refunded"
        /\ r.pc = "close" => r.seen # "approved"

IntentSawIt(i, charges) ==
    /\ i.pc \in {"opened", "charged", "refused", "failed"} => i.p \in Payments
    /\ i.pc = "charged" => Reflects(i.answer, charges[i.p])

\* The strengthening.
FlowInv ==
    /\ TypeOK
    /\ \A h \in Handlers : RowSawIt(handler[h], charge)
    /\ IntentSawIt(intent, charge)

\* How a charge moves in a step.
Forward(now, next) ==
    \/ next = now
    \/ now \in {"none", "pending"}
    \/ now = "approved" /\ next = "refunded"

ChargesForward ==
    /\ charge' \in [Charges -> ChargeStatuses]
    /\ \A c \in Charges : Forward(charge[c], charge'[c])

----------------------------------------------------------------------------
LEMMA Rows ==
    TypeOK <=>
        /\ order \in OrderStatuses
        /\ deadline \in {"live", "expired", "grace_over"}
        /\ payment \in [Payments -> PaymentRow]
        /\ charge \in [Charges -> ChargeStatuses]
        /\ notices \subseteq Charges
        /\ handler \in [Handlers -> HandlerRow]
        /\ intent \in IntentRow
        /\ expiry \in SweepRow
        /\ flagged \subseteq Charges
        /\ unflagged \subseteq Charges
        /\ orphans \in [Charges -> OrphanRow]
BY DEF TypeOK, PaymentRow, HandlerRow, IntentRow, SweepRow, OrphanRow

LEMMA NoPayment == None \notin Payments
BY PaymentFlowAssumption DEF None, Payments

\* No payment row holds a stray charge.
LEMMA StraysApart ==
    /\ Payments \subseteq Charges
    /\ \A c \in Charges : c \in Payments \/ c \in Strays
    /\ \A c \in Strays : c \notin Payments \cup {None}
BY PaymentFlowAssumption DEF None, Payments, Charges

\* What was seen of a charge stays true while charges move forward.
LEMMA SawItForward ==
    ASSUME ChargesForward
    PROVE  /\ \A r \in HandlerRow : RowSawIt(r, charge) => RowSawIt(r, charge')
           /\ \A i \in IntentRow : IntentSawIt(i, charge) => IntentSawIt(i, charge')
<1>1. \A c \in Charges, s \in ChargeStatuses :
          Reflects(s, charge[c]) => Reflects(s, charge'[c])
    BY DEF ChargesForward, Forward, Reflects
<1>2. \A r \in HandlerRow : RowSawIt(r, charge) => RowSawIt(r, charge')
    BY <1>1 DEF HandlerRow, RowSawIt
<1>3. \A i \in IntentRow : IntentSawIt(i, charge) => IntentSawIt(i, charge')
    BY <1>1, StraysApart DEF IntentRow, IntentSawIt
<1>. QED
    BY <1>2, <1>3

\* The provider changes one charge.
LEMMA OneCharge ==
    ASSUME TypeOK, NEW c \in Charges, NEW s \in ChargeStatuses,
           ChargeBecomes(c, s), Forward(charge[c], s)
    PROVE  /\ ChargesForward
           /\ notices' \subseteq Charges
           /\ charge'[c] = s
BY DEF TypeOK, ChargeBecomes, ChargesForward, Forward

LEMMA NoCharge ==
    ASSUME TypeOK, UNCHANGED charge
    PROVE  ChargesForward
BY DEF TypeOK, ChargesForward, Forward

\* One handler moves, the others keep what they saw.
LEMMA OneHandler ==
    ASSUME FlowInv, ChargesForward, NEW h \in Handlers, NEW r \in HandlerRow,
           handler' = [handler EXCEPT ![h] = r], RowSawIt(r, charge')
    PROVE  /\ handler' \in [Handlers -> HandlerRow]
           /\ \A g \in Handlers : RowSawIt(handler'[g], charge')
<1>1. handler \in [Handlers -> HandlerRow]
    BY Rows DEF FlowInv
<1>2. handler' \in [Handlers -> HandlerRow]
    BY <1>1
<1>3. \A g \in Handlers : RowSawIt(handler[g], charge')
    BY <1>1, SawItForward DEF FlowInv
<1>4. \A g \in Handlers : handler'[g] = r \/ handler'[g] = handler[g]
    BY <1>1
<1>. QED
    BY <1>2, <1>3, <1>4

LEMMA NoHandler ==
    ASSUME FlowInv, ChargesForward, UNCHANGED handler
    PROVE  /\ handler' \in [Handlers -> HandlerRow]
           /\ \A g \in Handlers : RowSawIt(handler'[g], charge')
<1>1. handler \in [Handlers -> HandlerRow]
    BY Rows DEF FlowInv
<1>. QED
    BY <1>1, SawItForward DEF FlowInv

LEMMA NoIntentStep ==
    ASSUME FlowInv, ChargesForward, UNCHANGED intent
    PROVE  intent' \in IntentRow /\ IntentSawIt(intent', charge')
<1>1. intent \in IntentRow
    BY Rows DEF FlowInv
<1>. QED
    BY <1>1, SawItForward DEF FlowInv

LEMMA IdleRow ==
    /\ Idle \in HandlerRow /\ \A charges : RowSawIt(Idle, charges)
    /\ NoIntent \in IntentRow /\ \A charges : IntentSawIt(NoIntent, charges)
    /\ NoSweep \in SweepRow
BY DEF Idle, NoIntent, NoSweep, HandlerRow, IntentRow, SweepRow, RowSawIt, IntentSawIt,
       HandlerSteps, ChargeStatuses, None

LEMMA RowsNext ==
    TypeOK' <=>
        /\ order' \in OrderStatuses
        /\ deadline' \in {"live", "expired", "grace_over"}
        /\ payment' \in [Payments -> PaymentRow]
        /\ charge' \in [Charges -> ChargeStatuses]
        /\ notices' \subseteq Charges
        /\ handler' \in [Handlers -> HandlerRow]
        /\ intent' \in IntentRow
        /\ expiry' \in SweepRow
        /\ flagged' \subseteq Charges
        /\ unflagged' \subseteq Charges
        /\ orphans' \in [Charges -> OrphanRow]
BY DEF TypeOK, PaymentRow, HandlerRow, IntentRow, SweepRow, OrphanRow

----------------------------------------------------------------------------
(* The strengthening is inductive: one lemma per part of the system. *)

LEMMA FlowInit == Init => FlowInv
<1> SUFFICES ASSUME Init PROVE FlowInv
    OBVIOUS
<1>1. TypeOK
    BY IdleRow, Rows DEF Init, PaymentRow, OrphanRow, NoOrphan, ChargeStatuses, OrderStatuses
<1>2. /\ \A h \in Handlers : RowSawIt(handler[h], charge)
      /\ IntentSawIt(intent, charge)
    BY IdleRow DEF Init
<1>. QED
    BY <1>1, <1>2 DEF FlowInv

LEMMA ProviderKeeps ==
    ASSUME FlowInv, NEW c \in Charges,
           \/ NotifyAgain(c)
           \/ \E s \in {"approved", "refused", "cancelled", "refunded"} : ProviderMoves(c, s)
    PROVE  FlowInv'
<1>1. TypeOK
    BY DEF FlowInv
<1>2. ChargesForward /\ notices' \subseteq Charges
    <2>1. CASE NotifyAgain(c)
        BY <1>1, <2>1, NoCharge, Rows DEF NotifyAgain
    <2>2. CASE \E s \in {"approved", "refused", "cancelled", "refunded"} : ProviderMoves(c, s)
        <3>1. PICK s \in {"approved", "refused", "cancelled", "refunded"} : ProviderMoves(c, s)
            BY <2>2
        <3>2. s \in ChargeStatuses /\ ChargeBecomes(c, s) /\ Forward(charge[c], s)
            BY <3>1 DEF ProviderMoves, ChargeStatuses, Forward
        <3>. QED
            BY <1>1, <3>2, OneCharge
    <2>. QED
        BY <2>1, <2>2
<1>3. UNCHANGED <<order, deadline, payment, handler, intent, expiry, admin>>
    BY DEF NotifyAgain, ProviderMoves
<1>4. TypeOK'
    BY <1>1, <1>2, <1>3, Rows, RowsNext DEF ChargesForward, admin
<1>. QED
    BY <1>2, <1>3, <1>4, NoHandler, NoIntentStep DEF FlowInv

LEMMA PeopleKeep ==
    ASSUME FlowInv,
           TimePasses \/ CustomerCancels \/ \E to \in FulfillTargets : Fulfill(to)
    PROVE  FlowInv'
<1>1. TypeOK
    BY DEF FlowInv
<1>2. order' \in OrderStatuses /\ deadline' \in {"live", "expired", "grace_over"}
    <2>1. ADMIN_FULFILLMENT_TARGETS \subseteq OrderStatuses /\ "cancelled" \in OrderStatuses
        BY DEF ADMIN_FULFILLMENT_TARGETS, OrderStatuses
    <2>. QED
        BY <1>1, <2>1, PaymentFlowAssumption, Rows DEF TimePasses, CustomerCancels, Fulfill
<1>3. UNCHANGED <<payment, charge, notices, handler, intent, expiry, admin>>
    BY DEF TimePasses, CustomerCancels, Fulfill
<1>4. TypeOK' /\ ChargesForward
    BY <1>1, <1>2, <1>3, Rows, RowsNext, NoCharge DEF admin
<1>. QED
    BY <1>3, <1>4, NoHandler, NoIntentStep DEF FlowInv

LEMMA IntentKeeps ==
    ASSUME FlowInv, IntentSteps
    PROVE  FlowInv'
<1>1. TypeOK /\ intent \in IntentRow /\ IntentSawIt(intent, charge)
    BY Rows DEF FlowInv
<1>2. CASE BeginIntent
    <2>1. intent' \in IntentRow /\ IntentSawIt(intent', charge')
        BY <1>2, IdleRow DEF BeginIntent, IntentRow, IntentSawIt, NoIntent
    <2>2. UNCHANGED <<order, deadline, payment, charge, notices, handler, expiry, admin>>
        BY <1>2 DEF BeginIntent
    <2>3. TypeOK' /\ ChargesForward
        BY <1>1, <2>1, <2>2, Rows, RowsNext, NoCharge DEF admin
    <2>. QED
        BY <2>1, <2>2, <2>3, NoHandler DEF FlowInv
<1>3. CASE OpenPayment
    <2>1. UNCHANGED <<order, deadline, charge, notices, handler, expiry, admin>>
        BY <1>3 DEF OpenPayment
    <2>2. /\ payment' \in [Payments -> PaymentRow]
          /\ intent' = NoIntent \/ \E p \in Payments : intent' = [intent EXCEPT !.pc = "opened", !.p = p]
        <3>1. payment \in [Payments -> PaymentRow]
            BY <1>1, Rows
        <3>2. \A p \in Payments : [payment EXCEPT ![p].status = "pending"] \in [Payments -> PaymentRow]
            BY <3>1 DEF PaymentRow, ChargeStatuses
        <3>. QED
            BY <1>3, <3>1, <3>2 DEF OpenPayment, HasStatus
    <2>3. intent' \in IntentRow /\ IntentSawIt(intent', charge')
        BY <1>1, <2>2, IdleRow DEF IntentRow, IntentSawIt
    <2>4. TypeOK' /\ ChargesForward
        BY <1>1, <2>1, <2>2, <2>3, Rows, RowsNext, NoCharge DEF admin
    <2>. QED
        BY <2>1, <2>3, <2>4, NoHandler DEF FlowInv
<1>4. CASE CallProvider
    <2>1. UNCHANGED <<order, deadline, payment, handler, expiry, admin>>
        BY <1>4 DEF CallProvider
    <2>2. intent.p \in Payments
        BY <1>1, <1>4 DEF CallProvider, IntentSawIt
    <2>3. ChargesForward /\ notices' \subseteq Charges
        <3>1. CASE UNCHANGED <<charge, notices>>
            BY <1>1, <3>1, NoCharge, Rows
        <3>2. CASE /\ charge[intent.p] = "none"
                   /\ \E s \in {"pending", "approved", "refused"} : ChargeBecomes(intent.p, s)
            <4>1. PICK s \in {"pending", "approved", "refused"} : ChargeBecomes(intent.p, s)
                BY <3>2
            <4>2. s \in ChargeStatuses /\ Forward(charge[intent.p], s)
                BY <3>2 DEF ChargeStatuses, Forward
            <4>. QED
                BY <1>1, <2>2, <4>1, <4>2, OneCharge, StraysApart
        <3>. QED
            BY <1>4, <3>1, <3>2 DEF CallProvider
    <2>4. intent' \in IntentRow /\ IntentSawIt(intent', charge')
        <3>1. charge'[intent.p] \in ChargeStatuses
            BY <2>2, <2>3, StraysApart DEF ChargesForward
        <3>2. \/ intent' = [intent EXCEPT !.pc = "failed"]
              \/ intent' = [intent EXCEPT !.pc = "charged", !.answer = charge'[intent.p]]
            BY <1>4 DEF CallProvider
        <3>. QED
            BY <1>1, <2>2, <3>1, <3>2 DEF IntentRow, IntentSawIt, Reflects
    <2>5. TypeOK'
        BY <1>1, <2>1, <2>3, <2>4, Rows, RowsNext DEF ChargesForward, admin
    <2>. QED
        BY <2>1, <2>3, <2>4, <2>5, NoHandler DEF FlowInv
<1>5. CASE CloseFailedIntent \/ RefuseIntent \/ CheckoutDies
    <2>1. UNCHANGED <<order, deadline, charge, notices, handler, expiry, admin>> /\ intent' = NoIntent
        BY <1>5 DEF CloseFailedIntent, RefuseIntent, CheckoutDies
    <2>2. payment' \in [Payments -> PaymentRow]
        <3>1. payment \in [Payments -> PaymentRow]
            BY <1>1, Rows
        <3>2. \A s \in {"cancelled", "refused"} :
                  [payment EXCEPT ![intent.p].status = s] \in [Payments -> PaymentRow]
            BY <3>1 DEF PaymentRow, ChargeStatuses
        <3>. QED
            BY <1>5, <3>1, <3>2 DEF CloseFailedIntent, RefuseIntent, CheckoutDies
    <2>3. TypeOK' /\ ChargesForward
        BY <1>1, <2>1, <2>2, IdleRow, Rows, RowsNext, NoCharge DEF admin
    <2>. QED
        BY <2>1, <2>3, IdleRow, NoHandler DEF FlowInv
<1>6. CASE PersistIntent
    <2> DEFINE p == intent.p
    <2>1. p \in Payments /\ Reflects(intent.answer, charge[p])
        BY <1>1, <1>6 DEF PersistIntent, IntentSawIt
    <2>2. /\ UNCHANGED <<order, deadline, charge, notices, expiry, admin>>
          /\ intent' = NoIntent \/ intent' = [intent EXCEPT !.pc = "refused"]
        BY <1>6 DEF PersistIntent
    <2>7. intent' \in IntentRow /\ IntentSawIt(intent', charge')
        BY <1>1, <2>1, <2>2, IdleRow DEF IntentRow, IntentSawIt
    <2>3. ChargesForward
        BY <1>1, <2>2, NoCharge
    <2>4. payment' \in [Payments -> PaymentRow]
        <3>1. payment \in [Payments -> PaymentRow]
            BY <1>1, Rows
        <3>2. [status |-> IF intent.answer = "refused" THEN "refused" ELSE "pending", ext |-> p] \in PaymentRow
            BY <2>1 DEF PaymentRow, ChargeStatuses
        <3>. QED
            BY <1>6, <2>1, <3>1, <3>2 DEF PersistIntent
    <2>5. /\ handler' \in [Handlers -> HandlerRow]
          /\ \A g \in Handlers : RowSawIt(handler'[g], charge')
        <3>1. CASE UNCHANGED handler
            BY <2>3, <3>1, NoHandler
        <3>2. CASE /\ intent.answer = "approved"
                   /\ handler' = [handler EXCEPT !["checkout"] = Applying(p, "approved", p)]
            <4>1. Applying(p, "approved", p) \in HandlerRow
                BY <2>1, StraysApart DEF Applying, HandlerRow, HandlerSteps, ChargeStatuses
            <4>2. RowSawIt(Applying(p, "approved", p), charge')
                BY <2>1, <2>2, <3>2, StraysApart DEF Applying, RowSawIt, Reflects
            <4>3. "checkout" \in Handlers
                BY DEF Handlers
            <4>. QED
                BY <2>3, <3>2, <4>1, <4>2, <4>3, OneHandler
        <3>. QED
            BY <1>6, <3>1, <3>2 DEF PersistIntent
    <2>6. TypeOK'
        BY <1>1, <2>2, <2>4, <2>5, <2>7, Rows, RowsNext DEF admin
    <2>. QED
        BY <2>2, <2>5, <2>6, <2>7 DEF FlowInv
<1>7. CASE PersistFails
    <2>1. UNCHANGED <<order, deadline, payment, handler, expiry, admin>>
        BY <1>7 DEF PersistFails
    <2>2. intent.p \in Payments
        BY <1>1, <1>7 DEF PersistFails, IntentSawIt
    <2>3. ChargesForward /\ notices' \subseteq Charges
        <3>1. CASE UNCHANGED <<charge, notices>>
            BY <1>1, <3>1, NoCharge, Rows
        <3>2. CASE charge[intent.p] = "pending" /\ ChargeBecomes(intent.p, "cancelled")
            BY <1>1, <2>2, <3>2, OneCharge, StraysApart DEF Forward, ChargeStatuses
        <3>. QED
            BY <1>7, <3>1, <3>2 DEF PersistFails
    <2>4. intent' \in IntentRow /\ IntentSawIt(intent', charge')
        BY <1>1, <1>7, <2>2 DEF PersistFails, IntentRow, IntentSawIt
    <2>5. TypeOK'
        BY <1>1, <2>1, <2>3, <2>4, Rows, RowsNext DEF ChargesForward, admin
    <2>. QED
        BY <2>1, <2>3, <2>4, <2>5, NoHandler DEF FlowInv
<1>. QED
    BY <1>2, <1>3, <1>4, <1>5, <1>6, <1>7 DEF IntentSteps

LEMMA ExpiryKeeps ==
    ASSUME FlowInv, ExpirySteps
    PROVE  FlowInv'
<1>1. TypeOK /\ expiry \in SweepRow /\ payment \in [Payments -> PaymentRow]
    BY Rows DEF FlowInv
<1>2. ChargesForward /\ notices' \subseteq Charges
    <2>1. CASE UNCHANGED <<charge, notices>>
        BY <1>1, <2>1, NoCharge, Rows
    <2>2. CASE \E c \in expiry.remote : charge[c] = "pending" /\ ChargeBecomes(c, "cancelled")
        <3>1. PICK c \in expiry.remote : charge[c] = "pending" /\ ChargeBecomes(c, "cancelled")
            BY <2>2
        <3>2. c \in Charges
            BY <1>1, StraysApart DEF SweepRow
        <3>. QED
            BY <1>1, <3>1, <3>2, OneCharge DEF Forward, ChargeStatuses
    <2>. QED
        BY <2>1, <2>2
           DEF ExpirySteps, ReadExpired, ExpireOrder, ExpirePayments, CancelRemote, ExpiryDies
<1>3. UNCHANGED <<deadline, handler, intent, admin>>
    BY DEF ExpirySteps, ReadExpired, ExpireOrder, ExpirePayments, CancelRemote, ExpiryDies
<1>4. order' \in OrderStatuses
    <2>1. order' = order \/ order' = "cancelled"
        BY DEF ExpirySteps, ReadExpired, ExpireOrder, ExpirePayments, CancelRemote, ExpiryDies
    <2>. QED
        BY <1>1, <2>1, Rows DEF OrderStatuses
<1>5. payment' \in [Payments -> PaymentRow]
    <2>1. \A p \in Payments : payment[p] \in PaymentRow /\ [payment[p] EXCEPT !.status = "expired"] \in PaymentRow
        BY <1>1 DEF PaymentRow, ChargeStatuses
    <2>. QED
        BY <1>1, <2>1 DEF ExpirySteps, ReadExpired, ExpireOrder, ExpirePayments, CancelRemote, ExpiryDies
<1>6. expiry' \in SweepRow
    <2>1. ASSUME NEW s \in {"decided", "sweeping"} PROVE [expiry EXCEPT !.pc = s] \in SweepRow
        BY <1>1 DEF SweepRow
    <2>2. \A c : [expiry EXCEPT !.remote = @ \ {c}] \in SweepRow
        BY <1>1 DEF SweepRow
    <2>3. [pc |-> "remote", remote |-> { payment[p].ext : p \in HasStatus("pending") } \ {None}] \in SweepRow
        <3>1. \A p \in HasStatus("pending") : payment[p].ext \in Payments \cup {None}
            BY <1>1 DEF HasStatus, PaymentRow
        <3>. QED
            BY <3>1 DEF SweepRow
    <2>. QED
        BY <1>1, <2>1, <2>2, <2>3, IdleRow
           DEF ExpirySteps, ReadExpired, ExpireOrder, ExpirePayments, CancelRemote, ExpiryDies
<1>7. TypeOK'
    BY <1>1, <1>2, <1>3, <1>4, <1>5, <1>6, Rows, RowsNext DEF ChargesForward, admin
<1>. QED
    BY <1>2, <1>3, <1>7, NoHandler, NoIntentStep DEF FlowInv

LEMMA WebhookKeeps ==
    ASSUME FlowInv, NEW w \in Workers, WebhookSteps(w)
    PROVE  FlowInv'
<1>1. /\ TypeOK /\ payment \in [Payments -> PaymentRow] /\ handler \in [Handlers -> HandlerRow]
      /\ w \in Handlers /\ RowSawIt(handler[w], charge)
    BY Rows DEF FlowInv, Handlers
<1> DEFINE r == handler[w]
<1>2. r \in HandlerRow
    BY <1>1
<1>3. UNCHANGED <<order, deadline, charge, intent, expiry, flagged, unflagged>>
    BY DEF WebhookSteps, Fetch, Lookup, PickPayment, Link, RecordOrphan, ReportOrphan, admin
<1>4. ChargesForward
    BY <1>1, <1>3, NoCharge
<1>5. CASE \E c \in Charges : Fetch(w, c)
    <2>1. PICK c \in Charges : Fetch(w, c)
        BY <1>5
    <2> DEFINE next == [Idle EXCEPT !.pc = "fetched", !.charge = c, !.seen = charge[c]]
    <2>2. handler' = [handler EXCEPT ![w] = next] /\ UNCHANGED <<payment, notices, orphans>>
        BY <2>1 DEF Fetch, admin
    <2>3. next \in HandlerRow
        BY <1>1, Rows DEF Idle, HandlerRow, HandlerSteps, ChargeStatuses, None
    <2>4. RowSawIt(next, charge')
        BY <1>3 DEF Idle, RowSawIt, Reflects
    <2>. HIDE DEF next
    <2>5. /\ handler' \in [Handlers -> HandlerRow]
          /\ \A g \in Handlers : RowSawIt(handler'[g], charge')
        BY <1>1, <1>4, <2>2, <2>3, <2>4, OneHandler
    <2>6. TypeOK'
        BY <1>1, <1>3, <2>2, <2>5, Rows, RowsNext
    <2>. QED
        BY <1>3, <1>4, <2>5, <2>6, NoIntentStep DEF FlowInv
<1>6. CASE Lookup(w) \/ PickPayment(w)
    <2>1. UNCHANGED <<payment, notices, orphans>>
        BY <1>6 DEF Lookup, PickPayment, admin
    <2>2. PICK q \in Payments \cup {None}, s \in {"resolved", "unbound", "linking", "orphaned"} :
              /\ handler' = [handler EXCEPT ![w] = [r EXCEPT !.pc = s, !.local = q]]
              /\ s \notin {"unbound", "orphaned"} => r.charge \in Payments
        <3>0. r.charge \in Charges
            BY <1>1, <1>6 DEF Lookup, PickPayment, RowSawIt
        <3>1. CASE \E q \in Bound(r.charge) :
                       handler' = [handler EXCEPT ![w].pc = "resolved", ![w].local = q]
            <4>1. \A q \in Bound(r.charge) : q \in Payments /\ r.charge \in Payments \cup {None}
                BY <1>1 DEF Bound, PaymentRow
            <4>. QED
                BY <1>1, <3>0, <3>1, <4>1, StraysApart
        <3>2. CASE /\ r.charge \notin Strays
                   /\ \E q \in Linkable :
                       handler' = [handler EXCEPT ![w].pc = "linking", ![w].local = q]
            <4>1. Linkable \subseteq Payments
                BY DEF Linkable, Unbound, Bound
            <4>. QED
                BY <1>1, <3>0, <3>2, <4>1, StraysApart
        <3>3. ASSUME NEW s \in {"unbound", "orphaned"}, handler' = [handler EXCEPT ![w].pc = s]
              PROVE  \E q \in Payments \cup {None} :
                         handler' = [handler EXCEPT ![w] = [r EXCEPT !.pc = s, !.local = q]]
            <4>1. [r EXCEPT !.pc = s] = [r EXCEPT !.pc = s, !.local = r.local]
                BY <1>2 DEF HandlerRow
            <4>2. r.local \in Payments \cup {None}
                BY <1>2 DEF HandlerRow
            <4>. QED
                BY <1>1, <3>3, <4>1, <4>2
        <3>. QED
            BY <1>6, <3>1, <3>2, <3>3 DEF Lookup, PickPayment
    <2> DEFINE next == [r EXCEPT !.pc = s, !.local = q]
    <2>3. next \in HandlerRow
        BY <1>2 DEF HandlerRow, HandlerSteps
    <2>4. RowSawIt(next, charge')
        <3>1. r.pc # "idle"
            BY <1>6 DEF Lookup, PickPayment
        <3>2. /\ next.pc = s /\ next.charge = r.charge /\ next.seen = r.seen
            BY <1>2 DEF HandlerRow
        <3>. QED
            BY <1>1, <1>3, <2>2, <3>1, <3>2 DEF RowSawIt
    <2>. HIDE DEF next
    <2>5. /\ handler' \in [Handlers -> HandlerRow]
          /\ \A g \in Handlers : RowSawIt(handler'[g], charge')
        BY <1>1, <1>4, <2>2, <2>3, <2>4, OneHandler DEF next
    <2>6. TypeOK'
        BY <1>1, <1>3, <2>1, <2>5, Rows, RowsNext
    <2>. QED
        BY <1>3, <1>4, <2>5, <2>6, NoIntentStep DEF FlowInv
<1>7. CASE Link(w)
    <2> DEFINE next == [r EXCEPT !.pc = "resolved"]
    <2>1. /\ r.pc = "linking" /\ r.charge \in Payments
          /\ \/ handler' = [handler EXCEPT ![w] = next]
             \/ handler' = [handler EXCEPT ![w] = Idle]
          /\ UNCHANGED <<notices, orphans>>
        BY <1>1, <1>7 DEF Link, RowSawIt, admin
    <2>2. payment' \in [Payments -> PaymentRow]
        BY <1>1, <1>7, <2>1 DEF Link, PaymentRow
    <2>3. next \in HandlerRow
        BY <1>2 DEF HandlerRow, HandlerSteps
    <2>4. RowSawIt(next, charge')
        <3>1. /\ next.pc = "resolved" /\ next.charge = r.charge /\ next.seen = r.seen
            BY <1>2 DEF HandlerRow
        <3>. QED
            BY <1>1, <1>3, <2>1, <3>1 DEF RowSawIt
    <2>. HIDE DEF next
    <2>5. /\ handler' \in [Handlers -> HandlerRow]
          /\ \A g \in Handlers : RowSawIt(handler'[g], charge')
        BY <1>1, <1>4, <2>1, <2>3, <2>4, IdleRow, OneHandler
    <2>6. TypeOK'
        BY <1>1, <1>3, <2>1, <2>2, <2>5, Rows, RowsNext
    <2>. QED
        BY <1>3, <1>4, <2>5, <2>6, NoIntentStep DEF FlowInv
<1>8. CASE RecordOrphan(w)
    <2> DEFINE next == [r EXCEPT !.pc = "report"]
    <2>1. /\ handler' = [handler EXCEPT ![w] = next] /\ notices' \subseteq Charges
          /\ UNCHANGED payment /\ r.pc = "orphaned"
        BY <1>1, <1>8, Rows DEF RecordOrphan, Answered
    <2>2. orphans' \in [Charges -> OrphanRow]
        <3>1. r.seen \in ChargeStatuses /\ orphans \in [Charges -> OrphanRow]
            BY <1>1, <1>2, Rows DEF HandlerRow
        <3>. QED
            BY <1>8, <3>1 DEF RecordOrphan, OrphanRow
    <2>3. next \in HandlerRow /\ next.pc = "report" /\ next.charge = r.charge /\ next.seen = r.seen
        BY <1>2 DEF HandlerRow, HandlerSteps
    <2>4. RowSawIt(next, charge')
        BY <1>1, <1>3, <2>1, <2>3 DEF RowSawIt
    <2>. HIDE DEF next
    <2>5. /\ handler' \in [Handlers -> HandlerRow]
          /\ \A g \in Handlers : RowSawIt(handler'[g], charge')
        BY <1>1, <1>4, <2>1, <2>3, <2>4, OneHandler
    <2>6. TypeOK'
        BY <1>1, <1>3, <2>1, <2>2, <2>5, Rows, RowsNext
    <2>. QED
        BY <1>3, <1>4, <2>5, <2>6, NoIntentStep DEF FlowInv
<1>9. CASE ReportOrphan(w)
    <2>1. handler' = [handler EXCEPT ![w] = Idle] /\ UNCHANGED <<payment, notices>>
        BY <1>9 DEF ReportOrphan
    <2>2. orphans' \in [Charges -> OrphanRow]
        <3>1. orphans \in [Charges -> OrphanRow]
            BY <1>1, Rows
        <3>. QED
            BY <1>9, <3>1 DEF ReportOrphan, OrphanRow
    <2>3. /\ handler' \in [Handlers -> HandlerRow]
          /\ \A g \in Handlers : RowSawIt(handler'[g], charge')
        BY <1>1, <1>4, <2>1, IdleRow, OneHandler
    <2>4. TypeOK'
        BY <1>1, <1>3, <2>1, <2>2, <2>3, Rows, RowsNext
    <2>. QED
        BY <1>3, <1>4, <2>3, <2>4, NoIntentStep DEF FlowInv
<1>. QED
    BY <1>5, <1>6, <1>7, <1>8, <1>9 DEF WebhookSteps

\* The branch names the statuses of the steps that follow it.
LEMMA BranchFacts ==
    ASSUME NEW seen, NEW pay, NEW ord
    PROVE  /\ Branch(seen, pay, ord) \in {"forbid", "orphan", "approve", "close", "refunding", "answer"}
           /\ Branch(seen, pay, ord) = "approve" => seen = "approved"
           /\ Branch(seen, pay, ord) = "refunding" => seen = "refunded"
           /\ Branch(seen, pay, ord) = "close" => seen # "approved"
           /\ Branch(seen, pay, ord) = "answer" /\ seen = "approved" => ord \notin Unpaid
BY DEF Branch, Unpaid

\* Handler h goes on to a step of the same run of applyProviderStatus.
LEMMA SameRun ==
    ASSUME FlowInv, NEW h \in Handlers, handler[h].pc # "idle",
           handler[h].charge \in Payments, ChargesForward, NEW s \in HandlerSteps,
           s \in {"approve", "transition"} => handler[h].seen = "approved",
           s \in {"refunding", "finalize"} => handler[h].seen = "refunded",
           s = "close" => handler[h].seen # "approved",
           \/ handler' = [handler EXCEPT ![h].pc = s]
           \/ \E from \in OrderStatuses : handler' = [handler EXCEPT ![h].pc = s, ![h].from = from]
    PROVE  /\ handler' \in [Handlers -> HandlerRow]
           /\ \A g \in Handlers : RowSawIt(handler'[g], charge')
<1> DEFINE r == handler[h]
           next(from) == [r EXCEPT !.pc = s, !.from = from]
<1>1. r \in HandlerRow /\ RowSawIt(r, charge') /\ handler \in [Handlers -> HandlerRow]
    BY Rows, SawItForward DEF FlowInv
<1>2. PICK from \in OrderStatuses \cup {"none"} : handler' = [handler EXCEPT ![h] = next(from)]
    <2>1. r.from \in OrderStatuses \cup {"none"} /\ [r EXCEPT !.pc = s] = next(r.from)
        BY <1>1 DEF HandlerRow
    <2>. QED
        BY <1>1, <2>1
<1>3. next(from) \in HandlerRow
    BY <1>1 DEF HandlerRow
<1>4. next(from).pc = s /\ next(from).charge = r.charge /\ next(from).seen = r.seen
    BY <1>1 DEF HandlerRow
<1>5. RowSawIt(next(from), charge')
    BY <1>1, <1>4 DEF RowSawIt
<1>. HIDE DEF next
<1>. QED
    BY <1>2, <1>3, <1>5, OneHandler

\* Handler h is done, or has died.
LEMMA RunEnds ==
    ASSUME FlowInv, NEW h \in Handlers, UNCHANGED charge,
           Done(h) \/ (handler' = [handler EXCEPT ![h] = Idle] /\ UNCHANGED notices)
    PROVE  /\ handler' \in [Handlers -> HandlerRow]
           /\ \A g \in Handlers : RowSawIt(handler'[g], charge')
           /\ notices' \subseteq Charges
<1>1. ChargesForward /\ notices \subseteq Charges
    BY NoCharge, Rows DEF FlowInv
<1>2. handler' = [handler EXCEPT ![h] = Idle] /\ notices' \subseteq notices
    BY DEF Done, Answered
<1>. QED
    BY <1>1, <1>2, IdleRow, OneHandler

LEMMA ApplyKeeps ==
    ASSUME FlowInv, NEW h \in Handlers, ApplySteps(h) \/ HandlerDies(h)
    PROVE  FlowInv'
<1> DEFINE r == handler[h]
<1>1. /\ TypeOK /\ payment \in [Payments -> PaymentRow] /\ order \in OrderStatuses
      /\ r \in HandlerRow /\ RowSawIt(r, charge) /\ notices \subseteq Charges
      /\ flagged \subseteq Charges /\ unflagged \subseteq Charges
    BY Rows DEF FlowInv
<1>2. UNCHANGED <<deadline, intent, expiry, orphans>>
    BY DEF ApplySteps, HandlerDies, ReadLocal, AnswerOnly, Forbid, ClosePayment, Approve,
           TransitionToPaid, ApproveOrphan, Compensate, FlagApprovedAfterCancel, ReadForRefund,
           FinalizeRefund, admin
<1>3. r.pc # "idle" /\ r.charge \in Charges /\ (ApplySteps(h) => r.charge \in Payments)
    BY <1>1 DEF ApplySteps, HandlerDies, ReadLocal, AnswerOnly, Forbid, ClosePayment, Approve,
           TransitionToPaid, ApproveOrphan, Compensate, FlagApprovedAfterCancel, ReadForRefund,
           FinalizeRefund, RowSawIt
\* What is left to show of each step.
<1> DEFINE Keeps == /\ ChargesForward /\ notices' \subseteq Charges
                    /\ order' \in OrderStatuses /\ payment' \in [Payments -> PaymentRow]
                    /\ flagged' \subseteq Charges /\ unflagged' \subseteq Charges
                    /\ handler' \in [Handlers -> HandlerRow]
                    /\ \A g \in Handlers : RowSawIt(handler'[g], charge')
<1>4. ASSUME Keeps PROVE FlowInv'
    <2>1. TypeOK'
        BY <1>1, <1>2, <1>4, Rows, RowsNext DEF ChargesForward
    <2>. QED
        BY <1>2, <1>4, <2>1, NoIntentStep DEF FlowInv
<1>5. CASE ReadLocal(h)
    <2> DEFINE s == Branch(r.seen, payment[r.local].status, order)
    <2>1. /\ handler' = [handler EXCEPT ![h].pc = s]
          /\ UNCHANGED <<order, payment, charge, notices, flagged, unflagged>>
        BY <1>5 DEF ReadLocal, admin
    <2>2. /\ s \in HandlerSteps /\ s \notin {"transition", "finalize"}
          /\ s = "approve" => r.seen = "approved"
          /\ s = "refunding" => r.seen = "refunded"
          /\ s = "close" => r.seen # "approved"
        BY BranchFacts DEF HandlerSteps
    <2>. HIDE DEF s
    <2>3. ChargesForward
        BY <1>1, <2>1, NoCharge
    <2>4. /\ handler' \in [Handlers -> HandlerRow]
          /\ \A g \in Handlers : RowSawIt(handler'[g], charge')
        BY <1>3, <1>5, <2>1, <2>2, <2>3, SameRun DEF ApplySteps
    <2>. QED
        BY <1>1, <1>4, <2>1, <2>3, <2>4
<1>6. CASE AnswerOnly(h) \/ Forbid(h) \/ ClosePayment(h) \/ FlagApprovedAfterCancel(h) \/ HandlerDies(h)
    <2>1. /\ UNCHANGED <<order, charge>>
          /\ Done(h) \/ (handler' = [handler EXCEPT ![h] = Idle] /\ UNCHANGED notices)
        BY <1>6 DEF AnswerOnly, Forbid, ClosePayment, FlagApprovedAfterCancel, HandlerDies
    <2>2. flagged' \subseteq Charges /\ unflagged' \subseteq Charges
        BY <1>1, <1>3, <1>6
           DEF AnswerOnly, Forbid, ClosePayment, FlagApprovedAfterCancel, OpenDiscrepancy,
               HandlerDies, admin
    <2>3. payment' \in [Payments -> PaymentRow]
        <3>1. [payment EXCEPT ![r.local].status = r.seen] \in [Payments -> PaymentRow]
            BY <1>1 DEF HandlerRow, PaymentRow
        <3>. QED
            BY <1>1, <1>6, <3>1
               DEF AnswerOnly, Forbid, ClosePayment, FlagApprovedAfterCancel, HandlerDies
    <2>. QED
        BY <1>1, <1>4, <2>1, <2>2, <2>3, NoCharge, RunEnds
<1>7. CASE Approve(h) \/ ApproveOrphan(h)
    <2>1. UNCHANGED <<order, charge, notices, flagged, unflagged>> /\ r.charge \in Payments
        BY <1>3, <1>7 DEF ApplySteps, Approve, ApproveOrphan, admin
    <2>2. payment' \in [Payments -> PaymentRow]
        BY <1>1, <1>7, <2>1 DEF Approve, ApproveOrphan, PaymentRow, ChargeStatuses
    <2>3. r.pc = "approve" => r.seen = "approved"
        BY <1>1, <1>3 DEF RowSawIt
    <2>4. {"transition", "compensate"} \subseteq HandlerSteps
        BY DEF HandlerSteps
    <2>5. CASE \/ handler' = [handler EXCEPT ![h].pc = "transition"] /\ r.pc = "approve"
               \/ handler' = [handler EXCEPT ![h].pc = "compensate"]
        BY <1>1, <1>3, <1>4, <2>1, <2>2, <2>3, <2>4, <2>5, NoCharge, SameRun
    <2>6. CASE handler' = [handler EXCEPT ![h] = Idle]
        BY <1>1, <1>4, <2>1, <2>2, <2>6, NoCharge, RunEnds
    <2>. QED
        BY <1>7, <2>5, <2>6 DEF Approve, ApproveOrphan
<1>8. CASE TransitionToPaid(h)
    <2>1. UNCHANGED <<payment, charge, flagged, unflagged>> /\ order' \in OrderStatuses
        BY <1>1, <1>8 DEF TransitionToPaid, OrderStatuses, admin
    <2>2. CASE handler' = [handler EXCEPT ![h].pc = "compensate"] /\ UNCHANGED notices
        <3>1. "compensate" \in HandlerSteps
            BY DEF HandlerSteps
        <3>. QED
            BY <1>1, <1>3, <1>4, <1>8, <2>1, <2>2, <3>1, NoCharge, SameRun DEF ApplySteps
    <2>3. CASE Done(h)
        BY <1>1, <1>4, <2>1, <2>3, NoCharge, RunEnds
    <2>. QED
        BY <1>8, <2>2, <2>3 DEF TransitionToPaid
<1>9. CASE Compensate(h)
    <2>1. UNCHANGED <<order, payment, flagged, unflagged>> /\ handler' = [handler EXCEPT ![h].pc = "flag"]
        BY <1>9 DEF Compensate, admin
    <2>2. ChargesForward /\ notices' \subseteq Charges
        <3>1. CASE UNCHANGED <<charge, notices>>
            BY <1>1, <3>1, NoCharge
        <3>2. CASE charge[r.charge] = "approved" /\ ChargeBecomes(r.charge, "refunded")
            BY <1>1, <1>3, <3>2, OneCharge DEF Forward, ChargeStatuses
        <3>. QED
            BY <1>9, <3>1, <3>2 DEF Compensate
    <2>3. "flag" \in HandlerSteps
        BY DEF HandlerSteps
    <2>. QED
        BY <1>1, <1>3, <1>4, <1>9, <2>1, <2>2, <2>3, SameRun DEF ApplySteps
<1>10. CASE ReadForRefund(h)
    <2>1. UNCHANGED <<order, payment, charge, flagged, unflagged>> /\ r.seen = "refunded"
        BY <1>1, <1>3, <1>10 DEF ReadForRefund, RowSawIt, admin
    <2>2. CASE Done(h)
        BY <1>1, <1>4, <2>1, <2>2, NoCharge, RunEnds
    <2>3. CASE /\ handler' = [handler EXCEPT ![h].pc = "finalize", ![h].from = order]
               /\ UNCHANGED notices
        <3>1. "finalize" \in HandlerSteps
            BY DEF HandlerSteps
        <3>. QED
            BY <1>1, <1>3, <1>4, <1>10, <2>1, <2>3, <3>1, NoCharge, SameRun DEF ApplySteps
    <2>. QED
        BY <1>10, <2>2, <2>3 DEF ReadForRefund
<1>11. CASE FinalizeRefund(h)
    <2>1. UNCHANGED <<charge, flagged, unflagged>> /\ Done(h)
        BY <1>11 DEF FinalizeRefund, admin
    <2>2. order' \in OrderStatuses
        BY <1>1, <1>11 DEF FinalizeRefund, OrderStatuses
    <2>3. payment' \in [Payments -> PaymentRow]
        BY <1>1, <1>11 DEF FinalizeRefund, PaymentRow, ChargeStatuses
    <2>. QED
        BY <1>1, <1>4, <2>1, <2>2, <2>3, NoCharge, RunEnds
<1>. QED
    BY <1>5, <1>6, <1>7, <1>8, <1>9, <1>10, <1>11 DEF ApplySteps

LEMMA AdminKeeps ==
    ASSUME FlowInv, NEW p \in Payments, AdminRefund(p)
    PROVE  FlowInv'
<1> DEFINE c == payment[p].ext
           next == [Applying(c, "refunded", p) EXCEPT !.pc = "refunding"]
<1>1. /\ TypeOK /\ payment \in [Payments -> PaymentRow] /\ notices \subseteq Charges
      /\ "admin" \in Handlers
    BY Rows DEF FlowInv, Handlers
<1>2. c \in Payments
    BY <1>1 DEF AdminRefund, PaymentRow
<1>3. /\ UNCHANGED <<order, deadline, payment, intent, expiry, admin>>
      /\ handler' = [handler EXCEPT !["admin"] = next]
    BY DEF AdminRefund
<1>4. ChargesForward /\ notices' \subseteq Charges /\ charge'[c] = "refunded"
    <2>1. CASE charge[c] = "approved" /\ ChargeBecomes(c, "refunded")
        BY <1>1, <1>2, <2>1, OneCharge, StraysApart DEF Forward, ChargeStatuses
    <2>2. CASE charge[c] = "refunded" /\ UNCHANGED <<charge, notices>>
        BY <1>1, <2>2, NoCharge
    <2>. QED
        BY <2>1, <2>2 DEF AdminRefund
<1>5. next \in HandlerRow
    BY <1>2, StraysApart DEF Applying, HandlerRow, HandlerSteps, ChargeStatuses
<1>6. RowSawIt(next, charge')
    BY <1>2, <1>4, StraysApart DEF Applying, RowSawIt, Reflects
<1>. HIDE DEF next
<1>7. /\ handler' \in [Handlers -> HandlerRow]
      /\ \A g \in Handlers : RowSawIt(handler'[g], charge')
    BY <1>1, <1>3, <1>4, <1>5, <1>6, OneHandler
<1>8. TypeOK'
    BY <1>1, <1>3, <1>4, <1>7, Rows, RowsNext DEF ChargesForward, admin
<1>. QED
    BY <1>3, <1>4, <1>7, <1>8, NoIntentStep DEF FlowInv

LEMMA FlowStep == FlowInv /\ [Next]_vars => FlowInv'
<1> SUFFICES ASSUME FlowInv, [Next]_vars PROVE FlowInv'
    OBVIOUS
<1>1. CASE UNCHANGED vars
    <2>1. UNCHANGED <<order, deadline, payment, charge, notices, handler, intent, expiry, flagged,
                    unflagged, orphans>>
        BY <1>1 DEF vars, admin
    <2>2. TypeOK' /\ ChargesForward
        BY <2>1, Rows, RowsNext, NoCharge DEF FlowInv
    <2>. QED
        BY <2>1, <2>2, NoHandler, NoIntentStep DEF FlowInv
<1>2. CASE Next
    BY <1>2, ProviderKeeps, IntentKeeps, ExpiryKeeps, PeopleKeep, AdminKeeps, WebhookKeeps,
       ApplyKeeps DEF Next, ProviderSteps
<1>. QED
    BY <1>1, <1>2

\* Every row keeps its type, and a handler never carries a status its charge
\* has not had.
THEOREM FlowTypeCorrect == Spec => []TypeOK
<1>1. FlowInv => TypeOK
    BY DEF FlowInv
<1>. QED
    BY <1>1, FlowInit, FlowStep, PTL DEF Spec

----------------------------------------------------------------------------
(* Every step is a step of OrderMoney or changes nothing it sees. *)

MoneyStep == OM!Next \/ UNCHANGED <<order, Captured, Returned>>

\* The provider's side: one charge moves, the order does not.
LEMMA ChargeStep ==
    ASSUME TypeOK, NEW c \in Charges, NEW s \in ChargeStatuses, ChargeBecomes(c, s),
           UNCHANGED order,
           \/ charge[c] \in {"none", "pending"} /\ s # "refunded"
           \/ charge[c] = "approved" /\ s = "refunded"
    PROVE  MoneyStep
<1>1. /\ charge \in [Charges -> ChargeStatuses] /\ Payments \subseteq Charges
      /\ charge' = [charge EXCEPT ![c] = s]
    BY StraysApart DEF TypeOK, ChargeBecomes
<1>2. CASE c \in Strays
    <2>1. \A p \in Payments : charge'[p] = charge[p]
        BY <1>1, <1>2, StraysApart
    <2>2. Captured' = Captured /\ Returned' = Returned
        BY <2>1 DEF Captured, Returned
    <2>. QED
        BY <2>2 DEF MoneyStep
<1>3. CASE c \in Payments /\ s = "approved" /\ charge[c] \in {"none", "pending"}
    <2>1. Captured' = Captured \cup {c} /\ Returned' = Returned /\ c \notin Captured
        BY <1>1, <1>3 DEF Captured, Returned
    <2>. QED
        BY <1>3, <2>1 DEF MoneyStep, OM!Next, OM!Capture
<1>4. CASE c \in Payments /\ s = "refunded" /\ charge[c] = "approved"
    <2>1. Captured' = Captured /\ Returned' = Returned \cup {c} /\ c \in Captured
        BY <1>1, <1>4 DEF Captured, Returned
    <2>. QED
        BY <1>4, <2>1 DEF MoneyStep, OM!Next, OM!Return
<1>5. CASE c \in Payments /\ s \notin {"approved", "refunded"} /\ charge[c] \in {"none", "pending"}
    <2>1. Captured' = Captured /\ Returned' = Returned
        BY <1>1, <1>5 DEF Captured, Returned
    <2>. QED
        BY <2>1 DEF MoneyStep
<1>. QED
    BY <1>2, <1>3, <1>4, <1>5, StraysApart

LEMMA NothingMoves ==
    ASSUME UNCHANGED <<order, charge>>
    PROVE  MoneyStep
BY DEF MoneyStep, Captured, Returned

\* Both specifications read the same status graph.
LEMMA SameGraph ==
    /\ \A from, to : OM!canTransition(from, to) <=> canTransition(from, to)
    /\ \A from : OM!isRefundAllowed(from) <=> isRefundAllowed(from)
    /\ OM!ADMIN_FULFILLMENT_TARGETS = ADMIN_FULFILLMENT_TARGETS
<1>1. OM!ORDER_TRANSITIONS = ORDER_TRANSITIONS
    BY DEF OM!ORDER_TRANSITIONS, ORDER_TRANSITIONS, OM!OrderStatuses, OrderStatuses
<1>. QED
    BY <1>1 DEF OM!canTransition, canTransition, OM!isRefundAllowed, isRefundAllowed,
                OM!ADMIN_FULFILLMENT_TARGETS, ADMIN_FULFILLMENT_TARGETS

\* The shop's side: only these steps write the order.
LEMMA OrderStep ==
    ASSUME UNCHANGED charge,
           \/ order' = order
           \/ order = "awaiting_payment" /\ order' = "cancelled"
           \/ order = "awaiting_payment" /\ order' = "paid" /\ Captured # {}
           \/ order' = "refunded" /\ isRefundAllowed(order) /\ Returned # {}
           \/ order' \in ADMIN_FULFILLMENT_TARGETS /\ canTransition(order, order')
    PROVE  MoneyStep
<1>1. Captured' = Captured /\ Returned' = Returned
    BY DEF Captured, Returned
<1>. QED
    BY <1>1, SameGraph DEF MoneyStep, OM!Next, OM!Cancel, OM!Pay, OM!Refund, OM!Fulfill

LEMMA ApplyMoney ==
    ASSUME FlowInv, NEW h \in Handlers, ApplySteps(h) \/ HandlerDies(h)
    PROVE  MoneyStep
<1> DEFINE r == handler[h]
<1>1. TypeOK /\ RowSawIt(r, charge)
    BY DEF FlowInv
<1>2. CASE \/ ReadLocal(h) \/ AnswerOnly(h) \/ Forbid(h) \/ ClosePayment(h) \/ Approve(h)
           \/ ApproveOrphan(h) \/ FlagApprovedAfterCancel(h) \/ ReadForRefund(h) \/ HandlerDies(h)
    BY <1>2, NothingMoves
       DEF ReadLocal, AnswerOnly, Forbid, ClosePayment, Approve, ApproveOrphan,
           FlagApprovedAfterCancel, ReadForRefund, HandlerDies
<1>3. CASE Compensate(h)
    <2>1. r.charge \in Charges
        BY <1>1, <1>3 DEF Compensate, RowSawIt
    <2>2. UNCHANGED order
        BY <1>3 DEF Compensate
    <2>3. CASE charge[r.charge] = "approved" /\ ChargeBecomes(r.charge, "refunded")
        BY <1>1, <2>1, <2>2, <2>3, ChargeStep DEF ChargeStatuses
    <2>. QED
        BY <1>3, <2>2, <2>3, NothingMoves DEF Compensate
<1>4. CASE TransitionToPaid(h)
    <2>1. Captured # {}
        BY <1>1, <1>4 DEF TransitionToPaid, RowSawIt, Reflects, Captured
    <2>. QED
        BY <1>4, <2>1, OrderStep DEF TransitionToPaid
<1>5. CASE FinalizeRefund(h)
    <2>1. Returned # {}
        BY <1>1, <1>5 DEF FinalizeRefund, RowSawIt, Reflects, Returned
    <2>2. UNCHANGED charge /\ (order' = order \/ (order' = "refunded" /\ isRefundAllowed(order)))
        BY <1>5 DEF FinalizeRefund
    <2>. QED
        BY <2>1, <2>2, OrderStep
<1>. QED
    BY <1>2, <1>3, <1>4, <1>5 DEF ApplySteps

LEMMA MoneySteps == FlowInv /\ [Next]_vars => MoneyStep
<1> SUFFICES ASSUME FlowInv, [Next]_vars PROVE MoneyStep
    OBVIOUS
<1>1. TypeOK
    BY DEF FlowInv
<1>2. CASE UNCHANGED vars
    BY <1>2, NothingMoves DEF vars
<1>3. ASSUME NEW c \in Charges, NotifyAgain(c)
      PROVE  MoneyStep
    BY <1>3, NothingMoves DEF NotifyAgain
<1>4. ASSUME NEW c \in Charges, NEW s \in {"approved", "refused", "cancelled", "refunded"},
             ProviderMoves(c, s)
      PROVE  MoneyStep
    BY <1>1, <1>4, ChargeStep DEF ProviderMoves, ChargeStatuses
<1>5. CASE IntentSteps
    <2>1. UNCHANGED order
        BY <1>5 DEF IntentSteps, BeginIntent, OpenPayment, CallProvider, CloseFailedIntent,
                    PersistIntent, RefuseIntent, PersistFails, CheckoutDies
    <2>2. intent.pc \in {"opened", "charged", "failed"} => intent.p \in Charges
        BY StraysApart DEF FlowInv, IntentSawIt
    <2>3. CASE CallProvider
        <3>1. ASSUME NEW s \in {"pending", "approved", "refused"},
                     charge[intent.p] = "none", ChargeBecomes(intent.p, s)
              PROVE  MoneyStep
            BY <1>1, <2>1, <2>2, <2>3, <3>1, ChargeStep DEF CallProvider, ChargeStatuses
        <3>. QED
            BY <2>1, <2>3, <3>1, NothingMoves DEF CallProvider
    <2>4. CASE PersistFails
        <3>1. ASSUME charge[intent.p] = "pending", ChargeBecomes(intent.p, "cancelled")
              PROVE  MoneyStep
            BY <1>1, <2>1, <2>2, <2>4, <3>1, ChargeStep DEF PersistFails, ChargeStatuses
        <3>. QED
            BY <2>1, <2>4, <3>1, NothingMoves DEF PersistFails
    <2>. QED
        BY <1>5, <2>1, <2>3, <2>4, NothingMoves
           DEF IntentSteps, BeginIntent, OpenPayment, CloseFailedIntent, PersistIntent, RefuseIntent,
               CheckoutDies
<1>6. CASE ExpirySteps
    <2>1. CASE CancelRemote
        <3>1. ASSUME NEW c \in expiry.remote, charge[c] = "pending", ChargeBecomes(c, "cancelled")
              PROVE  MoneyStep
            <4>1. c \in Charges
                BY <1>1, StraysApart DEF TypeOK
            <4>. QED
                BY <1>1, <2>1, <3>1, <4>1, ChargeStep DEF CancelRemote, ChargeStatuses
        <3>. QED
            BY <2>1, <3>1, NothingMoves DEF CancelRemote
    <2>2. CASE ExpireOrder
        BY <2>2, OrderStep DEF ExpireOrder
    <2>. QED
        BY <1>6, <2>1, <2>2, NothingMoves
           DEF ExpirySteps, ReadExpired, ExpirePayments, ExpiryDies
<1>7. CASE TimePasses \/ CustomerCancels
    BY <1>7, NothingMoves, OrderStep DEF TimePasses, CustomerCancels
<1>8. ASSUME NEW to \in FulfillTargets, Fulfill(to)
      PROVE  MoneyStep
    BY <1>8, PaymentFlowAssumption, OrderStep DEF Fulfill
<1>9. ASSUME NEW p \in Payments, AdminRefund(p)
      PROVE  MoneyStep
    <2> DEFINE c == payment[p].ext
    <2>1. c \in Charges /\ UNCHANGED order
        BY <1>1, <1>9, StraysApart DEF AdminRefund, TypeOK
    <2>2. CASE charge[c] = "approved" /\ ChargeBecomes(c, "refunded")
        BY <1>1, <2>1, <2>2, ChargeStep DEF ChargeStatuses
    <2>. QED
        BY <1>9, <2>1, <2>2, NothingMoves DEF AdminRefund
<1>10. ASSUME NEW w \in Workers, WebhookSteps(w)
       PROVE  MoneyStep
    BY <1>10, NothingMoves DEF WebhookSteps, Fetch, Lookup, PickPayment, Link, RecordOrphan, ReportOrphan
<1>. QED
    BY <1>2, <1>3, <1>4, <1>5, <1>6, <1>7, <1>8, <1>9, <1>10, ApplyMoney DEF Next, ProviderSteps

\* No interleaving pays an order nobody was charged for, refunds one whose
\* money did not go back, or leaves the allowlist: PaymentFlow implements
\* OrderMoney.
THEOREM FlowImplementsOrderMoney == Spec => ImplementsOrderMoney
<1>1. Init => OM!Init
    BY StraysApart DEF Init, OM!Init, Captured, Returned
<1>2. FlowInv /\ [Next]_vars => [OM!Next]_(OM!vars)
    BY MoneySteps DEF MoneyStep, OM!vars
<1>. QED
    BY <1>1, <1>2, FlowInit, FlowStep, PTL DEF Spec, ImplementsOrderMoney, OM!Spec

\* What that comes to.
NoStatusForFree ==
    /\ order \in POST_PAID_STATUSES \cup {"refunded"} => Captured # {}
    /\ order = "refunded" => Returned # {}

MoneyRemembered == Captured \subseteq Captured' /\ Returned \subseteq Returned'

\* Only what is paid is fulfilled or refunded.
LEMMA PaidBefore ==
    ASSUME order \in OrderStatuses, NEW to \in ADMIN_FULFILLMENT_TARGETS \cup {"refunded"},
           OM!canTransition(order, to)
    PROVE  order \in POST_PAID_STATUSES
<1>1. to \in ORDER_TRANSITIONS[order]
    BY SameGraph DEF canTransition
<1>. QED
    BY <1>1 DEF ORDER_TRANSITIONS, OrderStatuses, POST_PAID_STATUSES, ADMIN_FULFILLMENT_TARGETS

LEMMA MoneyStepKeeps ==
    ASSUME MoneyStep, order \in OrderStatuses
    PROVE  MoneyRemembered /\ (NoStatusForFree => NoStatusForFree')
<1>. USE DEF MoneyRemembered, NoStatusForFree
<1>1. CASE UNCHANGED <<order, Captured, Returned>>
    BY <1>1
<1>2. ASSUME NEW c \in Payments, OM!Capture(c) \/ OM!Return(c)
      PROVE  MoneyRemembered /\ (NoStatusForFree => NoStatusForFree')
    <2>1. Captured \subseteq Captured' /\ Returned \subseteq Returned' /\ order' = order
        BY <1>2 DEF OM!Capture, OM!Return
    <2>. QED
        BY <2>1
<1>3. CASE OM!Pay \/ OM!Cancel
    BY <1>3 DEF OM!Pay, OM!Cancel, POST_PAID_STATUSES
<1>4. CASE OM!Refund
    BY <1>4, PaidBefore DEF OM!Refund, OM!isRefundAllowed
<1>5. ASSUME NEW to \in ADMIN_FULFILLMENT_TARGETS, OM!Fulfill(to)
      PROVE  MoneyRemembered /\ (NoStatusForFree => NoStatusForFree')
    <2>1. to # "refunded"
        BY DEF ADMIN_FULFILLMENT_TARGETS
    <2>. QED
        BY <1>5, <2>1, PaidBefore DEF OM!Fulfill
<1>. QED
    BY <1>1, <1>2, <1>3, <1>4, <1>5, SameGraph DEF MoneyStep, OM!Next

\* Of any number of charges, handlers, jobs and clicks: an order that counts as
\* paid, or has been refunded, stands on money the provider took for it; it is
\* refunded only if money went back; and neither is ever forgotten.
THEOREM NothingForFree == Spec => []NoStatusForFree /\ [][MoneyRemembered]_vars
<1>1. Init => NoStatusForFree
    BY DEF Init, NoStatusForFree, POST_PAID_STATUSES
<1>2. FlowInv /\ NoStatusForFree /\ [Next]_vars => NoStatusForFree' /\ MoneyRemembered
    BY MoneySteps, MoneyStepKeeps DEF FlowInv, TypeOK
<1>. QED
    BY <1>1, <1>2, FlowInit, FlowStep, PTL DEF Spec

----------------------------------------------------------------------------
(* Captured money stays in view.  While no paid order stands behind it, an  *)
(* approved charge is still being notified, or a discrepancy or an orphan   *)
(* row names it, or the write of its discrepancy failed.  A notification    *)
(* leaves by the answer of a worker that saw the charge as it is, and every *)
(* such answer came after one of these, or of an order that is paid:        *)
(* `answer` is reached only then, never for a stray charge, and an order is *)
(* never unpaid again.                                                      *)

Discrepant == flagged \cup unflagged

InView(c) == c \in notices \/ c \in Discrepant \/ orphans[c].row # "none"

AllInView == \A c \in Charges : Unearned(c) => InView(c)

AnswersPaid ==
    \A h \in Handlers : handler[h].pc = "answer" /\ handler[h].seen = "approved" => order \notin Unpaid

\* Only charges that exist are notified, and looked up.
NoticesReal ==
    /\ \A c \in notices : charge[c] # "none"
    /\ \A h \in Handlers :
          handler[h].pc \in {"fetched", "unbound", "orphaned"} => handler[h].seen # "none"

\* The strengthening.
ViewInv == FlowInv /\ AllInView /\ AnswersPaid /\ NoticesReal

\* A step that changes a charge notifies it.
CapturesNoticed ==
    \A c \in Charges : charge'[c] = "approved" => charge[c] = "approved" \/ c \in notices'

\* An order that is not unpaid does not become so.
LEMMA StaysPaid ==
    ASSUME MoneyStep, order' \in Unpaid
    PROVE  order \in Unpaid
<1>1. ADMIN_FULFILLMENT_TARGETS \cap Unpaid = {} /\ "refunded" \notin Unpaid /\ "paid" \notin Unpaid
    BY DEF ADMIN_FULFILLMENT_TARGETS, Unpaid
<1>2. CASE UNCHANGED order
    BY <1>2
<1>3. CASE OM!Next
    BY <1>1, <1>3, SameGraph
       DEF OM!Next, OM!Capture, OM!Return, OM!Pay, OM!Cancel, OM!Refund, OM!Fulfill, Unpaid
<1>. QED
    BY <1>2, <1>3 DEF MoneyStep

LEMMA Noticed ==
    ASSUME TypeOK, UNCHANGED charge \/ \E c \in Charges, s \in ChargeStatuses : ChargeBecomes(c, s)
    PROVE  CapturesNoticed
BY DEF TypeOK, ChargeBecomes, CapturesNoticed

\* What is in view stays so unless its notification is answered.
LEMMA ViewKept ==
    ASSUME AllInView, MoneyStep, CapturesNoticed,
           \A c \in Charges : charge[c] = "approved" /\ Unearned(c)' /\ InView(c) => InView(c)'
    PROVE  AllInView'
<1> SUFFICES ASSUME NEW c \in Charges, Unearned(c)'
             PROVE  InView(c)'
    BY DEF AllInView
<1>1. CASE charge[c] = "approved"
    <2>1. Unearned(c)
        BY <1>1, StaysPaid DEF Unearned
    <2>. QED
        BY <1>1, <2>1 DEF AllInView
<1>2. CASE charge[c] # "approved"
    BY <1>2 DEF CapturesNoticed, InView, Unearned
<1>. QED
    BY <1>1, <1>2

\* The handlers that moved are not about to answer a paid charge of an unpaid order.
LEMMA AnswersKept ==
    ASSUME AnswersPaid, MoneyStep,
           \A h \in Handlers : \/ handler'[h] = handler[h]
                              \/ handler'[h].pc # "answer"
                              \/ (handler'[h].seen = "approved" => order' \notin Unpaid)
    PROVE  AnswersPaid'
BY StaysPaid DEF AnswersPaid

\* A worker's answer ends the notifications of what it saw, nothing else.
LEMMA Silenced ==
    ASSUME NEW h, notices' = Answered(h), NEW c \in notices, c \notin notices'
    PROVE  c = handler[h].charge /\ handler[h].seen = charge[c]
BY DEF Answered

\* Everyone but the webhooks' own steps only adds notifications.
LEMMA OthersKeepView ==
    ASSUME ViewInv, MoneyStep,
           \/ ProviderSteps \/ IntentSteps \/ ExpirySteps \/ TimePasses \/ CustomerCancels
           \/ \E to \in FulfillTargets : Fulfill(to)
           \/ \E p \in Payments : AdminRefund(p)
    PROVE  AllInView' /\ AnswersPaid' /\ NoticesReal'
<1>1. /\ TypeOK /\ handler \in [Handlers -> HandlerRow] /\ payment \in [Payments -> PaymentRow]
      /\ expiry \in SweepRow
      /\ intent.pc \in {"opened", "charged", "refused", "failed"} => intent.p \in Payments
    BY Rows DEF ViewInv, FlowInv, IntentSawIt
<1> DEFINE OneMoves == \E c \in Charges, s \in ChargeStatuses \ {"none"} : ChargeBecomes(c, s)
<1>2. \/ UNCHANGED <<charge, notices>> \/ OneMoves
      \/ \E c \in Charges : charge[c] # "none" /\ UNCHANGED charge /\ notices' = notices \cup {c}
    <2>1. {"pending", "approved", "refused", "cancelled", "refunded"} \subseteq ChargeStatuses \ {"none"}
        BY DEF ChargeStatuses
    <2>2. CASE ProviderSteps
        BY <2>1, <2>2 DEF ProviderSteps, NotifyAgain, ProviderMoves
    <2>3. CASE CallProvider \/ PersistFails
        <3>1. intent.p \in Charges
            BY <1>1, <2>3, StraysApart DEF CallProvider, PersistFails
        <3>2. \/ UNCHANGED <<charge, notices>>
              \/ \E s \in {"pending", "approved", "refused", "cancelled"} : ChargeBecomes(intent.p, s)
            BY <2>3 DEF CallProvider, PersistFails
        <3>. QED
            BY <2>1, <3>1, <3>2
    <2>4. CASE CancelRemote
        <3>1. expiry.remote \subseteq Charges
            BY <1>1, StraysApart DEF SweepRow
        <3>2. UNCHANGED <<charge, notices>> \/ \E c \in expiry.remote : ChargeBecomes(c, "cancelled")
            BY <2>4 DEF CancelRemote
        <3>. QED
            BY <2>1, <3>1, <3>2
    <2>5. ASSUME NEW p \in Payments, AdminRefund(p)
          PROVE  UNCHANGED <<charge, notices>> \/ OneMoves
        <3>1. payment[p].ext \in Charges
            BY <1>1, <2>5, StraysApart DEF AdminRefund, PaymentRow
        <3>. QED
            BY <2>1, <2>5, <3>1 DEF AdminRefund
    <2>6. CASE \/ TimePasses \/ CustomerCancels \/ BeginIntent \/ OpenPayment \/ CloseFailedIntent
               \/ PersistIntent \/ RefuseIntent \/ CheckoutDies \/ ReadExpired \/ ExpireOrder \/ ExpirePayments
               \/ ExpiryDies \/ \E to \in FulfillTargets : Fulfill(to)
        BY <2>6 DEF TimePasses, CustomerCancels, BeginIntent, OpenPayment, CloseFailedIntent,
                    PersistIntent, RefuseIntent, CheckoutDies, ReadExpired, ExpireOrder, ExpirePayments,
                    ExpiryDies, Fulfill
    <2>. QED
        BY <2>2, <2>3, <2>4, <2>5, <2>6 DEF IntentSteps, ExpirySteps
<1>3. notices \subseteq notices' /\ CapturesNoticed
    BY <1>1, <1>2, Noticed DEF ChargeBecomes
<1>4. UNCHANGED <<Discrepant, orphans>>
    BY DEF Discrepant, ProviderSteps, NotifyAgain, ProviderMoves, IntentSteps, BeginIntent, OpenPayment,
           CallProvider, CloseFailedIntent, PersistIntent, RefuseIntent, PersistFails, CheckoutDies,
           ExpirySteps, ReadExpired, ExpireOrder, ExpirePayments, CancelRemote, ExpiryDies,
           TimePasses, CustomerCancels, Fulfill, AdminRefund, admin
<1>5. AllInView'
    BY <1>3, <1>4, ViewKept DEF ViewInv, InView
<1> DEFINE Others == \A h \in Handlers : \/ handler'[h] = handler[h]
                                          \/ handler'[h].pc \in {"resolved", "refunding"}
<1>6. Others
    <2>1. ASSUME NEW p \in Payments, AdminRefund(p)
          PROVE  Others
        <3> DEFINE next == [Applying(payment[p].ext, "refunded", p) EXCEPT !.pc = "refunding"]
        <3>1. handler' = [handler EXCEPT !["admin"] = next]
            BY <2>1 DEF AdminRefund
        <3>2. next.pc = "refunding"
            BY DEF Applying
        <3>. HIDE DEF next
        <3>. QED
            BY <1>1, <3>1, <3>2
    <2>2. CASE PersistIntent
        <3> DEFINE next == Applying(intent.p, "approved", intent.p)
        <3>1. UNCHANGED handler \/ handler' = [handler EXCEPT !["checkout"] = next]
            BY <2>2 DEF PersistIntent
        <3>2. next.pc = "resolved"
            BY DEF Applying
        <3>. HIDE DEF next
        <3>. QED
            BY <1>1, <3>1, <3>2
    <2>3. CASE UNCHANGED handler
        BY <2>3
    <2>. QED
        BY <2>1, <2>2, <2>3
           DEF ProviderSteps, NotifyAgain, ProviderMoves, IntentSteps, BeginIntent, OpenPayment,
               CallProvider, CloseFailedIntent, RefuseIntent, PersistFails, CheckoutDies, ExpirySteps,
               ReadExpired, ExpireOrder, ExpirePayments, CancelRemote, ExpiryDies, TimePasses,
               CustomerCancels, Fulfill
<1>7. AnswersPaid'
    BY <1>6, AnswersKept DEF ViewInv
<1>8. NoticesReal'
    <2>1. \A c \in notices' : charge'[c] # "none"
        BY <1>1, <1>2, Rows DEF ViewInv, NoticesReal, ChargeBecomes
    <2>. QED
        BY <1>6, <2>1 DEF ViewInv, NoticesReal
<1>. QED
    BY <1>5, <1>7, <1>8

LEMMA WebhookKeepsView ==
    ASSUME ViewInv, MoneyStep, NEW w \in Workers, WebhookSteps(w)
    PROVE  AllInView' /\ AnswersPaid' /\ NoticesReal'
<1> DEFINE r == handler[w]
<1>1. /\ TypeOK /\ handler \in [Handlers -> HandlerRow] /\ orphans \in [Charges -> OrphanRow]
      /\ w \in Handlers
    BY Rows DEF ViewInv, FlowInv, Handlers
<1>2. UNCHANGED <<charge, Discrepant>> /\ CapturesNoticed
    BY <1>1, Noticed DEF WebhookSteps, Fetch, Lookup, PickPayment, Link, RecordOrphan, ReportOrphan, admin,
                        Discrepant
<1>3. \A h \in Handlers : handler'[h] = handler[h] \/ handler'[h].pc # "answer"
    <2>1. CASE \E c \in Charges : Fetch(w, c)
        BY <1>1, <2>1 DEF Fetch, HandlerRow, Idle
    <2>2. CASE Lookup(w) \/ PickPayment(w)
        BY <1>1, <2>2 DEF Lookup, PickPayment, HandlerRow
    <2>3. CASE Link(w) \/ RecordOrphan(w) \/ ReportOrphan(w)
        BY <1>1, <2>3 DEF Link, RecordOrphan, ReportOrphan, HandlerRow, Idle
    <2>. QED
        BY <2>1, <2>2, <2>3 DEF WebhookSteps
<1>4. \A c \in Charges : charge[c] = "approved" /\ InView(c) => InView(c)'
    <2>1. CASE RecordOrphan(w)
        <3>1. r.seen # "none" /\ notices' = Answered(w)
              /\ orphans' = [orphans EXCEPT ![r.charge].row = r.seen]
            BY <1>1, <2>1 DEF RecordOrphan, ViewInv, NoticesReal
        <3> SUFFICES ASSUME NEW c \in Charges, InView(c)
                     PROVE  InView(c)'
            OBVIOUS
        <3>2. CASE c = r.charge
            BY <1>1, <3>1, <3>2 DEF InView, OrphanRow
        <3>3. CASE c # r.charge
            BY <1>1, <1>2, <3>1, <3>3, Silenced DEF InView
        <3>. QED
            BY <3>2, <3>3
    <2>2. CASE ReportOrphan(w)
        BY <1>1, <1>2, <2>2 DEF ReportOrphan, InView, OrphanRow
    <2>3. CASE (\E c \in Charges : Fetch(w, c)) \/ Lookup(w) \/ PickPayment(w) \/ Link(w)
        BY <1>2, <2>3 DEF Fetch, Lookup, PickPayment, Link, InView, admin
    <2>. QED
        BY <2>1, <2>2, <2>3 DEF WebhookSteps
<1>5. AllInView' /\ AnswersPaid'
    BY <1>2, <1>3, <1>4, ViewKept, AnswersKept DEF ViewInv
<1>6. NoticesReal'
    <2>1. notices' \subseteq notices
        BY DEF WebhookSteps, Fetch, Lookup, PickPayment, Link, RecordOrphan, ReportOrphan, Answered
    <2>2. \A h \in Handlers :
              handler'[h].pc \in {"fetched", "unbound", "orphaned"} => handler'[h].seen # "none"
        <3>1. CASE \E c \in Charges : Fetch(w, c)
            BY <1>1, <3>1 DEF Fetch, ViewInv, NoticesReal, HandlerRow, Idle
        <3>2. CASE Lookup(w) \/ PickPayment(w)
            BY <1>1, <3>2 DEF Lookup, PickPayment, ViewInv, NoticesReal, HandlerRow
        <3>3. CASE Link(w) \/ RecordOrphan(w) \/ ReportOrphan(w)
            BY <1>1, <3>3 DEF Link, RecordOrphan, ReportOrphan, ViewInv, NoticesReal, HandlerRow, Idle
        <3>. QED
            BY <3>1, <3>2, <3>3 DEF WebhookSteps
    <2>. QED
        BY <1>2, <2>1, <2>2 DEF ViewInv, NoticesReal
<1>. QED
    BY <1>5, <1>6

LEMMA ApplyKeepsView ==
    ASSUME ViewInv, MoneyStep, NEW h \in Handlers, ApplySteps(h) \/ HandlerDies(h)
    PROVE  AllInView' /\ AnswersPaid' /\ NoticesReal'
<1> DEFINE r == handler[h]
<1>1. /\ TypeOK /\ handler \in [Handlers -> HandlerRow] /\ r \in HandlerRow
      /\ RowSawIt(r, charge) /\ notices \subseteq Charges /\ charge \in [Charges -> ChargeStatuses]
    BY Rows DEF ViewInv, FlowInv
<1>2. /\ r.pc # "idle" /\ r.charge \in Charges /\ (ApplySteps(h) => r.charge \in Payments)
      /\ Discrepant \subseteq Discrepant' /\ UNCHANGED orphans
    BY <1>1 DEF ApplySteps, HandlerDies, ReadLocal, AnswerOnly, Forbid, ClosePayment, Approve,
           TransitionToPaid, ApproveOrphan, Compensate, FlagApprovedAfterCancel, ReadForRefund,
           FinalizeRefund, RowSawIt, OpenDiscrepancy, Discrepant, admin
<1>3. UNCHANGED charge \/ (Compensate(h) /\ ChargeBecomes(r.charge, "refunded"))
    BY DEF ApplySteps, HandlerDies, ReadLocal, AnswerOnly, Forbid, ClosePayment, Approve,
           TransitionToPaid, ApproveOrphan, Compensate, FlagApprovedAfterCancel, ReadForRefund,
           FinalizeRefund
<1>4. CapturesNoticed
    BY <1>1, <1>2, <1>3, Noticed DEF ChargeStatuses
<1>5. \/ notices' = Answered(h) /\ notices' \subseteq notices
      \/ UNCHANGED notices
      \/ ChargeBecomes(r.charge, "refunded")
    BY DEF ApplySteps, HandlerDies, ReadLocal, AnswerOnly, Forbid, ClosePayment, Approve,
           TransitionToPaid, ApproveOrphan, Compensate, FlagApprovedAfterCancel, ReadForRefund,
           FinalizeRefund, Done, Answered
\* The answer that ends an approved charge's notifications.
<1>6. ASSUME NEW c \in notices, c \notin notices', charge[c] = "approved",
             c \in Strays \/ order' \in Unpaid
      PROVE  c \in Discrepant'
    <2>1. ApplySteps(h) /\ c = r.charge /\ r.seen = "approved"
        BY <1>5, <1>6, Silenced DEF ChargeBecomes, HandlerDies
    <2>2. order' \in Unpaid /\ order \in Unpaid
        BY <1>2, <1>6, <2>1, StaysPaid, StraysApart
    <2>3. CASE AnswerOnly(h)
        BY <2>1, <2>3, <2>2 DEF AnswerOnly, ViewInv, AnswersPaid
    <2>4. CASE Forbid(h) \/ FlagApprovedAfterCancel(h)
        BY <2>1, <2>4 DEF Forbid, FlagApprovedAfterCancel, OpenDiscrepancy, Discrepant
    <2>5. CASE ClosePayment(h) \/ ReadForRefund(h) \/ FinalizeRefund(h)
        BY <1>1, <2>1, <2>5 DEF ClosePayment, ReadForRefund, FinalizeRefund, RowSawIt
    <2>6. CASE TransitionToPaid(h)
        BY <1>6, <2>1, <2>2, <2>6 DEF TransitionToPaid, Unpaid
    <2>7. CASE ReadLocal(h) \/ Approve(h) \/ ApproveOrphan(h) \/ Compensate(h)
        BY <1>6, <2>7 DEF ReadLocal, Approve, ApproveOrphan, Compensate, ChargeBecomes
    <2>. QED
        BY <2>1, <2>3, <2>4, <2>5, <2>6, <2>7 DEF ApplySteps
<1>7. AllInView'
    BY <1>1, <1>2, <1>4, <1>6, ViewKept DEF ViewInv, InView, Unearned
\* Only the branch leads to an answer, and it has looked at the order.
<1>8. /\ UNCHANGED order \/ ~ReadLocal(h)
      /\ \A g \in Handlers :
            /\ handler'[g].pc \in {"fetched", "unbound", "orphaned"} => handler'[g] = handler[g]
            /\ \/ handler'[g] = handler[g]
               \/ handler'[g].pc # "answer"
               \/ (handler'[g].seen = "approved" => order' \notin Unpaid)
    <2>1. CASE ReadLocal(h)
        <3> DEFINE s == Branch(r.seen, payment[r.local].status, order)
        <3>1. /\ s \notin {"fetched", "unbound", "orphaned"}
              /\ s = "answer" /\ r.seen = "approved" => order \notin Unpaid
              /\ handler' = [handler EXCEPT ![h].pc = s] /\ UNCHANGED order
            BY <2>1, BranchFacts DEF ReadLocal
        <3>. HIDE DEF s
        <3>2. \A g \in Handlers : g # h => handler'[g] = handler[g]
            BY <1>1, <3>1
        <3>3. handler'[h].pc = s /\ handler'[h].seen = r.seen
            BY <1>1, <3>1 DEF HandlerRow
        <3>. QED
            BY <3>1, <3>2, <3>3
    <2>2. CASE ~ReadLocal(h)
        <3>1. PICK next : /\ handler' = [handler EXCEPT ![h] = next]
                          /\ next.pc \in {"idle", "transition", "compensate", "flag", "finalize"}
            BY <1>1, <2>2
               DEF ApplySteps, HandlerDies, AnswerOnly, Forbid, ClosePayment, Approve,
                   TransitionToPaid, ApproveOrphan, Compensate, FlagApprovedAfterCancel,
                   ReadForRefund, FinalizeRefund, Done, Idle, HandlerRow
        <3>. QED
            BY <1>1, <2>2, <3>1
    <2>. QED
        BY <2>1, <2>2
<1>9. AnswersPaid'
    BY <1>8, AnswersKept DEF ViewInv
<1>10. NoticesReal'
    <2>1. \A c \in notices' : charge'[c] # "none"
        <3>1. CASE ChargeBecomes(r.charge, "refunded")
            BY <1>1, <1>2, <3>1 DEF ViewInv, NoticesReal, ChargeBecomes
        <3>2. CASE ~ChargeBecomes(r.charge, "refunded")
            BY <1>3, <1>5, <3>2 DEF ViewInv, NoticesReal
        <3>. QED
            BY <3>1, <3>2
    <2>. QED
        BY <1>8, <2>1 DEF ViewInv, NoticesReal
<1>. QED
    BY <1>7, <1>9, <1>10

LEMMA ViewInit == Init => ViewInv
<1>1. Init => AllInView /\ AnswersPaid /\ NoticesReal
    BY DEF Init, AllInView, Unearned, AnswersPaid, NoticesReal, Idle
<1>. QED
    BY <1>1, FlowInit DEF ViewInv

LEMMA ViewStep == ViewInv /\ [Next]_vars => ViewInv'
<1> SUFFICES ASSUME ViewInv, [Next]_vars PROVE ViewInv'
    OBVIOUS
<1>1. FlowInv /\ FlowInv' /\ MoneyStep
    BY FlowStep, MoneySteps DEF ViewInv
<1>2. CASE UNCHANGED vars
    BY <1>1, <1>2 DEF ViewInv, AllInView, InView, Discrepant, Unearned, AnswersPaid, NoticesReal, vars,
                       admin
<1>3. CASE Next
    BY <1>1, <1>3, OthersKeepView, WebhookKeepsView, ApplyKeepsView DEF Next, ViewInv
<1>. QED
    BY <1>2, <1>3

\* When everything has settled, money the provider holds for an unpaid order
\* is flagged or on an orphan row, or the write of its discrepancy failed, for
\* any number of payments and workers.
THEOREM CaptureAccounted == Spec => []CaptureIsAccounted
<1>1. ViewInv => CaptureIsAccounted
    BY DEF ViewInv, AllInView, InView, Discrepant, CaptureIsAccounted, Settled
<1>. QED
    BY <1>1, ViewInit, ViewStep, PTL DEF Spec
============================================================================
