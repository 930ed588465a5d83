---------------------------- MODULE PaymentFlow ----------------------------
(***************************************************************************)
(* One order and its payments: checkout opens payments, the provider       *)
(* charges and notifies, webhooks are fetched, linked and applied, the     *)
(* expiry job and the customer cancel, administrators refund and fulfil.   *)
(*                                                                         *)
(* A step of a handler is what the code does between two awaits: one       *)
(* query, one transaction or one provider call.  Between two steps any     *)
(* other handler may run, and a handler may die (the provider redelivers   *)
(* an unanswered notification).  The in-process mutex around the apply is  *)
(* not used here: handlers may run in different replicas.                  *)
(*                                                                         *)
(* Payment p is charged under the provider idempotency key sch-<p>, so     *)
(* charge p is the only charge the checkout of payment p can create. Stray *)
(* charges are notified to the shop too, but their reference leads to no   *)
(* order (made in the panel, or for an order that is gone).                *)
(***************************************************************************)
EXTENDS Integers, FiniteSets, OrderStatus

CONSTANTS
    MaxPayments,    \* bound: payment rows of the order
    Strays,         \* bound: charges whose reference leads to no order
    Workers,        \* webhook requests being handled at once
    UniqueExternalId,   \* the migration could make its unique index: no duplicates then
    FulfillTargets  \* bound: statuses an administrator moves the order to

ASSUME PaymentFlowAssumption ==
    /\ MaxPayments \in Nat
    /\ Strays \cap Nat = {}
    /\ UniqueExternalId \in BOOLEAN
    /\ FulfillTargets \subseteq ADMIN_FULFILLMENT_TARGETS
    /\ "checkout" \notin Workers /\ "admin" \notin Workers

Payments == 1 .. MaxPayments    \* in the order of createdAt
Charges == Payments \cup Strays  \* charge p is made by the checkout of payment p
None == 0                       \* externalId = null
Handlers == Workers \cup {"checkout", "admin"}

VARIABLES
    order,      \* Order.status
    deadline,   \* "live", then "expired" (reservationExpiresAt), then "grace_over"
    payment,    \* Payment rows: status and externalId
    charge,     \* the provider's status of each charge
    notices,    \* charges with a notification not yet answered with 2xx
    handler,    \* runs of applyProviderStatus: webhooks, checkout, admin refund
    intent,     \* createIntent in progress: its payment, the provider's answer
    expiry,     \* expireReservations in progress
    flagged,    \* charges with an open CRITICAL/HIGH discrepancy
    unflagged,  \* history: charges whose discrepancy failed to be written, the error swallowed
    orphans     \* per charge: provider status on its orphan row (PaymentReconciliation),
                \* severity of its PAYMENT_WITHOUT_ORDER discrepancy

admin == <<flagged, unflagged, orphans>>       \* what the administrators' queues show
vars == <<order, deadline, payment, charge, notices, handler, intent, expiry, admin>>

Idle == [pc |-> "idle", charge |-> None, seen |-> "none", local |-> None, from |-> "none"]

Applying(c, seen, p) ==
    [pc |-> "resolved", charge |-> c, seen |-> seen, local |-> p, from |-> "none"]
NoOrphan == [row |-> "none", alert |-> "none"]
NoIntent == [pc |-> "idle", p |-> None, answer |-> "none"]
NoSweep == [pc |-> "idle", remote |-> {}]

Init ==
    /\ order = "awaiting_payment"
    /\ deadline = "live"
    /\ payment = [p \in Payments |-> [status |-> "none", ext |-> None]]
    /\ charge = [c \in Charges |-> IF c \in Strays THEN "pending" ELSE "none"]
    /\ notices = {}
    /\ handler = [h \in Handlers |-> Idle]
    /\ intent = NoIntent
    /\ expiry = NoSweep
    /\ flagged = {}
    /\ unflagged = {}
    /\ orphans = [c \in Charges |-> NoOrphan]

HasStatus(s) == { p \in Payments : payment[p].status = s }
Bound(c) == { p \in Payments : payment[p].ext = c }

\* Writing externalId c on row p breaks the unique index.
Taken(p, c) == UniqueExternalId /\ \E q \in Bound(c) : q # p

----------------------------------------------------------------------------
(* The provider.  Every change of a charge is notified. *)

ChargeBecomes(c, s) ==
    /\ charge' = [charge EXCEPT ![c] = s]
    /\ notices' = notices \cup {c}

\* A pending charge is paid, refused or cancelled; an approved one may be
\* refunded from the provider's own panel.
ProviderMoves(c, s) ==
    /\ \/ charge[c] = "pending" /\ s \in {"approved", "refused", "cancelled"}
       \/ charge[c] = "approved" /\ s = "refunded"
    /\ ChargeBecomes(c, s)
    /\ UNCHANGED <<order, deadline, payment, handler, intent, expiry, admin>>

\* Notifications are repeated, and an administrator may reprocess a payment.
NotifyAgain(c) ==
    /\ charge[c] # "none"
    /\ notices' = notices \cup {c}
    /\ UNCHANGED <<order, deadline, payment, charge, handler, intent, expiry, admin>>

----------------------------------------------------------------------------
(* Time and people *)

TimePasses ==
    /\ \/ deadline = "live" /\ deadline' = "expired"
       \/ deadline = "expired" /\ deadline' = "grace_over"
    /\ UNCHANGED <<order, payment, charge, notices, handler, intent, expiry, admin>>

\* OrdersService.cancel: payments are not looked at.
CustomerCancels ==
    /\ order = "awaiting_payment"
    /\ order' = "cancelled"
    /\ UNCHANGED <<deadline, payment, charge, notices, handler, intent, expiry, admin>>

\* adminUpdateFulfillmentStatus (its own race is in OrderStock).
Fulfill(to) ==
    /\ canTransition(order, to)
    /\ order' = to
    /\ UNCHANGED <<deadline, payment, charge, notices, handler, intent, expiry, admin>>

----------------------------------------------------------------------------
(* PaymentsService.createIntent *)

\* Validations on the order and payments as read.  A pending payment is a
\* conflict unless the same key is replayed after an interrupted attempt.
BeginIntent ==
    /\ intent.pc = "idle" /\ handler["checkout"].pc = "idle"
    /\ order = "awaiting_payment" /\ deadline = "live"
    /\ HasStatus("approved") = {}
    /\ intent' = [NoIntent EXCEPT !.pc = "validated"]
    /\ UNCHANGED <<order, deadline, payment, charge, notices, handler, expiry, admin>>

\* The short transaction: reuse the pending row or create one.  It does not
\* read the order again.  A row that already has an externalId is returned
\* as it is.
OpenPayment ==
    /\ intent.pc = "validated"
    /\ LET pending == HasStatus("pending")
           fresh   == HasStatus("none")
       IN  \/ /\ HasStatus("approved") # {} \/ \E p \in pending : payment[p].ext # None
              /\ intent' = NoIntent
              /\ UNCHANGED payment
           \/ /\ HasStatus("approved") = {}
              /\ \E p \in pending :
                    payment[p].ext = None /\ intent' = [intent EXCEPT !.pc = "opened", !.p = p]
              /\ UNCHANGED payment
           \/ /\ HasStatus("approved") = {} /\ pending = {}
              /\ \E p \in fresh :
                    /\ \A q \in fresh : p <= q
                    /\ payment' = [payment EXCEPT ![p].status = "pending"]
                    /\ intent' = [intent EXCEPT !.pc = "opened", !.p = p]
    /\ UNCHANGED <<order, deadline, charge, notices, handler, expiry, admin>>

\* provider.createIntent: the charge is made once per key; a repeated key
\* gets the same charge.  The call may fail with or without having charged.
CallProvider ==
    /\ intent.pc = "opened"
    /\ \/ /\ charge[intent.p] = "none"
          /\ \E s \in {"pending", "approved", "refused"} : ChargeBecomes(intent.p, s)
       \/ UNCHANGED <<charge, notices>>
    /\ \/ intent' = [intent EXCEPT !.pc = "failed"]
       \/ /\ charge'[intent.p] # "none"
          /\ intent' = [intent EXCEPT !.pc = "charged", !.answer = charge'[intent.p]]
    /\ UNCHANGED <<order, deadline, payment, handler, expiry, admin>>

\* The catch branch of the provider call.
CloseFailedIntent ==
    /\ intent.pc = "failed"
    /\ payment' = [payment EXCEPT ![intent.p].status = "cancelled"]
    /\ intent' = NoIntent
    /\ UNCHANGED <<order, deadline, charge, notices, handler, expiry, admin>>

\* UPDATE ... WHERE id: status and externalId are written whatever the row
\* holds by now.  An approval on the spot goes through applyProviderStatus.
PersistIntent ==
    LET p == intent.p IN
    /\ intent.pc = "charged"
    /\ intent.answer = "refused" \/ HasStatus("pending") \subseteq {p}   \* unique pending
    /\ ~Taken(p, p)
    /\ payment' = [payment EXCEPT ![p] =
          [status |-> IF intent.answer = "refused" THEN "refused" ELSE "pending", ext |-> p]]
    /\ handler' = IF intent.answer = "approved"
                  THEN [handler EXCEPT !["checkout"] = Applying(p, "approved", p)]
                  ELSE handler
    /\ intent' = IF intent.answer = "refused" THEN [intent EXCEPT !.pc = "refused"] ELSE NoIntent
    /\ UNCHANGED <<order, deadline, charge, notices, expiry, admin>>

\* Refused on the spot: the status is written once more, later and by id too.
RefuseIntent ==
    /\ intent.pc = "refused"
    /\ payment' = [payment EXCEPT ![intent.p].status = "refused"]
    /\ intent' = NoIntent
    /\ UNCHANGED <<order, deadline, charge, notices, handler, expiry, admin>>

\* The update fails: cancelIntent at the provider, best effort, and close.
PersistFails ==
    /\ intent.pc = "charged"
    /\ IF charge[intent.p] = "pending" THEN ChargeBecomes(intent.p, "cancelled")
       ELSE UNCHANGED <<charge, notices>>
    /\ intent' = [intent EXCEPT !.pc = "failed"]
    /\ UNCHANGED <<order, deadline, payment, handler, expiry, admin>>

CheckoutDies ==
    /\ intent.pc # "idle"
    /\ intent' = NoIntent
    /\ UNCHANGED <<order, deadline, payment, charge, notices, handler, expiry, admin>>

----------------------------------------------------------------------------
(* PaymentsService.handleWebhook, up to the apply *)

\* The event row is stored and the payment fetched from the provider.
Fetch(w, c) ==
    /\ handler[w].pc = "idle" /\ c \in notices
    /\ handler' = [handler EXCEPT ![w] =
          [Idle EXCEPT !.pc = "fetched", !.charge = c, !.seen = charge[c]]]
    /\ UNCHANGED <<order, deadline, payment, charge, notices, intent, expiry, admin>>

\* The answer 2xx: the provider stops repeating this status of the charge.
Answered(h) ==
    IF h \in Workers /\ handler[h].seen = charge[handler[h].charge]
    THEN notices \ {handler[h].charge} ELSE notices

Done(h) ==
    /\ notices' = Answered(h)
    /\ handler' = [handler EXCEPT ![h] = Idle]

\* pickLinkablePayment over the payments in descending createdAt: a pending
\* row without externalId first, else the newest unbound one.
Unbound == { p \in Bound(None) : payment[p].status \in {"pending", "cancelled", "expired", "refused"} }
Linkable ==
    LET pending == Unbound \cap HasStatus("pending")
        newest(S) == { p \in S : \A q \in S : q <= p }
    IN  IF pending # {} THEN newest(pending) ELSE newest(Unbound)

\* The payment by externalId.
Lookup(w) ==
    LET c == handler[w].charge IN
    /\ handler[w].pc = "fetched"
    /\ \/ \E p \in Bound(c) : handler' = [handler EXCEPT ![w].pc = "resolved", ![w].local = p]
       \/ Bound(c) = {} /\ handler' = [handler EXCEPT ![w].pc = "unbound"]
    /\ UNCHANGED <<order, deadline, payment, charge, notices, intent, expiry, admin>>

\* Else, by a second query, the order of its external_reference with its
\* payments; what became bound since is not seen as such.
PickPayment(w) ==
    LET candidates == IF handler[w].charge \in Strays THEN {} ELSE Linkable IN
    /\ handler[w].pc = "unbound"
    /\ \/ \E p \in candidates : handler' = [handler EXCEPT ![w].pc = "linking", ![w].local = p]
       \/ candidates = {} /\ handler' = [handler EXCEPT ![w].pc = "orphaned"]
    /\ UNCHANGED <<order, deadline, payment, charge, notices, intent, expiry, admin>>

\* UPDATE ... SET externalId WHERE id, whatever the row holds by now.  When
\* another row has it by now the update throws, and so does the request.
Link(w) ==
    /\ handler[w].pc = "linking"
    /\ IF Taken(handler[w].local, handler[w].charge)
       THEN handler' = [handler EXCEPT ![w] = Idle] /\ UNCHANGED payment
       ELSE /\ payment' = [payment EXCEPT ![handler[w].local].ext = handler[w].charge]
            /\ handler' = [handler EXCEPT ![w].pc = "resolved"]
    /\ UNCHANGED <<order, deadline, charge, notices, intent, expiry, admin>>

\* No local payment: the orphan row for the administrators is inserted, or
\* overwritten with the status that was fetched, and the event counts as
\* applied: a repetition of it is answered 2xx as a duplicate.
RecordOrphan(w) ==
    /\ handler[w].pc = "orphaned"
    /\ orphans' = [orphans EXCEPT ![handler[w].charge].row = handler[w].seen]
    /\ notices' = Answered(w)
    /\ handler' = [handler EXCEPT ![w].pc = "report"]
    /\ UNCHANGED <<order, deadline, payment, charge, intent, expiry, flagged, unflagged>>

\* Then the discrepancy, best effort; an open one takes the new severity.
ReportOrphan(w) ==
    /\ handler[w].pc = "report"
    /\ \/ orphans' = [orphans EXCEPT ![handler[w].charge].alert =
                          IF handler[w].seen = "approved" THEN "CRITICAL" ELSE "LOW"]
       \/ UNCHANGED orphans
    /\ handler' = [handler EXCEPT ![w] = Idle]
    /\ UNCHANGED <<order, deadline, payment, charge, notices, intent, expiry, flagged, unflagged>>

----------------------------------------------------------------------------
(* PaymentsService.applyProviderStatus *)

\* The branch taken on the provider's status, from the payment and the
\* order as they are read together at the start.
\* currentPaymentState is taken from the status: no chargebacks here.
BranchBlindNoop(seen, pay, ord) ==  \* mutant: an approved payment is never looked at again
    CASE seen = "approved" /\ pay \in {"refunded", "refused"} -> "forbid"
      [] seen = "approved" /\ pay = "approved" -> "answer"
      [] seen = "approved" /\ ord = "cancelled" -> "orphan"
      [] seen = "approved" /\ ord \in {"awaiting_payment", "paid"} -> "approve"
      [] seen \in {"refused", "cancelled"} /\ pay = "pending" -> "close"
      [] seen = "refunded" /\ pay = "approved" -> "refunding"
      [] OTHER -> "answer"

Branch(seen, pay, ord) ==
    CASE seen = "approved" /\ pay \in {"refunded", "refused"} -> "forbid"
      [] seen = "approved" /\ ord = "cancelled" -> "orphan"
      [] seen = "approved" /\ ord = "awaiting_payment" -> "approve"
      [] seen = "approved" /\ ord = "paid" /\ pay # "approved" -> "approve"
      [] seen \in {"refused", "cancelled"} /\ pay = "pending" -> "close"
      [] seen = "refunded" /\ pay = "approved" -> "refunding"
      [] OTHER -> "answer"

ReadLocal(h) ==
    /\ handler[h].pc = "resolved"
    /\ handler' = [handler EXCEPT
          ![h].pc = Branch(handler[h].seen, payment[handler[h].local].status, order)]
    /\ UNCHANGED <<order, deadline, payment, charge, notices, intent, expiry, admin>>

\* Nothing to apply (or already applied).
AnswerOnly(h) ==
    /\ handler[h].pc = "answer"
    /\ Done(h)
    /\ UNCHANGED <<order, deadline, payment, charge, intent, expiry, admin>>

\* finance.openDiscrepancy in a try whose catch only counts the failure: the
\* handler goes on, and answers, with or without the row.
OpenDiscrepancy(c) ==
    \/ flagged' = flagged \cup {c} /\ unflagged' = unflagged \ {c}
    \/ unflagged' = unflagged \cup ({c} \ flagged) /\ UNCHANGED flagged

\* Money that left, or was refused, cannot come back: a discrepancy instead.
Forbid(h) ==
    /\ handler[h].pc = "forbid"
    /\ OpenDiscrepancy(handler[h].charge)
    /\ Done(h)
    /\ UNCHANGED <<order, deadline, payment, charge, intent, expiry, orphans>>

\* Refused or cancelled at the provider: an unconditional update.
ClosePayment(h) ==
    /\ handler[h].pc = "close"
    /\ payment' = [payment EXCEPT ![handler[h].local].status = handler[h].seen]
    /\ Done(h)
    /\ UNCHANGED <<order, deadline, charge, intent, expiry, admin>>

\* The payment is marked approved first, by an unconditional update, which
\* throws when the externalId is on another row by now.
Approve(h) ==
    /\ handler[h].pc = "approve"
    /\ IF Taken(handler[h].local, handler[h].charge)
       THEN handler' = [handler EXCEPT ![h] = Idle] /\ UNCHANGED payment
       ELSE /\ payment' = [payment EXCEPT ![handler[h].local] =
                               [status |-> "approved", ext |-> handler[h].charge]]
            /\ handler' = [handler EXCEPT ![h].pc = "transition"]
    /\ UNCHANGED <<order, deadline, charge, notices, intent, expiry, admin>>

\* Then transitionFromAwaiting(order, 'paid'); the loser of the race looks
\* at the order again.
TransitionUnconditional(h) ==       \* mutant: UPDATE without WHERE status
    /\ handler[h].pc = "transition"
    /\ order' = "paid"
    /\ Done(h)
    /\ UNCHANGED <<deadline, payment, charge, intent, expiry, admin>>

TransitionToPaid(h) ==
    /\ handler[h].pc = "transition"
    /\ IF order = "cancelled"
       THEN /\ handler' = [handler EXCEPT ![h].pc = "compensate"]
            /\ UNCHANGED <<order, notices>>
       ELSE /\ order' = IF order = "awaiting_payment" THEN "paid" ELSE order
            /\ Done(h)
    /\ UNCHANGED <<deadline, payment, charge, intent, expiry, admin>>

\* Approved for an order that was cancelled before the read.
ApproveOrphan(h) ==
    /\ handler[h].pc = "orphan"
    /\ payment' = [payment EXCEPT ![handler[h].local].status = "approved"]
    /\ handler' = [handler EXCEPT ![h].pc = "compensate"]
    /\ UNCHANGED <<order, deadline, charge, notices, intent, expiry, admin>>

\* provider.refund, best effort; then the CRITICAL discrepancy, best effort too.
Compensate(h) ==
    /\ handler[h].pc = "compensate"
    /\ \/ /\ charge[handler[h].charge] = "approved"
          /\ ChargeBecomes(handler[h].charge, "refunded")
       \/ UNCHANGED <<charge, notices>>
    /\ handler' = [handler EXCEPT ![h].pc = "flag"]
    /\ UNCHANGED <<order, deadline, payment, intent, expiry, admin>>

FlagApprovedAfterCancel(h) ==
    /\ handler[h].pc = "flag"
    /\ OpenDiscrepancy(handler[h].charge)
    /\ Done(h)
    /\ UNCHANGED <<order, deadline, payment, charge, intent, expiry, orphans>>

\* finalizeRefundLocal reads payment and order together.
ReadForRefund(h) ==
    /\ handler[h].pc = "refunding"
    /\ IF payment[handler[h].local].status = "refunded"
       THEN Done(h)
       ELSE /\ handler' = [handler EXCEPT ![h].pc = "finalize", ![h].from = order]
            /\ UNCHANGED notices
    /\ UNCHANGED <<order, deadline, payment, charge, intent, expiry, admin>>

\* Its transaction: payment and order by compare-and-set, the order against
\* the status that was read.
FinalizeRefund(h) ==
    LET p == handler[h].local
        from == handler[h].from
        takes == payment[p].status = "approved"
    IN  /\ handler[h].pc = "finalize"
        /\ payment' = IF takes THEN [payment EXCEPT ![p].status = "refunded"] ELSE payment
        /\ order' = IF takes /\ isRefundAllowed(from) /\ order = from
                    THEN "refunded" ELSE order
        /\ Done(h)
        /\ UNCHANGED <<deadline, charge, intent, expiry, admin>>

\* The handler's process dies, or a query throws: no 2xx.
SwallowedError(h) ==                \* mutant: an exception still answers 2xx
    /\ handler[h].pc # "idle"
    /\ Done(h)
    /\ UNCHANGED <<order, deadline, payment, charge, intent, expiry, admin>>

HandlerDies(h) ==
    /\ handler[h].pc # "idle"
    /\ handler' = [handler EXCEPT ![h] = Idle]
    /\ UNCHANGED <<order, deadline, payment, charge, notices, intent, expiry, admin>>

ApplySteps(h) ==
    \/ ReadLocal(h) \/ AnswerOnly(h) \/ Forbid(h) \/ ClosePayment(h)
    \/ Approve(h) \/ TransitionToPaid(h) \/ ApproveOrphan(h) \/ Compensate(h)
    \/ FlagApprovedAfterCancel(h) \/ ReadForRefund(h) \/ FinalizeRefund(h)

----------------------------------------------------------------------------
(* PaymentsService.adminRefund: the provider returns the money first; when *)
(* it says refunded, the same local finalisation runs.                     *)

AdminRefund(p) ==
    LET c == payment[p].ext IN
    /\ handler["admin"].pc = "idle"
    /\ payment[p].status = "approved" /\ c # None
    /\ isRefundAllowed(order)
    /\ charge[c] \in {"approved", "refunded"}
    /\ IF charge[c] = "approved" THEN ChargeBecomes(c, "refunded")
       ELSE UNCHANGED <<charge, notices>>
    /\ handler' = [handler EXCEPT !["admin"] =
                       [Applying(c, "refunded", p) EXCEPT !.pc = "refunding"]]
    /\ UNCHANGED <<order, deadline, payment, intent, expiry, admin>>

----------------------------------------------------------------------------
(* OrdersService.expireReservations, for this order *)

\* findMany with the payments: an approved one, or a pending one within the
\* grace period, leaves the order alone.
ReadExpiredWithoutPending ==        \* mutant: a pending payment blocks for ever
    /\ expiry.pc = "idle"
    /\ order = "awaiting_payment" /\ deadline # "live"
    /\ HasStatus("approved") \cup HasStatus("pending") = {}
    /\ expiry' = [expiry EXCEPT !.pc = "decided"]
    /\ UNCHANGED <<order, deadline, payment, charge, notices, handler, intent, admin>>

ReadExpired ==
    /\ expiry.pc = "idle"
    /\ order = "awaiting_payment" /\ deadline # "live"
    /\ HasStatus("approved") = {}
    /\ HasStatus("pending") # {} => deadline = "grace_over"
    /\ expiry' = [expiry EXCEPT !.pc = "decided"]
    /\ UNCHANGED <<order, deadline, payment, charge, notices, handler, intent, admin>>

\* transitionFromAwaiting(order, 'cancelled')
ExpireOrder ==
    /\ expiry.pc = "decided"
    /\ IF order = "awaiting_payment"
       THEN order' = "cancelled" /\ expiry' = [expiry EXCEPT !.pc = "sweeping"]
       ELSE expiry' = NoSweep /\ UNCHANGED order
    /\ UNCHANGED <<deadline, payment, charge, notices, handler, intent, admin>>

\* Pending payments become expired by compare-and-set.
ExpirePaymentsWithNulls ==          \* mutant: rows without externalId are kept
    /\ expiry.pc = "sweeping"
    /\ payment' = [p \in Payments |-> IF p \in HasStatus("pending")
                       THEN [payment[p] EXCEPT !.status = "expired"] ELSE payment[p]]
    /\ expiry' = [pc |-> "remote", remote |-> { payment[p].ext : p \in HasStatus("pending") }]
    /\ UNCHANGED <<order, deadline, charge, notices, handler, intent, admin>>

ExpirePayments ==
    /\ expiry.pc = "sweeping"
    /\ payment' = [p \in Payments |-> IF p \in HasStatus("pending")
                       THEN [payment[p] EXCEPT !.status = "expired"] ELSE payment[p]]
    /\ expiry' = [pc |-> "remote", remote |-> { payment[p].ext : p \in HasStatus("pending") } \ {None}]
    /\ UNCHANGED <<order, deadline, charge, notices, handler, intent, admin>>

\* cancelIntent for each, best effort.
CancelRemote ==
    /\ expiry.pc = "remote"
    /\ \/ expiry.remote = {} /\ expiry' = NoSweep /\ UNCHANGED <<charge, notices>>
       \/ \E c \in expiry.remote :
             /\ expiry' = [expiry EXCEPT !.remote = @ \ {c}]
             /\ IF charge[c] = "pending" THEN ChargeBecomes(c, "cancelled")
                ELSE UNCHANGED <<charge, notices>>
    /\ UNCHANGED <<order, deadline, payment, handler, intent, admin>>

ExpiryDies ==
    /\ expiry.pc # "idle"
    /\ expiry' = NoSweep
    /\ UNCHANGED <<order, deadline, payment, charge, notices, handler, intent, admin>>

----------------------------------------------------------------------------
WebhookSteps(w) ==
    \/ \E c \in Charges : Fetch(w, c)
    \/ Lookup(w) \/ PickPayment(w) \/ Link(w) \/ RecordOrphan(w) \/ ReportOrphan(w)

IntentSteps ==
    \/ BeginIntent \/ OpenPayment \/ CallProvider \/ CloseFailedIntent
    \/ PersistIntent \/ RefuseIntent \/ PersistFails \/ CheckoutDies

ExpirySteps ==
    \/ ReadExpired \/ ExpireOrder \/ ExpirePayments \/ CancelRemote \/ ExpiryDies

ProviderSteps ==
    \E c \in Charges :
        \/ NotifyAgain(c)
        \/ \E s \in {"approved", "refused", "cancelled", "refunded"} : ProviderMoves(c, s)

Next ==
    \/ ProviderSteps \/ IntentSteps \/ ExpirySteps
    \/ TimePasses \/ CustomerCancels
    \/ \E to \in FulfillTargets : Fulfill(to)
    \/ \E p \in Payments : AdminRefund(p)
    \/ \E w \in Workers : WebhookSteps(w)
    \/ \E h \in Handlers : ApplySteps(h) \/ HandlerDies(h)

Spec == Init /\ [][Next]_vars

Deaths == CheckoutDies \/ ExpiryDies \/ \E h \in Handlers : HandlerDies(h)

\* Time passes; the provider repeats a notification until it is answered; the
\* expiry job ticks every minute; a handler goes on unless it dies, and
\* processes do not die for ever.
Fairness ==
    /\ WF_vars(TimePasses)
    /\ \A w \in Workers : WF_vars(WebhookSteps(w) \/ ApplySteps(w))
    /\ WF_vars(ApplySteps("checkout"))
    /\ WF_vars(ApplySteps("admin"))
    /\ WF_vars(OpenPayment \/ CallProvider \/ CloseFailedIntent \/ PersistIntent \/ RefuseIntent
               \/ PersistFails)
    /\ WF_vars(ReadExpired \/ ExpireOrder \/ ExpirePayments \/ CancelRemote)
    /\ <>[][~Deaths]_vars

----------------------------------------------------------------------------
(* Properties *)

HandlerSteps == { "idle", "fetched", "unbound", "linking", "orphaned", "report", "resolved",
                  "answer", "forbid", "close", "approve", "transition", "orphan", "compensate", "flag", "refunding",
                  "finalize" }
ChargeStatuses == { "none", "pending", "approved", "refused", "cancelled", "refunded" }

\* Types of the rows and of what the handlers carry.
TypeOK ==
    /\ order \in OrderStatuses
    /\ deadline \in {"live", "expired", "grace_over"}
    /\ payment \in [Payments -> [status : ChargeStatuses \cup {"expired"}, ext : Payments \cup {None}]]
    /\ charge \in [Charges -> ChargeStatuses]
    /\ notices \subseteq Charges
    /\ handler \in [Handlers -> [pc : HandlerSteps, charge : Charges \cup {None},
                                 seen : ChargeStatuses, local : Payments \cup {None},
                                 from : OrderStatuses \cup {"none"}]]
    /\ intent \in [pc : {"idle", "validated", "opened", "charged", "refused", "failed"},
                   p : Payments \cup {None}, answer : ChargeStatuses]
    /\ expiry \in [pc : {"idle", "decided", "sweeping", "remote"}, remote : SUBSET Payments]
    /\ flagged \subseteq Charges
    /\ unflagged \subseteq Charges
    /\ orphans \in [Charges -> [row : ChargeStatuses, alert : {"none", "LOW", "CRITICAL"}]]

\* The order and the provider's money, as OrderMoney sees them: no
\* interleaving of webhooks, checkout, jobs and people pays an order nobody
\* was charged for, refunds one whose money did not go back, or leaves the
\* allowlist.
Captured == { c \in Payments : charge[c] \in {"approved", "refunded"} }
Returned == { c \in Payments : charge[c] = "refunded" }

OM == INSTANCE OrderMoney WITH Charges <- Payments, captured <- Captured, returned <- Returned

ImplementsOrderMoney == OM!Spec

\* No notification is outstanding and nobody is in the middle of anything.
Settled ==
    /\ notices = {}
    /\ \A h \in Handlers : handler[h].pc = "idle"
    /\ intent.pc = "idle" /\ expiry.pc = "idle"

\* No paid order stands behind the money of the charge.
Unpaid == {"awaiting_payment", "cancelled"}
Unearned(c) == charge[c] = "approved" /\ (c \in Strays \/ order \in Unpaid)

\* When everything has settled, money the provider holds without a paid order
\* is in front of a person: the webhook that found the order cancelled left a
\* discrepancy, the one that found no payment to apply to an orphan row,
\* whoever died on the way and whichever of the cancel and the approval came
\* first.  The one exception is a charge whose own discrepancy could not be
\* written: that error is swallowed, the webhook is answered, and nothing comes
\* back to it (see the README).
CaptureIsAccounted ==
    Settled => \A c \in Charges :
        Unearned(c) => c \in flagged \cup unflagged \/ orphans[c].row # "none"

\* finance.db.spec.ts S09: an approved payment without a local one ends in the
\* queue and in a CRITICAL discrepancy.  The code does not keep it so: two
\* webhooks of one charge write in the order they come, not in that of what
\* they fetched, and the older status and severity stay (see the README).
OrphanStaysCritical ==
    Settled => \A c \in Charges : Unearned(c) =>
        c \in flagged \cup unflagged \/ orphans[c].row = "approved" \/ orphans[c].alert = "CRITICAL"

\* Money the provider took ends in a paid (later refunded) order, or goes
\* back, or is flagged: a death between the approval of the payment and the
\* order's transition is repaired by the redelivered webhook.  Out of this falls
\* only the charge whose discrepancy could not be written, as above.
CaptureResolves ==
    \A c \in Charges : charge[c] = "approved" ~>
        \/ c \in Payments /\ order \in POST_PAID_STATUSES \cup {"refunded"}
        \/ c \in flagged \cup unflagged \/ orphans[c].row = "approved"
        \/ charge[c] = "refunded"

\* An order never holds its reservation for ever: it is paid, cancelled or
\* expired.  The exceptions are payments recorded as approved, because the
\* expiry job leaves such an order to the reconciliation (APPROVED_ORDER_NOT_PAID):
\* one whose money the provider has already returned, and one whose webhook came
\* between the checkout's charge and its row and left an orphan row instead,
\* when the checkout then dies before it pays the order.
ApprovedButReturned ==
    \E p \in HasStatus("approved") : payment[p].ext # None /\ charge[payment[p].ext] = "refunded"

ApprovedButOrphaned ==
    \E p \in HasStatus("approved") : payment[p].ext # None /\ orphans[payment[p].ext].row # "none"

ReservationEnds ==
    order = "awaiting_payment"
        ~> (order # "awaiting_payment" \/ ApprovedButReturned \/ ApprovedButOrphaned)

\* reconciliation-checks.ts raises ORDER_PAID_WITHOUT_PAYMENT (CRITICAL) for a
\* paid order without an approved or refunded payment.  The code reaches it:
\* see the README.
PaidOrderHasPayment ==
    order \in POST_PAID_STATUSES =>
        HasStatus("approved") \cup HasStatus("refunded") # {}
============================================================================
