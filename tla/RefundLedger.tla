---------------------------- MODULE RefundLedger ----------------------------
(***************************************************************************)
(* The refunds of one approved payment: administrators request, retry and  *)
(* refresh refunds, the provider makes them or not, refunds are also made  *)
(* in the provider's own panel, webhooks observe the result, and both      *)
(* sides write the same debits to the ledger under a key per provider      *)
(* refund.                                                                 *)
(*                                                                         *)
(* A step is one query, one transaction or one provider call; handlers may *)
(* die between two steps.  The provider is called for refund r under the   *)
(* key sch-refund-<r>, so r also names the one provider refund it can make.*)
(* Amounts are units of money (the code rounds to cents).                  *)
(***************************************************************************)
EXTENDS Integers, FiniteSets, Tally

CONSTANTS
    Refunds,    \* PaymentRefund rows, and the provider refunds they make
    Panel,      \* refunds made in the provider's panel
    Clerks,     \* administrators' requests being handled at once
    Hooks,      \* webhook requests being handled at once
    Paid,       \* Payment.amount
    Answers     \* bound: what the provider may answer, see CallProvider

ASSUME RefundLedgerAssumption ==
    /\ IsFiniteSet(Refunds) /\ IsFiniteSet(Panel) /\ Refunds \cap Panel = {}
    /\ Clerks \cap Hooks = {}
    /\ Paid \in Nat \ {0}
    /\ Answers \subseteq {"approved", "in_process", "lost", "refused"}

Ids == Refunds \cup Panel
Handlers == Clerks \cup Hooks
All == 0        \* createRefund without an amount: whatever is left

VARIABLES
    pay,        \* Payment: status and financialState
    refund,     \* PaymentRefund rows; mp: providerRefundId is set
    remote,     \* the provider's refunds of the payment
    ledger,     \* debits REFUND_COMPLETED:mp:<id>, 0 when absent
    synced,     \* debits REFUND_COMPLETED:sync:<payment>:<cap>, 0 when absent
    handler     \* requests and webhooks in progress

vars == <<pay, refund, remote, ledger, synced, handler>>

NoRow == [status |-> "none", amount |-> 0, full |-> FALSE, mp |-> FALSE]
Idle == [pc |-> "idle", r |-> "none", send |-> All, total |-> 0, seen |-> {}, listed |-> FALSE]

Init ==
    /\ pay = [status |-> "approved", state |-> "PAID"]
    /\ refund = [r \in Refunds |-> NoRow]
    /\ remote = [i \in Ids |-> [status |-> "none", amount |-> 0]]
    /\ ledger = [i \in Ids |-> 0]
    /\ synced = [cap \in 1 .. Paid |-> 0]
    /\ handler = [h \in Handlers |-> Idle]

----------------------------------------------------------------------------
(* Sums *)

Asked == [r \in Refunds |-> refund[r].amount]
Moved == [i \in Ids |-> remote[i].amount]
RowsIn(statuses) == { r \in Refunds : refund[r].status \in statuses }
RemoteIn(statuses) == { i \in Ids : remote[i].status \in statuses }

ACTIVE_REFUND_STATUSES == {"REQUESTED", "PROCESSING", "COMPLETED", "UNKNOWN"}
INFLIGHT_REFUND_STATUSES == {"REQUESTED", "PROCESSING", "UNKNOWN"}

Active == Tally(RowsIn(ACTIVE_REFUND_STATUSES), Asked, Paid)
InFlight == Tally(RowsIn(INFLIGHT_REFUND_STATUSES), Asked, Paid)

\* summarizeRefundLedger: all debits, and those no local refund owns.
Debited == Tally(Ids, ledger, Paid) + Tally(1 .. Paid, synced, Paid)
External ==
    Tally(Panel \cup { r \in Refunds : ~refund[r].mp }, ledger, Paid)
        + Tally(1 .. Paid, synced, Paid)

Returned == Tally(RemoteIn({"approved"}), Moved, Paid)
Remaining == Paid - Tally(RemoteIn({"approved", "in_process"}), Moved, Paid)

\* computeRefundable
Refundable == Paid - Active - External

Least(a, b) == IF a <= b THEN a ELSE b
Goto(h, pc) == handler' = [handler EXCEPT ![h].pc = pc]
Finish(h) == handler' = [handler EXCEPT ![h] = Idle]

----------------------------------------------------------------------------
(* The provider *)

Settle(i, s) ==
    /\ remote[i].status = "in_process" /\ s \in {"approved", "rejected"}
    /\ remote' = [remote EXCEPT ![i].status = s]
    /\ UNCHANGED <<pay, refund, ledger, synced, handler>>

PanelRefund(i) ==
    /\ remote[i].status = "none"
    /\ \E amount \in 1 .. Remaining :
          remote' = [remote EXCEPT ![i] = [status |-> "approved", amount |-> amount]]
    /\ UNCHANGED <<pay, refund, ledger, synced, handler>>

----------------------------------------------------------------------------
(* RefundsService.requestRefund and execute *)

\* Under the payment's row lock: never more than is still refundable.
RequestRefund(h, r) ==
    /\ handler[h].pc = "idle" /\ refund[r].status = "none"
    /\ pay.status = "approved" /\ pay.state \in {"PAID", "PARTIALLY_REFUNDED"}
    /\ \E amount \in 1 .. Refundable :
          refund' = [refund EXCEPT ![r] =
              [NoRow EXCEPT !.status = "REQUESTED", !.amount = amount,
                            !.full = (amount = Refundable)]]
    /\ handler' = [handler EXCEPT ![h] = [Idle EXCEPT !.pc = "claim", !.r = r]]
    /\ UNCHANGED <<pay, remote, ledger, synced>>

\* The compare-and-set that makes one handler the executor.
Claim(h) ==
    LET r == handler[h].r IN
    /\ handler[h].pc = "claim"
    /\ IF refund[r].status \in {"REQUESTED", "UNKNOWN"}
       THEN refund' = [refund EXCEPT ![r].status = "PROCESSING"] /\ Goto(h, "count")
       ELSE Finish(h) /\ UNCHANGED refund
    /\ UNCHANGED <<pay, remote, ledger, synced>>

\* priorCompleted: the only refund of the payment is sent without amount.
CountPrior(h) ==
    LET r == handler[h].r
        prior == RowsIn({"COMPLETED", "PROCESSING", "UNKNOWN"}) \ {r}
    IN  /\ handler[h].pc = "count"
        /\ handler' = [handler EXCEPT ![h].pc = "call",
              ![h].send = IF refund[r].full /\ prior = {} THEN All ELSE refund[r].amount]
        /\ UNCHANGED <<pay, refund, remote, ledger, synced>>

\* provider.createRefund.  A known key gets its refund again; a new one is
\* accepted within what remains, else refused (4xx).  The answer may be lost
\* (5xx, network), with or without effect; "refused" is a 4xx that says
\* nothing of the refund (credentials, too many requests).
AfterAnswer(status) ==
    CASE status = "approved"   -> "complete"
      [] status = "in_process" -> "processing"
      [] status = "rejected"   -> "fail"

CallProvider(h) ==
    LET r   == handler[h].r
        ask == IF handler[h].send = All THEN Remaining ELSE handler[h].send
    IN  /\ handler[h].pc = "call"
        /\ \/ /\ remote[r].status # "none"
              /\ UNCHANGED remote
              /\ Goto(h, AfterAnswer(remote[r].status))
           \/ /\ remote[r].status = "none" /\ ask \in 1 .. Remaining
              /\ \E s \in Answers \cap {"approved", "in_process"} :
                    /\ remote' = [remote EXCEPT ![r] = [status |-> s, amount |-> ask]]
                    /\ Goto(h, AfterAnswer(s)) \/ ("lost" \in Answers /\ Goto(h, "unknown"))
           \/ /\ remote[r].status = "none" /\ ask \notin 1 .. Remaining
              /\ UNCHANGED remote
              /\ Goto(h, "fail")
           \/ /\ "lost" \in Answers
              /\ UNCHANGED remote
              /\ Goto(h, "unknown")
           \/ /\ "refused" \in Answers
              /\ UNCHANGED remote
              /\ Goto(h, "fail")
        /\ UNCHANGED <<pay, refund, ledger, synced>>

\* in_process: the provider's id is kept for the refresh.
MarkProcessing(h) ==
    /\ handler[h].pc = "processing"
    /\ refund' = [refund EXCEPT ![handler[h].r].mp = TRUE]
    /\ Finish(h)
    /\ UNCHANGED <<pay, remote, ledger, synced>>

MarkFailed(h) ==
    /\ handler[h].pc = "fail"
    /\ refund' = [refund EXCEPT ![handler[h].r].status = "FAILED"]
    /\ Finish(h)
    /\ UNCHANGED <<pay, remote, ledger, synced>>

MarkUnknown(h) ==
    /\ handler[h].pc = "unknown"
    /\ refund' = [refund EXCEPT ![handler[h].r].status = "UNKNOWN"]
    /\ Finish(h)
    /\ UNCHANGED <<pay, remote, ledger, synced>>

\* markCompleted's transaction, under the payment's row lock: the debit is
\* written once per provider refund and never beyond what was paid.
CompletionDebitUncapped(r) ==       \* mutant: the ledger's total is not looked at
    IF ledger[r] # 0 THEN ledger[r] ELSE refund[r].amount

CompletionDebitAgain(r) ==          \* mutant: a debit that is there is replaced
    Least(refund[r].amount, Paid - Debited)

CompletionDebit(r) ==
    IF ledger[r] # 0 THEN ledger[r] ELSE Least(refund[r].amount, Paid - Debited)

MarkCompleted(h) ==
    LET r == handler[h].r IN
    /\ handler[h].pc = "complete"
    /\ refund' = [refund EXCEPT ![r].status = "COMPLETED", ![r].mp = TRUE]
    /\ ledger' = [ledger EXCEPT ![r] = CompletionDebit(r)]
    /\ Goto(h, "total")
    /\ UNCHANGED <<pay, remote, synced>>

\* The ledger's total decides between the total and the partial ending.
ReadTotal(h) ==
    /\ handler[h].pc = "total"
    /\ handler' = [handler EXCEPT ![h].total = Debited,
                       ![h].pc = IF Debited >= Paid THEN "final" ELSE "partial"]
    /\ UNCHANGED <<pay, refund, remote, ledger, synced>>

----------------------------------------------------------------------------
(* RefundsService.retry and refreshFromProvider *)

\* A row is stale when it was not touched for two minutes; provider calls
\* give up after one, so its executor is gone.
Stale(r) == \A h \in Clerks : handler[h].r = r => handler[h].pc \in {"reopen", "refresh"}

ReadRetry(h, r) ==
    /\ handler[h].pc = "idle"
    /\ \/ refund[r].status = "UNKNOWN"
       \/ refund[r].status \in {"REQUESTED", "PROCESSING"} /\ Stale(r)
    /\ handler' = [handler EXCEPT ![h] =
          [Idle EXCEPT !.pc = IF refund[r].status = "PROCESSING" THEN "reopen" ELSE "claim",
                       !.r = r]]
    /\ UNCHANGED <<pay, refund, remote, ledger, synced>>

\* UPDATE ... SET status = 'UNKNOWN' WHERE id, whatever the row holds by now.
WriteRetry(h) ==
    /\ handler[h].pc = "reopen"
    /\ refund' = [refund EXCEPT ![handler[h].r].status = "UNKNOWN"]
    /\ Goto(h, "claim")
    /\ UNCHANGED <<pay, remote, ledger, synced>>

ReadRefresh(h, r) ==
    /\ handler[h].pc = "idle"
    /\ refund[r].status = "PROCESSING" /\ refund[r].mp
    /\ handler' = [handler EXCEPT ![h] = [Idle EXCEPT !.pc = "refresh", !.r = r]]
    /\ UNCHANGED <<pay, refund, remote, ledger, synced>>

\* provider.listRefunds
ListRefunds(h) ==
    LET s == remote[handler[h].r].status IN
    /\ handler[h].pc = "refresh"
    /\ IF s \in {"approved", "rejected"} THEN Goto(h, AfterAnswer(s)) ELSE Finish(h)
    /\ UNCHANGED <<pay, refund, remote, ledger, synced>>

----------------------------------------------------------------------------
(* FinancialRecorder: debits for what the provider reports *)

\* Provider refunds by id: each approved one without a debit gets its own, as
\* long as the target leaves room; the last may be cut.
DebitEach(cap, list) ==
    LET missing == { i \in list : ledger[i] = 0 }
        room    == IF cap > Debited THEN cap - Debited ELSE 0
        owed    == Tally(missing, Moved, Paid)
    IN  /\ \E debit \in [missing -> 0 .. Paid] :
              /\ \A i \in missing : debit[i] <= remote[i].amount
              /\ Cardinality({ i \in missing : debit[i] \in 1 .. (remote[i].amount - 1) }) <= 1
              /\ Tally(missing, debit, Paid) = Least(owed, room)
              /\ ledger' = [i \in Ids |-> IF i \in missing THEN debit[i] ELSE ledger[i]]
        /\ UNCHANGED synced

\* Only an amount is known: the difference, less the local refunds in flight,
\* which write their own debit.
DebitAnyDifference(cap) ==          \* mutant: a negative difference is written
    LET delta == cap - Debited - InFlight IN
    /\ synced' = IF delta # 0 /\ synced[cap] = 0
                 THEN [synced EXCEPT ![cap] = delta] ELSE synced
    /\ UNCHANGED ledger

DebitDifference(cap) ==
    LET delta == cap - Debited - InFlight IN
    /\ synced' = IF delta > 0 /\ synced[cap] = 0
                 THEN [synced EXCEPT ![cap] = delta] ELSE synced
    /\ UNCHANGED ledger

recordObservedRefunds(target, list) ==
    LET cap == Least(target, Paid) IN
    IF list # {} THEN DebitEach(cap, list) ELSE DebitDifference(cap)

\* resolveTargetState and PAYMENT_TRANSITIONS, for a payment that was approved.
targetPaymentState(amount) ==
    IF pay.status = "refunded" \/ amount >= Paid THEN "REFUNDED"
    ELSE IF amount > 0 THEN "PARTIALLY_REFUNDED" ELSE "PAID"

canPaymentTransition(from, to) ==
    \/ from = "PAID" /\ to \in {"PARTIALLY_REFUNDED", "REFUNDED"}
    \/ from = "PARTIALLY_REFUNDED" /\ to = "REFUNDED"

\* syncPaymentState, one transaction under the payment's row lock: amount and
\* list are what was observed; reported says whether refunds were seen at all.
\* A forbidden transition changes nothing.
syncPaymentState(amount, list, reported) ==
    LET to     == targetPaymentState(amount)
        target == IF amount > 0 THEN amount ELSE Paid
    IN  /\ IF canPaymentTransition(pay.state, to) \/ (pay.state = to /\ to # "PAID" /\ reported)
           THEN recordObservedRefunds(target, list)
           ELSE UNCHANGED <<ledger, synced>>
        /\ pay' = IF canPaymentTransition(pay.state, to) THEN [pay EXCEPT !.state = to] ELSE pay

----------------------------------------------------------------------------
(* The two endings of a completed refund *)

\* A part of the payment: the state follows the ledger's total.
SyncPartial(h) ==
    /\ handler[h].pc = "partial"
    /\ syncPaymentState(handler[h].total, {}, TRUE)
    /\ Finish(h)
    /\ UNCHANGED <<refund, remote>>

\* A webhook goes on with its observation, a request is done.
AfterFinal(h) == IF h \in Hooks THEN Goto(h, "sync") ELSE Finish(h)

\* finalizeRefundLocal: read, compare-and-set, synchronise without observation.
ReadFinal(h) ==
    /\ handler[h].pc = "final"
    /\ IF pay.status = "refunded" THEN AfterFinal(h) ELSE Goto(h, "finalize")
    /\ UNCHANGED <<pay, refund, remote, ledger, synced>>

FinalizeRefund(h) ==
    /\ handler[h].pc = "finalize"
    /\ pay' = [pay EXCEPT !.status = "refunded"]
    /\ Goto(h, "sync_final")
    /\ UNCHANGED <<refund, remote, ledger, synced>>

SyncFinal(h) ==
    /\ handler[h].pc = "sync_final"
    /\ syncPaymentState(0, {}, FALSE)
    /\ AfterFinal(h)
    /\ UNCHANGED <<refund, remote>>

----------------------------------------------------------------------------
(* Webhooks: fetch, finalise if everything was refunded, synchronise *)

Observe(h) ==
    LET seen == RemoteIn({"approved"}) IN
    /\ handler[h].pc = "idle"
    /\ handler' = [handler EXCEPT ![h] =
          [Idle EXCEPT !.pc = IF Returned = Paid THEN "final" ELSE "sync",
                       !.seen = seen,
                       !.listed = (\E i \in Ids : remote[i].status # "none")]]
    /\ UNCHANGED <<pay, refund, remote, ledger, synced>>

SyncObserved(h) ==
    LET seen == handler[h].seen IN
    /\ handler[h].pc = "sync"
    /\ syncPaymentState(Tally(seen, Moved, Paid), seen, handler[h].listed)
    /\ Finish(h)
    /\ UNCHANGED <<refund, remote>>

\* syncPaymentStateSafe: an error is logged and the handler goes on.
SyncFails(h) ==
    /\ \/ handler[h].pc = "sync_final" /\ AfterFinal(h)
       \/ handler[h].pc = "sync" /\ Finish(h)
    /\ UNCHANGED <<pay, refund, remote, ledger, synced>>

HandlerDies(h) ==
    /\ handler[h].pc # "idle"
    /\ Finish(h)
    /\ UNCHANGED <<pay, refund, remote, ledger, synced>>

----------------------------------------------------------------------------
ClerkSteps(h) ==
    \/ \E r \in Refunds : RequestRefund(h, r) \/ ReadRetry(h, r) \/ ReadRefresh(h, r)
    \/ Claim(h) \/ CountPrior(h) \/ CallProvider(h) \/ MarkProcessing(h)
    \/ MarkFailed(h) \/ MarkUnknown(h) \/ MarkCompleted(h) \/ ReadTotal(h)
    \/ SyncPartial(h) \/ WriteRetry(h) \/ ListRefunds(h)

HookSteps(h) == Observe(h) \/ SyncObserved(h)

Next ==
    \/ \E i \in Ids, s \in {"approved", "rejected"} : Settle(i, s)
    \/ \E i \in Panel : PanelRefund(i)
    \/ \E h \in Clerks : ClerkSteps(h)
    \/ \E h \in Hooks : HookSteps(h)
    \/ \E h \in Handlers :
          ReadFinal(h) \/ FinalizeRefund(h) \/ SyncFinal(h) \/ SyncFails(h) \/ HandlerDies(h)

Spec == Init /\ [][Next]_vars

----------------------------------------------------------------------------
(* Properties *)

RefundStatuses == {"none", "REQUESTED", "PROCESSING", "COMPLETED", "FAILED", "UNKNOWN"}
HandlerSteps == { "idle", "claim", "count", "call", "complete", "processing", "fail", "unknown",
                  "total", "partial", "reopen", "refresh", "final", "finalize", "sync_final", "sync" }

\* Types of the rows, the provider's refunds and what the handlers carry.
TypeOK ==
    /\ pay \in [status : {"approved", "refunded"}, state : {"PAID", "PARTIALLY_REFUNDED", "REFUNDED"}]
    /\ refund \in [Refunds -> [status : RefundStatuses, amount : 0 .. Paid,
                               full : BOOLEAN, mp : BOOLEAN]]
    /\ remote \in [Ids -> [status : {"none", "in_process", "approved", "rejected"}, amount : 0 .. Paid]]
    /\ ledger \in [Ids -> 0 .. Paid]
    /\ synced \in [1 .. Paid -> 0 .. Paid]
    /\ handler \in [Handlers -> [pc : HandlerSteps, r : Refunds \cup {"none"}, send : 0 .. Paid,
                                 total : Nat, seen : SUBSET Ids, listed : BOOLEAN]]

\* The ledger never says that more money went back than the provider really
\* returned, although requests, retries and webhooks write the same debits.
\* Two requests executed at the same moment, or a refusal that says nothing of
\* the refund, can break it (README, section 5): the instances leave them out.
LedgerOnlyRealMoney == Debited <= Returned

\* The payment (and so its order, whose goods return to stock) is refunded only
\* once the provider has returned all of it.  Same limits.
RefundedInFull == pay.status = "refunded" \/ pay.state = "REFUNDED"

RefundedIsReal == RefundedInFull => Returned = Paid

\* The refunds, seen as money that goes back: the provider returns, the ledger
\* follows and takes no debit back, and a payment once refunded stays so.  Same limits.
\* This is MB!Spec, written so that TLC takes no sums when nothing changes.
MB == INSTANCE MoneyBack WITH
          returned <- Returned, debited <- Debited, refunded <- RefundedInFull

ImplementsMoneyBack == MB!Init /\ [][UNCHANGED vars \/ [MB!Next]_(MB!vars)]_vars

\* recordObservedRefunds says that it brings the debits up to what the provider
\* reports: once a webhook's observation is recorded while no refund is in
\* flight and the provider has not moved since, the ledger tells exactly what
\* went back, if each completed refund moved the amount it was requested for.
\* The code reaches the contrary: see the README.
Observed(h) == SyncObserved(h) /\ handler[h].seen = RemoteIn({"approved"})

LedgerCatchesUp ==
    [][ (\E h \in Hooks : Observed(h))
        /\ RowsIn(INFLIGHT_REFUND_STATUSES) = {}
        /\ (\A r \in RowsIn({"COMPLETED"}) : remote[r].amount = refund[r].amount)
            => (Debited = Returned)' ]_vars
=============================================================================
