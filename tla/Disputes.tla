------------------------------ MODULE Disputes ------------------------------
(* Disputes of one approved payment: what the provider decides, the webhooks  *)
(* of the payment and of the chargeback case that carry it to                 *)
(* Payment.financialState, to the ledger and to the Chargeback rows           *)
(* (ChargebacksService, FinancialRecorder.syncPaymentState).  A webhook       *)
(* fetches first and writes later; several run at once, in several replicas.  *)
(* Refunds are made in the provider's panel, one unit each, never in full.    *)

EXTENDS Integers, FiniteSets

CONSTANTS
    DisputeHooks,   \* webhooks at work at one time
    PanelRefunds,
    Amount          \* of the payment

ASSUME DisputesAssumption ==
    /\ Amount \in Nat
    /\ IsFiniteSet(PanelRefunds)
    /\ Cardinality(PanelRefunds) < Amount

VARIABLES
    claim,      \* the provider: status of the payment, and its refunds
    unread,     \* topics with a notification that has no 2xx answer
    finState,   \* Payment.financialState
    debited,    \* refunds with a REFUND_COMPLETED debit
    lost,       \* the CHARGEBACK_LOST debit
    caseRow,    \* Chargeback rows: status, and whether externalPaymentId is known
    raised,     \* open discrepancies of type CHARGEBACK_OPEN, by row
    hook,       \* webhooks
    swallowed   \* history: an error was logged and the webhook answered 2xx

disputeVars == <<claim, unread, finState, debited, lost, caseRow, raised, hook, swallowed>>

\* providerCaseId: "payment:<id>" until the case's own is known
CaseIds == {"payment", "case"}

\* status and status_detail of the payment, as the provider gives them
ClaimStatuses == {"approved", "in_mediation", "in_process", "reimbursed", "settled"}
Claims == [status : ClaimStatuses, refunds : SUBSET PanelRefunds]

CaseStatuses == {"none", "UNKNOWN", "OPENED", "IN_REVIEW", "WON", "LOST"}
States == {"PAID", "PARTIALLY_REFUNDED", "IN_DISPUTE", "CHARGEBACK_WON", "CHARGEBACK_LOST"}
DisputeSteps == {"idle", "case", "caseRaise", "refetch", "find", "upsert", "raise", "sync"}

DisputesTypeOK ==
    /\ claim \in Claims
    /\ unread \subseteq {"payment", "chargeback"}
    /\ finState \in States
    /\ debited \subseteq PanelRefunds
    /\ lost \in 0..Amount
    /\ caseRow \in [CaseIds -> [status : CaseStatuses, linked : BOOLEAN]]
    /\ raised \subseteq CaseIds
    /\ hook \in [DisputeHooks -> [step : DisputeSteps, topic : {"payment", "chargeback"},
                                  saw : Claims, target : CaseIds,
                                  fetched : {"ok", "refused", "failed"}]]
    /\ swallowed \in BOOLEAN

NoClaim == [status |-> "approved", refunds |-> {}]
AtRest == [step |-> "idle", topic |-> "payment", saw |-> NoClaim,
           target |-> "payment", fetched |-> "ok"]

DisputesInit ==
    /\ claim = NoClaim
    /\ unread = {}
    /\ finState = "PAID"
    /\ debited = {}
    /\ lost = 0
    /\ caseRow = [i \in CaseIds |-> [status |-> "none", linked |-> FALSE]]
    /\ raised = {}
    /\ hook = [h \in DisputeHooks |-> AtRest]
    /\ swallowed = FALSE

stateVars == <<finState, debited, lost>>
caseVars == <<caseRow, raised>>

-----------------------------------------------------------------------------
(* The provider.                                                              *)

\* A buyer disputes, by mediation or with the bank; a mediation ends or becomes
\* a chargeback; a chargeback is decided once.
NextStatuses == [approved |-> {"in_mediation", "in_process"},
                 in_mediation |-> {"approved", "in_process"},
                 in_process |-> {"reimbursed", "settled"},
                 reimbursed |-> {}, settled |-> {}]

DisputeMoves ==
    /\ \E s \in NextStatuses[claim.status] :
          /\ claim' = [claim EXCEPT !.status = s]
          /\ unread' = unread \cup {"payment"}
                              \cup (IF s = "in_process" THEN {"chargeback"} ELSE {})
    /\ UNCHANGED <<stateVars, caseVars, hook, swallowed>>

RefundInPanel(m) ==
    /\ claim.status = "approved"
    /\ m \notin claim.refunds
    /\ claim' = [claim EXCEPT !.refunds = @ \cup {m}]
    /\ unread' = unread \cup {"payment"}
    /\ UNCHANGED <<stateVars, caseVars, hook, swallowed>>

-----------------------------------------------------------------------------
(* syncPaymentState                                                           *)

targetState(saw) ==
    CASE saw.status \in {"in_mediation", "in_process"} -> "IN_DISPUTE"
      [] saw.status = "reimbursed" -> "CHARGEBACK_WON"
      [] saw.status = "settled" -> "CHARGEBACK_LOST"
      [] saw.status = "approved" -> IF saw.refunds = {} THEN "PAID" ELSE "PARTIALLY_REFUNDED"

PAYMENT_TRANSITIONS ==
    [PAID |-> {"PARTIALLY_REFUNDED", "IN_DISPUTE", "CHARGEBACK_WON", "CHARGEBACK_LOST"},
     PARTIALLY_REFUNDED |-> {"IN_DISPUTE", "CHARGEBACK_WON", "CHARGEBACK_LOST"},
     IN_DISPUTE |-> {"PAID", "PARTIALLY_REFUNDED", "CHARGEBACK_WON", "CHARGEBACK_LOST"},
     CHARGEBACK_WON |-> {"PARTIALLY_REFUNDED"},
     CHARGEBACK_LOST |-> {}]

\* ledgerForState: what the refunds already took is not lost again
LostInFull(refunds) == Amount       \* mutant: the loss ignores the refunds
LostWithRefunds(refunds) == Amount + Cardinality(refunds)   \* mutant: the sign

LostDebit(refunds) == Amount - Cardinality(refunds)

\* Under the payment's row lock.  The refunds it saw are debited by id, in the
\* state that tells of them only; a transition that is not listed changes
\* nothing.
SyncState(saw) ==
    LET to == targetState(saw)
    IN  /\ IF to \in PAYMENT_TRANSITIONS[finState] \cup {finState}
             THEN /\ finState' = to
                  /\ debited' = IF to = "PARTIALLY_REFUNDED" THEN debited \cup saw.refunds
                                ELSE debited
                  /\ lost' = IF to = "CHARGEBACK_LOST" /\ finState # to
                             THEN LostDebit(debited) ELSE lost
             ELSE UNCHANGED stateVars

-----------------------------------------------------------------------------
(* The webhooks.                                                              *)

Go(h, step) == hook' = [hook EXCEPT ![h].step = step]

\* handleWebhook of the payment's topic.  applyProviderStatus takes a dispute
\* for pending or unknown, which changes nothing of an approved payment.
FetchClaim(h) ==
    /\ hook[h].step = "idle"
    /\ "payment" \in unread
    /\ unread' = unread \ {"payment"}
    /\ hook' = [hook EXCEPT ![h] = [AtRest EXCEPT !.step = "sync", !.saw = claim]]
    /\ UNCHANGED <<claim, stateVars, caseVars, swallowed>>

\* handleNotification of the chargeback's topic
FetchCase(h) ==
    /\ hook[h].step = "idle"
    /\ "chargeback" \in unread
    /\ unread' = unread \ {"chargeback"}
    /\ \E f \in {"ok", "refused", "failed"} :
          hook' = [hook EXCEPT ![h] = [AtRest EXCEPT !.step = "case", !.topic = "chargeback",
                                                     !.saw = claim, !.fetched = f]]
    /\ UNCHANGED <<claim, stateVars, caseVars, swallowed>>

\* The upsert of the case.  An existing row keeps its status.  A case that could
\* not be fetched is linked to its payment if the notification names it.
UpsertCase(h) ==
    LET ok == hook[h].fetched = "ok"
        first == IF ~ok THEN "UNKNOWN"
                 ELSE IF hook[h].saw.status = "reimbursed" THEN "WON" ELSE "OPENED"
    IN  /\ hook[h].step = "case"
        /\ \E named \in BOOLEAN :
              /\ ok => named
              /\ caseRow' = [caseRow EXCEPT !["case"] =
                               [status |-> IF @.status = "none" THEN first ELSE @.status,
                                linked |-> @.linked \/ named]]
              /\ hook' = [hook EXCEPT ![h].step = "caseRaise",
                                      ![h].target = IF named THEN "case" ELSE "payment"]
        /\ UNCHANGED <<claim, unread, stateVars, raised, swallowed>>

\* CHARGEBACK_OPEN or CHARGEBACK_FETCH_FAILED of the case; then, if its payment
\* is known, what the payments API says of it
RaiseCase(h) ==
    /\ hook[h].step = "caseRaise"
    /\ raised' = IF hook[h].fetched = "ok" THEN raised \cup {"case"} ELSE raised
    /\ IF hook[h].target = "case" THEN Go(h, "refetch") /\ UNCHANGED unread
       ELSE IF hook[h].fetched = "failed"
            THEN /\ unread' = unread \cup {"chargeback"}
                 /\ hook' = [hook EXCEPT ![h] = AtRest]
            ELSE hook' = [hook EXCEPT ![h] = AtRest] /\ UNCHANGED unread
    /\ UNCHANGED <<claim, stateVars, caseRow, swallowed>>

\* handleNotification throws when the case could not be fetched for now, so
\* that the provider notifies again
AnswerWith(h) ==
    /\ hook' = [hook EXCEPT ![h] = AtRest]
    /\ unread' = IF hook[h].fetched = "failed" THEN unread \cup {"chargeback"} ELSE unread

Refetch(h) ==
    /\ hook[h].step = "refetch"
    /\ hook' = [hook EXCEPT ![h].saw = claim,
                            ![h].step = IF claim.status = "approved" THEN "sync" ELSE "find"]
    /\ UNCHANGED <<claim, unread, stateVars, caseVars, swallowed>>

\* ensureFromPaymentStatus: the case linked to the payment, or one of its own
FindCase(h) ==
    /\ hook[h].step = "find"
    /\ hook' = [hook EXCEPT ![h].step = "upsert",
                            ![h].target = IF caseRow["case"].linked THEN "case" ELSE "payment"]
    /\ UNCHANGED <<claim, unread, stateVars, caseVars, swallowed>>

StatusWithoutMediation ==           \* mutant: in_mediation is not mapped
    [in_mediation |-> "UNKNOWN", in_process |-> "OPENED",
     reimbursed |-> "WON", settled |-> "LOST"]

chargebackStatusFromPayment ==
    [in_mediation |-> "IN_REVIEW", in_process |-> "OPENED",
     reimbursed |-> "WON", settled |-> "LOST"]

UpsertStatus(h) ==
    LET s == chargebackStatusFromPayment[hook[h].saw.status]
    IN  /\ hook[h].step = "upsert"
        /\ caseRow' = [caseRow EXCEPT ![hook[h].target] = [status |-> s, linked |-> TRUE]]
        /\ \/ /\ s \in {"OPENED", "IN_REVIEW"}
              /\ Go(h, "raise")
              /\ UNCHANGED unread
           \/ /\ s \notin {"OPENED", "IN_REVIEW"}
              /\ hook[h].topic = "chargeback"
              /\ Go(h, "sync")
              /\ UNCHANGED unread
           \/ /\ s \notin {"OPENED", "IN_REVIEW"}
              /\ hook[h].topic = "payment"
              /\ AnswerWith(h)
        /\ UNCHANGED <<claim, stateVars, raised, swallowed>>

RaiseOpen(h) ==
    /\ hook[h].step = "raise"
    /\ raised' = raised \cup {hook[h].target}
    /\ \/ /\ hook[h].topic = "chargeback"
          /\ Go(h, "sync")
          /\ UNCHANGED unread
       \/ /\ hook[h].topic = "payment"
          /\ AnswerWith(h)
    /\ UNCHANGED <<claim, stateVars, caseRow, swallowed>>

\* The case comes after the state in the payment's webhook and before it in the
\* chargeback's.
Sync(h) ==
    /\ hook[h].step = "sync"
    /\ SyncState(hook[h].saw)
    /\ IF hook[h].topic = "payment" /\ hook[h].saw.status # "approved"
         THEN Go(h, "find") /\ UNCHANGED unread
         ELSE AnswerWith(h)
    /\ UNCHANGED <<claim, caseVars, swallowed>>

\* syncPaymentStateSafe and the catch blocks around ensureFromPaymentStatus and
\* around the refetch: the error is logged, the rest goes on
SwallowError(h) ==
    /\ hook[h].step \in {"refetch", "find", "upsert", "raise", "sync"}
    /\ swallowed' = TRUE
    /\ IF hook[h].topic = "payment" /\ hook[h].step = "sync" /\ hook[h].saw.status # "approved"
         THEN Go(h, "find") /\ UNCHANGED unread
         ELSE AnswerWith(h)
    /\ UNCHANGED <<claim, stateVars, caseVars>>

\* The replica dies, or the event's row cannot be written: the provider notifies
\* again.
HookDies(h) ==
    /\ hook[h].step # "idle"
    /\ unread' = unread \cup {hook[h].topic}
    /\ hook' = [hook EXCEPT ![h] = AtRest]
    /\ UNCHANGED <<claim, stateVars, caseVars, swallowed>>

-----------------------------------------------------------------------------
HookStep(h) == \/ FetchClaim(h) \/ FetchCase(h) \/ UpsertCase(h) \/ RaiseCase(h)
               \/ Refetch(h) \/ FindCase(h) \/ UpsertStatus(h) \/ RaiseOpen(h)
               \/ Sync(h) \/ SwallowError(h) \/ HookDies(h)

DisputesNext == \/ DisputeMoves
                \/ \E m \in PanelRefunds : RefundInPanel(m)
                \/ \E h \in DisputeHooks : HookStep(h)

DisputesSpec == DisputesInit /\ [][DisputesNext]_disputeVars

-----------------------------------------------------------------------------
(* Properties.                                                                *)

\* Every notification was answered, and none with an error behind it.
AllAnswered == /\ unread = {}
               /\ \A h \in DisputeHooks : hook[h].step = "idle"
               /\ ~swallowed

\* A payment lost to a chargeback ends in that state, with its whole amount
\* debited once between the refunds and the loss, whatever the webhooks that
\* were late write after it.
LossIsRecorded ==
    /\ finState = "CHARGEBACK_LOST" => lost + Cardinality(debited) = Amount
    /\ finState # "CHARGEBACK_LOST" => lost = 0
    /\ AllAnswered /\ claim.status = "settled" => finState = "CHARGEBACK_LOST"

\* A dispute that waits for an answer, or a state that says so, is in front of a
\* person: a discrepancy, and a case that is open unless the dispute is over.
DisputeIsSeen ==
    AllAnswered =>
        /\ finState = "IN_DISPUTE" => raised # {}
        /\ claim.status \in {"in_mediation", "in_process"} =>
              \E i \in raised : caseRow[i].status \in {"OPENED", "IN_REVIEW"}
=============================================================================
