--------------------------- MODULE DisputesProofs ---------------------------
(* A payment lost to a chargeback ends in that state and with its whole       *)
(* amount debited, for any number of webhooks and panel refunds.              *)
EXTENDS Disputes, FiniteSetTheorems, TLAPS

Over == {"reimbursed", "settled"}

\* What a webhook saw of a decided dispute is the decision, and so is a decided
\* financialState.
Decided ==
    /\ \A h \in DisputeHooks : hook[h].saw.status \in Over => claim.status = hook[h].saw.status
    /\ finState = "CHARGEBACK_WON" => claim.status = "reimbursed"
    /\ finState = "CHARGEBACK_LOST" => claim.status = "settled"

Debits ==
    /\ finState = "CHARGEBACK_LOST" => lost + Cardinality(debited) = Amount
    /\ finState # "CHARGEBACK_LOST" => lost = 0

\* A webhook of the payment that is going to write the loss.
Carries(h) == /\ hook[h].step = "sync" /\ hook[h].topic = "payment"
              /\ hook[h].saw.status = "settled"

\* A loss that is not written yet is on its way, unless an error was swallowed.
OnItsWay ==
    (claim.status = "settled" /\ finState # "CHARGEBACK_LOST" /\ ~swallowed)
        => "payment" \in unread \/ \E h \in DisputeHooks : Carries(h)

HookRows == [step : DisputeSteps, topic : {"payment", "chargeback"}, saw : Claims,
             target : CaseIds, fetched : {"ok", "refused", "failed"}]

Shapes == /\ claim \in Claims /\ finState \in States
          /\ debited \subseteq PanelRefunds
          /\ hook \in [DisputeHooks -> HookRows]

DisputesInv == Shapes /\ Decided /\ Debits /\ OnItsWay

-----------------------------------------------------------------------------
(* The rows that the steps make.                                              *)

LEMMA RestRow == AtRest \in HookRows /\ AtRest.step = "idle" /\ AtRest.saw = NoClaim
                 /\ NoClaim.status = "approved" /\ NoClaim \in Claims
BY DEF HookRows, AtRest, NoClaim, Claims, ClaimStatuses, DisputeSteps, CaseIds

LEMMA StepRow ==
    ASSUME NEW r \in HookRows, NEW s \in DisputeSteps
    PROVE  /\ [r EXCEPT !.step = s] \in HookRows
           /\ [r EXCEPT !.step = s].saw = r.saw
           /\ [r EXCEPT !.step = s].step = s
BY DEF HookRows

LEMMA FetchedRow ==
    ASSUME NEW c \in Claims
    PROVE  /\ [AtRest EXCEPT !.step = "sync", !.saw = c] \in HookRows
           /\ [AtRest EXCEPT !.step = "sync", !.saw = c].saw = c
           /\ [AtRest EXCEPT !.step = "sync", !.saw = c].step = "sync"
           /\ [AtRest EXCEPT !.step = "sync", !.saw = c].topic = "payment"
BY RestRow DEF HookRows, DisputeSteps, AtRest

LEMMA CaseRow ==
    ASSUME NEW c \in Claims, NEW f \in {"ok", "refused", "failed"}
    PROVE  /\ [AtRest EXCEPT !.step = "case", !.topic = "chargeback", !.saw = c, !.fetched = f]
                  \in HookRows
           /\ [AtRest EXCEPT !.step = "case", !.topic = "chargeback", !.saw = c, !.fetched = f].saw = c
BY RestRow DEF HookRows, DisputeSteps, AtRest

LEMMA TargetRow ==
    ASSUME NEW r \in HookRows, NEW s \in DisputeSteps, NEW t \in CaseIds
    PROVE  /\ [r EXCEPT !.step = s, !.target = t] \in HookRows
           /\ [r EXCEPT !.step = s, !.target = t].saw = r.saw
BY DEF HookRows

LEMMA RefetchedRow ==
    ASSUME NEW r \in HookRows, NEW c \in Claims, NEW s \in DisputeSteps
    PROVE  /\ [r EXCEPT !.saw = c, !.step = s] \in HookRows
           /\ [r EXCEPT !.saw = c, !.step = s].saw = c
BY DEF HookRows

-----------------------------------------------------------------------------
LEMMA DisputesInitInv == DisputesInit => DisputesInv
<1>. SUFFICES ASSUME DisputesInit PROVE DisputesInv
    OBVIOUS
<1>. USE DEF DisputesInit
<1>1. Shapes
    BY RestRow DEF Shapes, States
<1>2. Decided /\ Debits /\ OnItsWay
    BY RestRow DEF Decided, Debits, OnItsWay, Over
<1>. QED
    BY <1>1, <1>2 DEF DisputesInv

\* The provider decides, or a refund is made in its panel.
LEMMA ProviderKeeps ==
    ASSUME DisputesInv, DisputeMoves \/ \E m \in PanelRefunds : RefundInPanel(m)
    PROVE  DisputesInv'
<1>1. /\ UNCHANGED <<stateVars, hook, swallowed>>
      /\ "payment" \in unread'
    BY DEF DisputeMoves, RefundInPanel, stateVars
<1>2. /\ claim' \in Claims
      /\ claim.status \in Over => claim'.status = claim.status
    <2>1. CASE DisputeMoves
        <3>1. PICK s \in NextStatuses[claim.status] : claim' = [claim EXCEPT !.status = s]
            BY <2>1 DEF DisputeMoves
        <3>2. s \in ClaimStatuses /\ claim.status \notin Over
            BY <3>1 DEF NextStatuses, Over, DisputesInv, Shapes, Claims, ClaimStatuses
        <3>. QED
            BY <3>1, <3>2 DEF DisputesInv, Shapes, Claims
    <2>2. ASSUME NEW m \in PanelRefunds, RefundInPanel(m)
          PROVE  claim' \in Claims /\ claim'.status = claim.status
        BY <2>2 DEF RefundInPanel, DisputesInv, Shapes, Claims
    <2>. QED
        BY <2>1, <2>2
<1>. QED
    BY <1>1, <1>2 DEF DisputesInv, Shapes, Decided, Debits, OnItsWay, Over, stateVars

\* A webhook that does not write the state: it carries what it saw on, and a
\* loss that was on its way stays so.
LEMMA HookMoves ==
    ASSUME DisputesInv, NEW h \in DisputeHooks, NEW r \in HookRows,
           hook' = [hook EXCEPT ![h] = r],
           r.saw \in {hook[h].saw, claim, NoClaim},
           UNCHANGED <<claim, stateVars>>,
           swallowed => swallowed',
           Carries(h) => swallowed' \/ "payment" \in unread',
           "payment" \in unread => \/ "payment" \in unread'
                                   \/ r.step = "sync" /\ r.topic = "payment" /\ r.saw = claim
    PROVE  DisputesInv'
<1>1. /\ hook' \in [DisputeHooks -> HookRows] /\ hook'[h] = r
      /\ \A g \in DisputeHooks \ {h} : hook'[g] = hook[g]
    BY DEF DisputesInv, Shapes
<1>2. Shapes'
    BY <1>1 DEF DisputesInv, Shapes, stateVars
<1>3. Decided'
    BY <1>1, RestRow DEF DisputesInv, Decided, Over, stateVars
<1>4. Debits'
    BY DEF DisputesInv, Debits, stateVars
<1>5. OnItsWay'
    <2>1. SUFFICES ASSUME claim.status = "settled", finState # "CHARGEBACK_LOST", ~swallowed'
                   PROVE  "payment" \in unread' \/ \E g \in DisputeHooks : Carries(g)'
        BY DEF OnItsWay, stateVars
    <2>2. CASE "payment" \in unread
        BY <2>1, <2>2, <1>1 DEF Carries
    <2>3. ASSUME NEW g \in DisputeHooks, Carries(g)
          PROVE  "payment" \in unread' \/ Carries(g)'
        BY <2>1, <2>3, <1>1 DEF Carries
    <2>. QED
        BY <2>1, <2>2, <2>3 DEF DisputesInv, OnItsWay
<1>. QED
    BY <1>2, <1>3, <1>4, <1>5 DEF DisputesInv

\* A webhook that goes on to another step keeps what it saw.
LEMMA GoRow ==
    ASSUME DisputesInv, NEW h \in DisputeHooks, NEW s \in DisputeSteps, Go(h, s)
    PROVE  \E r \in HookRows : hook' = [hook EXCEPT ![h] = r] /\ r.saw = hook[h].saw
<1>. DEFINE row == [hook[h] EXCEPT !.step = s]
<1>1. hook \in [DisputeHooks -> HookRows] /\ hook[h] \in HookRows
    BY DEF DisputesInv, Shapes
<1>2. row \in HookRows /\ row.saw = hook[h].saw
    BY <1>1, StepRow
<1>3. hook' = [hook EXCEPT ![h] = row]
    BY <1>1 DEF Go
<1>. QED
    BY <1>2, <1>3

LEMMA FetchesKeep ==
    ASSUME DisputesInv, NEW h \in DisputeHooks, FetchClaim(h) \/ FetchCase(h)
    PROVE  DisputesInv'
<1>1. claim \in Claims /\ ~Carries(h)
    BY DEF DisputesInv, Shapes, FetchClaim, FetchCase, Carries
<1>2. CASE FetchClaim(h)
    <2>1. PICK r \in HookRows : /\ hook' = [hook EXCEPT ![h] = r] /\ r.saw = claim
                                /\ r.step = "sync" /\ r.topic = "payment"
        BY <1>1, <1>2, FetchedRow DEF FetchClaim
    <2>2. UNCHANGED <<claim, stateVars, swallowed>>
        BY <1>2 DEF FetchClaim
    <2>. QED
        BY <1>1, <2>1, <2>2, HookMoves
<1>3. CASE FetchCase(h)
    <2>1. PICK r \in HookRows : hook' = [hook EXCEPT ![h] = r] /\ r.saw = claim
        BY <1>1, <1>3, CaseRow DEF FetchCase
    <2>2. /\ UNCHANGED <<claim, stateVars>>
          /\ swallowed => swallowed'
        BY <1>3 DEF FetchCase, stateVars
    <2>3. "payment" \in unread => "payment" \in unread'
        BY <1>3 DEF FetchCase
    <2>4. r.saw \in {hook[h].saw, claim, NoClaim}
        BY <2>1
    <2>5. Carries(h) => swallowed' \/ "payment" \in unread'
        BY <1>1
    <2>6. "payment" \in unread => \/ "payment" \in unread'
                                  \/ r.step = "sync" /\ r.topic = "payment" /\ r.saw = claim
        BY <2>3
    <2>. QED
        BY <2>1, <2>2, <2>4, <2>5, <2>6, HookMoves
<1>. QED
    BY <1>2, <1>3

\* The steps that look for a case, write it and raise it.
LEMMA CasesKeep ==
    ASSUME DisputesInv, NEW h \in DisputeHooks,
           \/ UpsertCase(h) \/ RaiseCase(h) \/ Refetch(h)
           \/ FindCase(h) \/ UpsertStatus(h) \/ RaiseOpen(h)
    PROVE  DisputesInv'
<1>1. claim \in Claims /\ hook[h] \in HookRows
    BY DEF DisputesInv, Shapes
<1>2. ~Carries(h)
    BY DEF Carries, UpsertCase, RaiseCase, Refetch, FindCase, UpsertStatus, RaiseOpen
<1>3. UNCHANGED <<claim, stateVars>> /\ (swallowed => swallowed')
    BY DEF UpsertCase, RaiseCase, Refetch, FindCase, UpsertStatus, RaiseOpen
<1>4. "payment" \in unread => "payment" \in unread'
    BY DEF UpsertCase, RaiseCase, Refetch, FindCase, UpsertStatus, RaiseOpen, AnswerWith
<1>5. hook \in [DisputeHooks -> HookRows]
    BY DEF DisputesInv, Shapes
<1>6. PICK r \in HookRows : /\ hook' = [hook EXCEPT ![h] = r]
                            /\ r.saw \in {hook[h].saw, claim, NoClaim}
    <2>1. CASE UpsertCase(h)
        <3>1. PICK t \in CaseIds :
                 hook' = [hook EXCEPT ![h].step = "caseRaise", ![h].target = t]
            BY <2>1 DEF UpsertCase, CaseIds
        <3>. DEFINE row == [hook[h] EXCEPT !.step = "caseRaise", !.target = t]
        <3>2. row \in HookRows /\ row.saw = hook[h].saw
            BY <1>1, TargetRow DEF DisputeSteps
        <3>3. hook' = [hook EXCEPT ![h] = row]
            BY <3>1, <1>5
        <3>. QED
            BY <3>2, <3>3
    <2>2. CASE RaiseCase(h)
        BY <2>2, GoRow, RestRow DEF RaiseCase, DisputeSteps
    <2>3. CASE Refetch(h)
        <3>1. PICK s \in DisputeSteps :
                 hook' = [hook EXCEPT ![h].saw = claim, ![h].step = s]
            BY <2>3 DEF Refetch, DisputeSteps
        <3>. DEFINE row == [hook[h] EXCEPT !.saw = claim, !.step = s]
        <3>2. row \in HookRows /\ row.saw = claim
            BY <1>1, RefetchedRow
        <3>3. hook' = [hook EXCEPT ![h] = row]
            BY <3>1, <1>5
        <3>. QED
            BY <3>2, <3>3
    <2>4. CASE FindCase(h)
        <3>1. PICK t \in CaseIds :
                 hook' = [hook EXCEPT ![h].step = "upsert", ![h].target = t]
            BY <2>4 DEF FindCase, CaseIds
        <3>. DEFINE row == [hook[h] EXCEPT !.step = "upsert", !.target = t]
        <3>2. row \in HookRows /\ row.saw = hook[h].saw
            BY <1>1, TargetRow DEF DisputeSteps
        <3>3. hook' = [hook EXCEPT ![h] = row]
            BY <3>1, <1>5
        <3>. QED
            BY <3>2, <3>3
    <2>5. CASE UpsertStatus(h)
        <3>1. Go(h, "raise") \/ Go(h, "sync") \/ hook' = [hook EXCEPT ![h] = AtRest]
            BY <2>5 DEF UpsertStatus, AnswerWith
        <3>. QED
            BY <3>1, GoRow, RestRow DEF DisputeSteps
    <2>6. CASE RaiseOpen(h)
        <3>1. Go(h, "sync") \/ hook' = [hook EXCEPT ![h] = AtRest]
            BY <2>6 DEF RaiseOpen, AnswerWith
        <3>. QED
            BY <3>1, GoRow, RestRow DEF DisputeSteps
    <2>. QED
        BY <2>1, <2>2, <2>3, <2>4, <2>5, <2>6
<1>7. Carries(h) => swallowed' \/ "payment" \in unread'
    BY <1>2
<1>8. "payment" \in unread => \/ "payment" \in unread'
                              \/ r.step = "sync" /\ r.topic = "payment" /\ r.saw = claim
    BY <1>4
<1>. QED
    BY <1>3, <1>6, <1>7, <1>8, HookMoves

\* An error that is only logged, and a death after which the provider notifies
\* again.
LEMMA MishapsKeep ==
    ASSUME DisputesInv, NEW h \in DisputeHooks, SwallowError(h) \/ HookDies(h)
    PROVE  DisputesInv'
<1>1. hook[h] \in HookRows
    BY DEF DisputesInv, Shapes
<1>2. UNCHANGED <<claim, stateVars>> /\ (swallowed => swallowed')
    BY DEF SwallowError, HookDies
<1>3. /\ "payment" \in unread => "payment" \in unread'
      /\ Carries(h) => swallowed' \/ "payment" \in unread'
    BY DEF SwallowError, HookDies, AnswerWith, Carries
<1>4. PICK r \in HookRows : /\ hook' = [hook EXCEPT ![h] = r]
                            /\ r.saw \in {hook[h].saw, claim, NoClaim}
    <2>1. Go(h, "find") \/ hook' = [hook EXCEPT ![h] = AtRest]
        BY DEF SwallowError, HookDies, AnswerWith
    <2>. QED
        BY <2>1, GoRow, RestRow DEF DisputeSteps
<1>5. Carries(h) => swallowed' \/ "payment" \in unread'
    BY <1>3
<1>6. "payment" \in unread => \/ "payment" \in unread'
                              \/ r.step = "sync" /\ r.topic = "payment" /\ r.saw = claim
    BY <1>3
<1>. QED
    BY <1>2, <1>4, <1>5, <1>6, HookMoves

\* syncPaymentState: a loss is written in full, once, and stays.
LEMMA SyncKeeps ==
    ASSUME DisputesInv, NEW h \in DisputeHooks, Sync(h)
    PROVE  DisputesInv'
<1>. DEFINE saw == hook[h].saw
            to == targetState(saw)
<1>1. hook[h] \in HookRows /\ saw \in Claims
    BY DEF DisputesInv, Shapes, HookRows
<1>2. saw.status \in ClaimStatuses /\ saw.refunds \subseteq PanelRefunds
    BY <1>1 DEF Claims
<1>3. PICK r \in HookRows : hook' = [hook EXCEPT ![h] = r] /\ r.saw \in {saw, NoClaim}
    <2>1. Go(h, "find") \/ hook' = [hook EXCEPT ![h] = AtRest]
        BY DEF Sync, AnswerWith
    <2>. QED
        BY <2>1, GoRow, RestRow DEF DisputeSteps
<1>4. /\ UNCHANGED <<claim, swallowed>> /\ ("payment" \in unread => "payment" \in unread')
      /\ SyncState(saw)
    BY DEF Sync, AnswerWith, Go
<1>5. /\ to \in States
      /\ to = "CHARGEBACK_LOST" <=> saw.status = "settled"
      /\ to = "CHARGEBACK_WON" <=> saw.status = "reimbursed"
    BY <1>2 DEF targetState, ClaimStatuses, States
<1>6. /\ hook' \in [DisputeHooks -> HookRows] /\ hook'[h] = r
      /\ \A g \in DisputeHooks \ {h} : hook'[g] = hook[g]
    BY <1>3 DEF DisputesInv, Shapes
<1>7. /\ saw.status \in Over => claim.status = saw.status
      /\ finState = "CHARGEBACK_WON" => claim.status = "reimbursed"
      /\ finState = "CHARGEBACK_LOST" => claim.status = "settled"
    BY DEF DisputesInv, Decided
<1>8. finState' = to \/ finState' = finState
    BY <1>4 DEF SyncState, stateVars
<1>9. Shapes'
    BY <1>2, <1>4, <1>5, <1>6, <1>8 DEF DisputesInv, Shapes, SyncState, stateVars
<1>10. Decided'
    <2>1. \A g \in DisputeHooks : hook'[g].saw.status \in Over
                                     => claim'.status = hook'[g].saw.status
        BY <1>3, <1>4, <1>6, <1>7, RestRow DEF DisputesInv, Decided, Over
    <2>2. /\ finState' = "CHARGEBACK_WON" => claim'.status = "reimbursed"
          /\ finState' = "CHARGEBACK_LOST" => claim'.status = "settled"
        BY <1>4, <1>5, <1>7, <1>8 DEF Over
    <2>. QED
        BY <2>1, <2>2 DEF Decided
<1>11. finState = "CHARGEBACK_LOST" => UNCHANGED stateVars
    <2>1. SUFFICES ASSUME finState = "CHARGEBACK_LOST" PROVE UNCHANGED stateVars
        OBVIOUS
    <2>2. CASE to \in PAYMENT_TRANSITIONS[finState] \cup {finState}
        <3>1. to = finState
            BY <2>1, <2>2 DEF PAYMENT_TRANSITIONS
        <3>. QED
            BY <2>1, <2>2, <3>1, <1>4 DEF SyncState, stateVars
    <2>3. CASE to \notin PAYMENT_TRANSITIONS[finState] \cup {finState}
        BY <2>3, <1>4 DEF SyncState
    <2>. QED
        BY <2>2, <2>3
<1>12. Debits'
    <2>1. CASE finState = "CHARGEBACK_LOST"
        BY <2>1, <1>11 DEF DisputesInv, Debits, stateVars
    <2>2. CASE finState # "CHARGEBACK_LOST" /\ finState' = "CHARGEBACK_LOST"
        <3>1. to = "CHARGEBACK_LOST" /\ to \in PAYMENT_TRANSITIONS[finState] \cup {finState}
            BY <2>2, <1>4, <1>8 DEF SyncState, stateVars
        <3>2. lost' = Amount - Cardinality(debited) /\ debited' = debited
            BY <2>2, <3>1, <1>4 DEF SyncState, LostDebit
        <3>3. Cardinality(debited) \in Nat
            BY FS_Subset, FS_CardinalityType, DisputesAssumption DEF DisputesInv, Shapes
        <3>. QED
            BY <2>2, <3>2, <3>3, DisputesAssumption DEF Debits
    <2>3. CASE finState # "CHARGEBACK_LOST" /\ finState' # "CHARGEBACK_LOST"
        <3>1. lost' = lost
            BY <2>3, <1>4 DEF SyncState, stateVars
        <3>. QED
            BY <2>3, <3>1 DEF DisputesInv, Debits
    <2>. QED
        BY <2>1, <2>2, <2>3
<1>13. OnItsWay'
    <2>1. SUFFICES ASSUME claim.status = "settled", finState' # "CHARGEBACK_LOST", ~swallowed
                   PROVE  "payment" \in unread' \/ \E g \in DisputeHooks : Carries(g)'
        BY <1>4 DEF OnItsWay
    <2>2. finState # "CHARGEBACK_LOST" /\ finState # "CHARGEBACK_WON"
        BY <2>1, <1>7, <1>11 DEF stateVars
    <2>3. saw.status # "settled"
        <3>1. SUFFICES ASSUME saw.status = "settled" PROVE FALSE
            OBVIOUS
        <3>2. to \in PAYMENT_TRANSITIONS[finState]
            BY <2>2, <3>1, <1>5 DEF PAYMENT_TRANSITIONS, DisputesInv, Shapes, States
        <3>. QED
            BY <2>1, <3>1, <3>2, <1>4, <1>5 DEF SyncState
    <2>4. CASE "payment" \in unread
        BY <2>4, <1>4
    <2>5. ASSUME NEW g \in DisputeHooks, Carries(g) PROVE Carries(g)'
        <3>1. g # h
            BY <2>3, <2>5 DEF Carries
        <3>. QED
            BY <3>1, <2>5, <1>6 DEF Carries
    <2>. QED
        BY <2>1, <2>2, <2>4, <2>5 DEF DisputesInv, OnItsWay
<1>. QED
    BY <1>9, <1>10, <1>12, <1>13 DEF DisputesInv

LEMMA DisputesNextKeeps == DisputesInv /\ [DisputesNext]_disputeVars => DisputesInv'
<1>. SUFFICES ASSUME DisputesInv, [DisputesNext]_disputeVars PROVE DisputesInv'
    OBVIOUS
<1>1. CASE UNCHANGED disputeVars
    BY <1>1 DEF disputeVars, DisputesInv, Shapes, Decided, Debits, OnItsWay, Carries
<1>2. CASE DisputesNext
    BY <1>2, ProviderKeeps, FetchesKeep, CasesKeep, MishapsKeep, SyncKeeps
       DEF DisputesNext, HookStep
<1>. QED
    BY <1>1, <1>2

\* A chargeback that is lost (FinancialRecorder.syncPaymentState) ends in that
\* state, and its loss with the refunds before it is the payment's amount, for
\* any number of webhooks and refunds.
THEOREM LossRecorded == DisputesSpec => []LossIsRecorded
<1>1. DisputesInv => LossIsRecorded
    BY DEF DisputesInv, Debits, OnItsWay, Carries, AllAnswered, LossIsRecorded
<1>. QED
    BY <1>1, DisputesInitInv, DisputesNextKeeps, PTL DEF DisputesSpec
-----------------------------------------------------------------------------
(* An open dispute is in front of a person.  Until the discrepancy is raised   *)
(* someone is on the way to raise it: a notification, or a webhook of the      *)
(* payment that saw the dispute.  What it raises is open, for only a webhook   *)
(* that saw the decision closes a case, and the decision is the last word.     *)

Open == {"in_mediation", "in_process"}
OpenCases == {"OPENED", "IN_REVIEW"}

Told == \E i \in raised : caseRow[i].status \in OpenCases

\* A webhook of the payment that saw an open dispute and will raise its case.
Comes(r) == /\ r.topic = "payment" /\ r.saw.status \in Open
            /\ r.step \in {"sync", "find", "upsert", "raise"}

\* A webhook of the payment about to write the state, whatever it saw.
Writes(r) == r.topic = "payment" /\ r.step = "sync"

OpenWhileOpen ==
    claim.status \notin Over => \A i \in CaseIds : caseRow[i].status \notin {"WON", "LOST"}

\* What a webhook on its way to a case has seen and done.
CaseStep(r) ==
    /\ r.step \in {"find", "upsert", "raise"} => r.saw.status # "approved"
    /\ r.step = "raise" /\ claim.status \notin Over => caseRow[r.target].status \in OpenCases
    /\ r.step = "sync" /\ r.topic = "chargeback" /\ r.saw.status \in Open => raised # {}

CaseStepsTrue == \A h \in DisputeHooks : CaseStep(hook[h])

StateIsSeen ==
    finState = "IN_DISPUTE" /\ ~swallowed =>
        \/ raised # {} \/ "payment" \in unread
        \/ \E h \in DisputeHooks : Comes(hook[h]) \/ Writes(hook[h])

ClaimIsSeen ==
    claim.status \in Open /\ ~swallowed =>
        Told \/ "payment" \in unread \/ \E h \in DisputeHooks : Comes(hook[h])

\* The strengthening.
SeenInv == /\ DisputesInv /\ DisputesTypeOK
           /\ OpenWhileOpen /\ CaseStepsTrue /\ StateIsSeen /\ ClaimIsSeen

LEMMA StepFields ==
    ASSUME NEW r \in HookRows, NEW s \in DisputeSteps
    PROVE  /\ [r EXCEPT !.step = s] \in HookRows /\ [r EXCEPT !.step = s].step = s
           /\ [r EXCEPT !.step = s].topic = r.topic /\ [r EXCEPT !.step = s].saw = r.saw
           /\ [r EXCEPT !.step = s].target = r.target
BY DEF HookRows

\* A webhook stops, or goes on to another step.
LEMMA GoFields ==
    ASSUME hook \in [DisputeHooks -> HookRows], NEW h \in DisputeHooks, NEW s \in DisputeSteps,
           Go(h, s)
    PROVE  \E r \in HookRows :
              /\ hook' = [hook EXCEPT ![h] = r] /\ r.step = s
              /\ r.topic = hook[h].topic /\ r.saw = hook[h].saw /\ r.target = hook[h].target
<1>. DEFINE row == [hook[h] EXCEPT !.step = s]
<1>1. /\ row \in HookRows /\ row.step = s /\ row.topic = hook[h].topic
      /\ row.saw = hook[h].saw /\ row.target = hook[h].target
    BY StepFields
<1>2. hook' = [hook EXCEPT ![h] = row]
    BY DEF Go
<1>. HIDE DEF row
<1>. QED
    BY <1>1, <1>2

\* One webhook moves and the provider does not.
LEMMA HookSeen ==
    ASSUME SeenInv, DisputesInv', DisputesTypeOK',
           NEW h \in DisputeHooks, NEW r \in HookRows, hook' = [hook EXCEPT ![h] = r],
           claim' = claim, raised \subseteq raised', swallowed => swallowed',
           claim.status \notin Over =>
               \A i \in CaseIds :
                   /\ caseRow'[i].status \notin {"WON", "LOST"}
                   /\ caseRow[i].status \in OpenCases => caseRow'[i].status \in OpenCases,
           CaseStep(r)',
           finState' = "IN_DISPUTE" => finState = "IN_DISPUTE" \/ raised # {} \/ Comes(r),
           "payment" \in unread =>
               "payment" \in unread' \/ (Writes(r) /\ r.saw = claim),
           ~swallowed' /\ Comes(hook[h]) =>
               \/ "payment" \in unread' \/ Comes(r)
               \/ raised' # {} /\ (claim.status \notin Over => Told'),
           ~swallowed' /\ Writes(hook[h]) =>
               \/ "payment" \in unread' \/ Comes(r) \/ Writes(r) \/ finState' # "IN_DISPUTE"
    PROVE  SeenInv'
<1>1. /\ hook' \in [DisputeHooks -> HookRows] /\ hook'[h] = r
      /\ \A g \in DisputeHooks \ {h} : hook'[g] = hook[g]
      /\ raised \subseteq CaseIds
    BY DEF SeenInv, DisputesInv, Shapes, DisputesTypeOK
<1>2. OpenWhileOpen'
    BY DEF OpenWhileOpen
<1>3. CaseStepsTrue'
    <2>1. ASSUME NEW g \in DisputeHooks \ {h}
          PROVE  CaseStep(hook[g])'
        <3>1. CaseStep(hook[g]) /\ hook[g].target \in CaseIds /\ hook'[g] = hook[g]
            BY <1>1, <2>1 DEF SeenInv, CaseStepsTrue, DisputesTypeOK
        <3>. QED
            BY <3>1 DEF CaseStep
    <2>. QED
        BY <1>1, <2>1 DEF CaseStepsTrue
<1>4. StateIsSeen'
    <2>1. SUFFICES ASSUME finState' = "IN_DISPUTE", ~swallowed', raised = {}, ~Comes(r),
                          raised' = {}, "payment" \notin unread'
                   PROVE  \E g \in DisputeHooks : Comes(hook[g])' \/ Writes(hook[g])'
        BY <1>1 DEF StateIsSeen, Comes, Writes
    <2>2. CASE "payment" \in unread
        BY <1>1, <2>1, <2>2 DEF Writes
    <2>3. ASSUME NEW g \in DisputeHooks, Comes(hook[g]) \/ Writes(hook[g])
          PROVE  Comes(hook[g])' \/ Writes(hook[g])' \/ Writes(hook[h])'
        <3>1. CASE g = h
            BY <1>1, <2>1, <2>3, <3>1 DEF Writes
        <3>2. CASE g # h
            BY <1>1, <2>3, <3>2 DEF Comes, Writes
        <3>. QED
            BY <3>1, <3>2
    <2>. QED
        BY <2>1, <2>2, <2>3 DEF SeenInv, StateIsSeen
<1>5. ClaimIsSeen'
    <2>1. SUFFICES ASSUME claim.status \in Open, ~swallowed', ~Told', "payment" \notin unread'
                   PROVE  \E g \in DisputeHooks : Comes(hook[g])'
        BY DEF ClaimIsSeen
    <2>2. claim.status \notin Over /\ ~Told
        BY <1>1, <2>1 DEF Open, Over, Told
    <2>3. CASE "payment" \in unread
        BY <1>1, <2>1, <2>3 DEF Writes, Comes
    <2>4. ASSUME NEW g \in DisputeHooks, Comes(hook[g])
          PROVE  Comes(hook[g])' \/ Comes(hook[h])'
        <3>1. CASE g = h
            BY <1>1, <2>1, <2>2, <2>4, <3>1 DEF Comes
        <3>2. CASE g # h
            BY <1>1, <2>4, <3>2 DEF Comes
        <3>. QED
            BY <3>1, <3>2
    <2>. QED
        BY <2>1, <2>2, <2>3, <2>4 DEF SeenInv, ClaimIsSeen
<1>. QED
    BY <1>2, <1>3, <1>4, <1>5 DEF SeenInv

\* The types the strengthening of LossRecorded did not need.
LEMMA DisputeTypes ==
    ASSUME DisputesInv', lost' \in 0..Amount, unread' \subseteq {"payment", "chargeback"},
           caseRow' \in [CaseIds -> [status : CaseStatuses, linked : BOOLEAN]],
           raised' \subseteq CaseIds, swallowed' \in BOOLEAN
    PROVE  DisputesTypeOK'
BY DEF DisputesInv, Shapes, DisputesTypeOK, HookRows

LEMMA SeenProvider ==
    ASSUME SeenInv, DisputesInv', DisputeMoves \/ \E m \in PanelRefunds : RefundInPanel(m)
    PROVE  SeenInv'
<1>1. /\ UNCHANGED <<stateVars, caseVars, hook, swallowed>>
      /\ "payment" \in unread' /\ unread' \subseteq {"payment", "chargeback"}
    BY DEF DisputeMoves, RefundInPanel, SeenInv, DisputesTypeOK
<1>2. claim.status \in Over => claim'.status \in Over
    <2>1. CASE DisputeMoves
        BY <2>1 DEF DisputeMoves, NextStatuses, Over, SeenInv, DisputesTypeOK, Claims, ClaimStatuses
    <2>2. CASE \E m \in PanelRefunds : RefundInPanel(m)
        BY <2>2 DEF RefundInPanel, Over
    <2>. QED
        BY <2>1, <2>2
<1>3. DisputesTypeOK'
    BY <1>1, DisputeTypes DEF SeenInv, DisputesTypeOK, stateVars, caseVars
<1>4. OpenWhileOpen' /\ StateIsSeen' /\ ClaimIsSeen'
    BY <1>1, <1>2 DEF SeenInv, OpenWhileOpen, StateIsSeen, ClaimIsSeen, caseVars
<1>5. CaseStepsTrue'
    BY <1>1, <1>2 DEF SeenInv, CaseStepsTrue, CaseStep, caseVars
<1>. QED
    BY <1>3, <1>4, <1>5 DEF SeenInv

LEMMA SeenFetches ==
    ASSUME SeenInv, DisputesInv', NEW h \in DisputeHooks, FetchClaim(h) \/ FetchCase(h)
    PROVE  SeenInv'
<1>1. /\ UNCHANGED <<claim, stateVars, caseVars, swallowed>> /\ unread' \subseteq unread
      /\ ~Comes(hook[h]) /\ ~Writes(hook[h]) /\ claim \in Claims
    BY DEF FetchClaim, FetchCase, Comes, Writes, SeenInv, DisputesTypeOK
<1>2. DisputesTypeOK'
    BY <1>1, DisputeTypes DEF SeenInv, DisputesTypeOK, stateVars, caseVars
<1>3. PICK r \in HookRows :
          /\ hook' = [hook EXCEPT ![h] = r]
          /\ CaseStep(r)'
          /\ "payment" \in unread => "payment" \in unread' \/ (Writes(r) /\ r.saw = claim)
    <2>1. CASE FetchClaim(h)
        <3>. DEFINE row == [AtRest EXCEPT !.step = "sync", !.saw = claim]
        <3>1. row \in HookRows /\ row.saw = claim /\ row.step = "sync" /\ row.topic = "payment"
            BY <1>1, FetchedRow
        <3>2. hook' = [hook EXCEPT ![h] = row]
            BY <2>1 DEF FetchClaim
        <3>. HIDE DEF row
        <3>. QED
            BY <3>1, <3>2 DEF CaseStep, Writes
    <2>2. CASE FetchCase(h)
        <3>1. PICK f \in {"ok", "refused", "failed"} :
                 hook' = [hook EXCEPT ![h] = [AtRest EXCEPT !.step = "case",
                             !.topic = "chargeback", !.saw = claim, !.fetched = f]]
            BY <2>2 DEF FetchCase
        <3>. DEFINE row == [AtRest EXCEPT !.step = "case", !.topic = "chargeback", !.saw = claim,
                                          !.fetched = f]
        <3>2. row \in HookRows /\ row.step = "case"
            BY <1>1, CaseRow DEF AtRest
        <3>3. "payment" \in unread => "payment" \in unread'
            BY <2>2 DEF FetchCase
        <3>4. hook' = [hook EXCEPT ![h] = row]
            BY <3>1
        <3>. HIDE DEF row
        <3>. QED
            BY <3>2, <3>3, <3>4 DEF CaseStep
    <2>. QED
        BY <2>1, <2>2
<1>. QED
    BY <1>1, <1>2, <1>3, HookSeen DEF SeenInv, OpenWhileOpen, stateVars, caseVars

\* UpsertCase keeps the status of a row that exists; a new one is won only if
\* the case was.
LEMMA SeenUpsertCase ==
    ASSUME SeenInv, DisputesInv', NEW h \in DisputeHooks, UpsertCase(h)
    PROVE  SeenInv'
<1>. DEFINE saw == hook[h].saw
<1>1. /\ UNCHANGED <<claim, unread, stateVars, raised, swallowed>> /\ hook[h].step = "case"
      /\ hook \in [DisputeHooks -> HookRows] /\ hook[h] \in HookRows
      /\ caseRow \in [CaseIds -> [status : CaseStatuses, linked : BOOLEAN]]
    BY DEF UpsertCase, SeenInv, DisputesTypeOK, HookRows
<1>2. PICK s \in {"UNKNOWN", "OPENED", "WON"}, named \in BOOLEAN :
          /\ s = "WON" => saw.status = "reimbursed"
          /\ caseRow' = [caseRow EXCEPT !["case"] =
                 [status |-> IF caseRow["case"].status = "none" THEN s ELSE caseRow["case"].status,
                  linked |-> caseRow["case"].linked \/ named]]
          /\ hook' = [hook EXCEPT ![h].step = "caseRaise",
                                  ![h].target = IF named THEN "case" ELSE "payment"]
    BY <1>1 DEF UpsertCase, CaseIds
<1>3. saw.status = "reimbursed" => claim.status \in Over
    BY DEF SeenInv, DisputesInv, Decided, Over
<1>4. /\ caseRow' \in [CaseIds -> [status : CaseStatuses, linked : BOOLEAN]]
      /\ claim.status \notin Over =>
             \A i \in CaseIds : /\ caseRow'[i].status \notin {"WON", "LOST"}
                                /\ caseRow[i].status \in OpenCases => caseRow'[i].status \in OpenCases
    BY <1>1, <1>2, <1>3 DEF SeenInv, OpenWhileOpen, CaseStatuses, OpenCases
<1>5. DisputesTypeOK'
    BY <1>1, <1>4, DisputeTypes DEF SeenInv, DisputesTypeOK, stateVars
<1>6. PICK r \in HookRows : hook' = [hook EXCEPT ![h] = r] /\ r.step = "caseRaise"
    <2>. DEFINE row == [hook[h] EXCEPT !.step = "caseRaise",
                                       !.target = IF named THEN "case" ELSE "payment"]
    <2>1. row \in HookRows /\ row.step = "caseRaise"
        BY <1>1 DEF HookRows, DisputeSteps, CaseIds
    <2>2. hook' = [hook EXCEPT ![h] = row]
        BY <1>1, <1>2
    <2>. HIDE DEF row
    <2>. QED
        BY <2>1, <2>2
<1>7. CaseStep(r)' /\ ~Comes(hook[h]) /\ ~Writes(hook[h])
    BY <1>1, <1>6 DEF CaseStep, Comes, Writes
<1>. QED
    BY <1>1, <1>4, <1>5, <1>6, <1>7, HookSeen DEF stateVars

\* The other steps that leave the rows alone.
LEMMA SeenGoes ==
    ASSUME SeenInv, DisputesInv', NEW h \in DisputeHooks,
           RaiseCase(h) \/ Refetch(h) \/ FindCase(h) \/ SwallowError(h) \/ HookDies(h)
    PROVE  SeenInv'
<1>1. /\ UNCHANGED <<claim, stateVars, caseRow>> /\ unread \subseteq unread'
      /\ raised \subseteq raised'
      /\ swallowed => swallowed'
      /\ claim.status \notin Over => \A i \in CaseIds : caseRow[i].status \notin {"WON", "LOST"}
      /\ unread' \subseteq {"payment", "chargeback"} /\ raised' \subseteq CaseIds
      /\ swallowed' \in BOOLEAN
    BY DEF RaiseCase, Refetch, FindCase, SwallowError, HookDies, AnswerWith, caseVars,
           SeenInv, DisputesTypeOK, OpenWhileOpen, CaseIds
<1>2. DisputesTypeOK'
    BY <1>1, DisputeTypes DEF SeenInv, DisputesTypeOK, stateVars
<1>3. /\ hook \in [DisputeHooks -> HookRows] /\ hook[h] \in HookRows /\ claim \in Claims
      /\ CaseStep(hook[h])
    BY DEF SeenInv, DisputesTypeOK, CaseStepsTrue, HookRows
<1>4. CASE RaiseCase(h)
    <2>1. PICK r \in HookRows : hook' = [hook EXCEPT ![h] = r] /\ r.step \in {"idle", "refetch"}
        BY <1>3, <1>4, GoFields, RestRow DEF RaiseCase, DisputeSteps
    <2>2. CaseStep(r)' /\ ~Comes(hook[h]) /\ ~Writes(hook[h])
        BY <1>4, <2>1 DEF RaiseCase, CaseStep, Comes, Writes
    <2>. QED
        BY <1>1, <1>2, <2>1, <2>2, HookSeen DEF stateVars
<1>5. CASE Refetch(h)
    <2>1. PICK r \in HookRows : /\ hook' = [hook EXCEPT ![h] = r] /\ r.saw = claim
                                /\ r.step = IF claim.status = "approved" THEN "sync" ELSE "find"
        <3>. DEFINE row == [hook[h] EXCEPT !.saw = claim,
                                !.step = IF claim.status = "approved" THEN "sync" ELSE "find"]
        <3>1. /\ row \in HookRows /\ row.saw = claim
              /\ row.step = IF claim.status = "approved" THEN "sync" ELSE "find"
            BY <1>3 DEF HookRows, DisputeSteps
        <3>2. hook' = [hook EXCEPT ![h] = row]
            BY <1>3, <1>5 DEF Refetch
        <3>. HIDE DEF row
        <3>. QED
            BY <3>1, <3>2
    <2>2. CaseStep(r)' /\ ~Comes(hook[h]) /\ ~Writes(hook[h])
        BY <1>1, <1>5, <2>1 DEF Refetch, CaseStep, Comes, Writes, Open
    <2>. QED
        BY <1>1, <1>2, <2>1, <2>2, HookSeen DEF stateVars
<1>6. CASE FindCase(h)
    <2>1. PICK r \in HookRows : /\ hook' = [hook EXCEPT ![h] = r] /\ r.step = "upsert"
                                /\ r.saw = hook[h].saw /\ r.topic = hook[h].topic
        <3>. DEFINE row == [hook[h] EXCEPT !.step = "upsert",
                                !.target = IF caseRow["case"].linked THEN "case" ELSE "payment"]
        <3>1. /\ row \in HookRows /\ row.step = "upsert"
              /\ row.saw = hook[h].saw /\ row.topic = hook[h].topic
            BY <1>3 DEF HookRows, DisputeSteps, CaseIds
        <3>2. hook' = [hook EXCEPT ![h] = row]
            BY <1>3, <1>6 DEF FindCase
        <3>. HIDE DEF row
        <3>. QED
            BY <3>1, <3>2
    <2>2. CaseStep(r)' /\ (Comes(hook[h]) => Comes(r)) /\ ~Writes(hook[h])
        BY <1>3, <1>6, <2>1 DEF FindCase, CaseStep, Comes, Writes
    <2>. QED
        BY <1>1, <1>2, <2>1, <2>2, HookSeen DEF stateVars
<1>7. CASE SwallowError(h)
    <2>1. PICK r \in HookRows : /\ hook' = [hook EXCEPT ![h] = r] /\ r.step \in {"idle", "find"}
                                /\ r.step = "find" => r.saw.status # "approved"
        BY <1>3, <1>7, GoFields, RestRow DEF SwallowError, AnswerWith, DisputeSteps
    <2>2. CaseStep(r)' /\ swallowed'
        BY <1>7, <2>1 DEF SwallowError, CaseStep
    <2>. QED
        BY <1>1, <1>2, <2>1, <2>2, HookSeen DEF stateVars
<1>8. CASE HookDies(h)
    <2>1. PICK r \in HookRows : hook' = [hook EXCEPT ![h] = r] /\ r.step = "idle"
        BY <1>8, RestRow DEF HookDies
    <2>2. /\ CaseStep(r)'
          /\ Comes(hook[h]) \/ Writes(hook[h]) => "payment" \in unread'
        BY <1>8, <2>1 DEF HookDies, CaseStep, Comes, Writes
    <2>. QED
        BY <1>1, <1>2, <2>1, <2>2, HookSeen DEF stateVars
<1>. QED
    BY <1>4, <1>5, <1>6, <1>7, <1>8

\* The case is given the status that was seen: open, or closed by a webhook that
\* saw the decision.
LEMMA SeenUpsertStatus ==
    ASSUME SeenInv, DisputesInv', NEW h \in DisputeHooks, UpsertStatus(h)
    PROVE  SeenInv'
<1>. DEFINE saw == hook[h].saw
            s == chargebackStatusFromPayment[saw.status]
<1>1. /\ hook \in [DisputeHooks -> HookRows] /\ hook[h] \in HookRows /\ hook[h].step = "upsert"
      /\ caseRow \in [CaseIds -> [status : CaseStatuses, linked : BOOLEAN]]
      /\ saw.status \in ClaimStatuses \ {"approved"} /\ hook[h].target \in CaseIds
    BY DEF UpsertStatus, SeenInv, DisputesTypeOK, HookRows, CaseStepsTrue, CaseStep, Claims
<1>2. /\ UNCHANGED <<claim, stateVars, raised, swallowed>> /\ unread \subseteq unread'
      /\ unread' \subseteq {"payment", "chargeback"}
      /\ caseRow' = [caseRow EXCEPT ![hook[h].target] = [status |-> s, linked |-> TRUE]]
    BY DEF UpsertStatus, AnswerWith, SeenInv, DisputesTypeOK
<1>3. /\ s \in CaseStatuses
      /\ s \in OpenCases <=> saw.status \in Open
      /\ s \notin OpenCases => claim.status \in Over
      /\ s \in {"WON", "LOST"} => claim.status \in Over
    BY <1>1 DEF chargebackStatusFromPayment, ClaimStatuses, CaseStatuses, Open, OpenCases, Over,
                SeenInv, DisputesInv, Decided
<1>4. /\ caseRow' \in [CaseIds -> [status : CaseStatuses, linked : BOOLEAN]]
      /\ claim.status \notin Over =>
             \A i \in CaseIds : /\ caseRow'[i].status \notin {"WON", "LOST"}
                                /\ caseRow[i].status \in OpenCases => caseRow'[i].status \in OpenCases
    <2>. HIDE DEF s
    <2>. QED
        BY <1>1, <1>2, <1>3 DEF SeenInv, OpenWhileOpen
<1>5. DisputesTypeOK'
    BY <1>2, <1>4, DisputeTypes DEF SeenInv, DisputesTypeOK, stateVars
<1>6. PICK r \in HookRows :
          /\ hook' = [hook EXCEPT ![h] = r]
          /\ CaseStep(r)'
          /\ Comes(hook[h]) => Comes(r)
    <2>1. CASE s \in OpenCases
        <3>1. PICK r \in HookRows :
                  /\ hook' = [hook EXCEPT ![h] = r] /\ r.step = "raise"
                  /\ r.topic = hook[h].topic /\ r.saw = saw /\ r.target = hook[h].target
            BY <1>1, <2>1, GoFields DEF UpsertStatus, OpenCases, DisputeSteps
        <3>2. caseRow'[r.target].status \in OpenCases
            BY <1>1, <1>2, <2>1, <3>1
        <3>. QED
            BY <1>1, <3>1, <3>2 DEF CaseStep, Comes
    <2>2. CASE s \notin OpenCases
        <3>1. saw.status \notin Open
            BY <1>3, <2>2
        <3>2. Go(h, "sync") \/ hook' = [hook EXCEPT ![h] = AtRest]
            BY <2>2 DEF UpsertStatus, AnswerWith, OpenCases
        <3>3. PICK r \in HookRows :
                  /\ hook' = [hook EXCEPT ![h] = r]
                  /\ r.step = "idle" \/ (r.step = "sync" /\ r.saw = saw)
            BY <1>1, <3>2, GoFields, RestRow DEF DisputeSteps
        <3>. QED
            BY <3>1, <3>3 DEF CaseStep, Comes
    <2>. QED
        BY <2>1, <2>2
<1>. QED
    BY <1>1, <1>2, <1>4, <1>5, <1>6, HookSeen DEF Writes, stateVars

LEMMA SeenRaiseOpen ==
    ASSUME SeenInv, DisputesInv', NEW h \in DisputeHooks, RaiseOpen(h)
    PROVE  SeenInv'
<1>1. /\ hook \in [DisputeHooks -> HookRows] /\ hook[h] \in HookRows /\ hook[h].step = "raise"
      /\ hook[h].target \in CaseIds
      /\ claim.status \notin Over => caseRow[hook[h].target].status \in OpenCases
    BY DEF RaiseOpen, SeenInv, DisputesTypeOK, HookRows, CaseStepsTrue, CaseStep
<1>2. /\ UNCHANGED <<claim, stateVars, caseRow, swallowed>> /\ unread \subseteq unread'
      /\ unread' \subseteq {"payment", "chargeback"}
      /\ raised' = raised \cup {hook[h].target}
      /\ claim.status \notin Over => \A i \in CaseIds : caseRow[i].status \notin {"WON", "LOST"}
    BY DEF RaiseOpen, AnswerWith, SeenInv, DisputesTypeOK, OpenWhileOpen
<1>3. DisputesTypeOK'
    BY <1>1, <1>2, DisputeTypes DEF SeenInv, DisputesTypeOK, stateVars
<1>4. raised' # {} /\ (claim.status \notin Over => Told')
    BY <1>1, <1>2 DEF Told
<1>5. PICK r \in HookRows : hook' = [hook EXCEPT ![h] = r] /\ r.step \in {"idle", "sync"}
    <2>1. Go(h, "sync") \/ hook' = [hook EXCEPT ![h] = AtRest]
        BY DEF RaiseOpen, AnswerWith
    <2>. QED
        BY <1>1, <2>1, GoFields, RestRow DEF DisputeSteps
<1>6. CaseStep(r)'
    BY <1>4, <1>5 DEF CaseStep
<1>. QED
    BY <1>1, <1>2, <1>3, <1>4, <1>5, <1>6, HookSeen DEF Writes, stateVars

\* A webhook of the payment that writes IN_DISPUTE goes on to the case; one of
\* the chargeback has been there.
LEMMA SeenSync ==
    ASSUME SeenInv, DisputesInv', NEW h \in DisputeHooks, Sync(h)
    PROVE  SeenInv'
<1>. DEFINE saw == hook[h].saw
            to == targetState(saw)
<1>1. /\ hook \in [DisputeHooks -> HookRows] /\ hook[h] \in HookRows /\ hook[h].step = "sync"
      /\ saw.status \in ClaimStatuses /\ CaseStep(hook[h]) /\ finState \in States
    BY DEF Sync, SeenInv, DisputesTypeOK, HookRows, CaseStepsTrue, Claims
<1>2. /\ UNCHANGED <<claim, caseVars, swallowed>> /\ unread \subseteq unread'
      /\ unread' \subseteq {"payment", "chargeback"} /\ SyncState(saw)
      /\ claim.status \notin Over => \A i \in CaseIds : caseRow[i].status \notin {"WON", "LOST"}
    BY DEF Sync, AnswerWith, Go, SeenInv, DisputesTypeOK, OpenWhileOpen
<1>3. lost' \in 0..Amount
    <2>1. Cardinality(debited) \in Nat /\ Cardinality(debited) <= Cardinality(PanelRefunds)
          /\ Cardinality(PanelRefunds) \in Nat
        BY FS_Subset, FS_CardinalityType, DisputesAssumption DEF SeenInv, DisputesTypeOK
    <2>2. lost' = lost \/ lost' = Amount - Cardinality(debited)
        BY <1>2 DEF SyncState, LostDebit, stateVars
    <2>. QED
        BY <2>1, <2>2, DisputesAssumption DEF SeenInv, DisputesTypeOK
<1>4. DisputesTypeOK'
    BY <1>2, <1>3, DisputeTypes DEF SeenInv, DisputesTypeOK, caseVars
<1>5. finState' = "IN_DISPUTE" => saw.status \in Open
    <2>1. to = "IN_DISPUTE" <=> saw.status \in Open
        BY <1>1 DEF targetState, ClaimStatuses, Open
    <2>2. to \in States
        BY <1>1 DEF targetState, ClaimStatuses, States
    <2>3. finState = "IN_DISPUTE" => to \in PAYMENT_TRANSITIONS[finState] \cup {finState}
        BY <2>2 DEF PAYMENT_TRANSITIONS, States
    <2>4. finState' = to \/ (finState' = finState /\ finState # "IN_DISPUTE")
        BY <1>2, <2>3 DEF SyncState, stateVars
    <2>. QED
        BY <2>1, <2>4
<1>6. PICK r \in HookRows :
          /\ hook' = [hook EXCEPT ![h] = r]
          /\ \/ /\ r.step = "find" /\ r.saw = saw /\ r.topic = "payment"
                /\ hook[h].topic = "payment" /\ saw.status # "approved"
             \/ /\ r.step = "idle"
                /\ hook[h].topic = "chargeback" \/ saw.status = "approved"
    <2>1. CASE hook[h].topic = "payment" /\ saw.status # "approved"
        BY <1>1, <2>1, GoFields DEF Sync, DisputeSteps
    <2>2. CASE ~(hook[h].topic = "payment" /\ saw.status # "approved")
        BY <1>1, <2>2, RestRow DEF Sync, AnswerWith, HookRows
    <2>. QED
        BY <2>1, <2>2
<1>7. /\ CaseStep(r)'
      /\ Comes(hook[h]) => Comes(r)
      /\ saw.status \in Open => raised # {} \/ Comes(r)
    BY <1>1, <1>6 DEF CaseStep, Comes, Open, HookRows
<1>8. Writes(hook[h]) => Comes(r) \/ finState' # "IN_DISPUTE"
    BY <1>5, <1>6 DEF Writes, Comes, Open
<1>. QED
    BY <1>1, <1>2, <1>4, <1>5, <1>6, <1>7, <1>8, HookSeen DEF caseVars

LEMMA SeenInitInv == DisputesInit => SeenInv
<1>. SUFFICES ASSUME DisputesInit PROVE SeenInv
    OBVIOUS
<1>1. DisputesTypeOK
    <2>1. Shapes
        BY DisputesInitInv DEF DisputesInv
    <2>2. lost \in 0..Amount /\ caseRow \in [CaseIds -> [status : CaseStatuses, linked : BOOLEAN]]
        BY DisputesAssumption DEF DisputesInit, CaseStatuses
    <2>. QED
        BY <2>1, <2>2 DEF DisputesInit, Shapes, HookRows, DisputesTypeOK
<1>2. OpenWhileOpen /\ CaseStepsTrue /\ StateIsSeen /\ ClaimIsSeen
    BY RestRow DEF DisputesInit, OpenWhileOpen, CaseStepsTrue, CaseStep, StateIsSeen, ClaimIsSeen, Open
<1>. QED
    BY <1>1, <1>2, DisputesInitInv DEF SeenInv

LEMMA SeenNext == SeenInv /\ [DisputesNext]_disputeVars => SeenInv'
<1>. SUFFICES ASSUME SeenInv, [DisputesNext]_disputeVars PROVE SeenInv'
    OBVIOUS
<1>1. DisputesInv'
    BY DisputesNextKeeps DEF SeenInv
<1>2. CASE UNCHANGED disputeVars
    BY <1>1, <1>2
       DEF disputeVars, SeenInv, DisputesTypeOK, OpenWhileOpen, CaseStepsTrue, CaseStep,
           StateIsSeen, ClaimIsSeen, Told, Comes, Writes
<1>3. CASE DisputesNext
    BY <1>1, <1>3, SeenProvider, SeenFetches, SeenUpsertCase, SeenGoes, SeenUpsertStatus,
       SeenRaiseOpen, SeenSync
       DEF DisputesNext, HookStep
<1>. QED
    BY <1>2, <1>3

\* The rows of a dispute keep their types.
THEOREM DisputesTypeCorrect == DisputesSpec => []DisputesTypeOK
<1>1. SeenInv => DisputesTypeOK
    BY DEF SeenInv
<1>. QED
    BY <1>1, SeenInitInv, SeenNext, PTL DEF DisputesSpec

\* A dispute that waits for an answer, and a payment whose state says so, is in
\* front of a person once every notification was answered without an error
\* (ChargebacksService, openDiscrepancy), for any number of webhooks.
THEOREM DisputeSeen == DisputesSpec => []DisputeIsSeen
<1>1. SeenInv => DisputeIsSeen
    <2>1. SUFFICES ASSUME SeenInv, AllAnswered PROVE DisputeIsSeen
        BY DEF DisputeIsSeen
    <2>2. \A h \in DisputeHooks : ~Comes(hook[h]) /\ ~Writes(hook[h])
        BY <2>1 DEF AllAnswered, Comes, Writes
    <2>. QED
        BY <2>1, <2>2
           DEF SeenInv, StateIsSeen, ClaimIsSeen, Told, AllAnswered, DisputeIsSeen, Open, OpenCases
<1>. QED
    BY <1>1, SeenInitInv, SeenNext, PTL DEF DisputesSpec
=============================================================================
