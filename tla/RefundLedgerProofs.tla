------------------------- MODULE RefundLedgerProofs -------------------------
(* What the ledger of refunds keeps, for any number of refunds, clerks and    *)
(* webhooks (LedgerInv): it never books more than was paid, and what it books *)
(* is money that moved or that the store reserved.  That the debits are only  *)
(* money that moved needs handlers that read and write at once (Alone): the   *)
(* code does not have it, and two runs show what happens without it.          *)
EXTENDS RefundLedger, TallyProofs

Provided == Tally(RemoteIn({"approved", "in_process"}), Moved, Paid)

\* What every write to the ledger looks at.
Capped == Debited <= Paid /\ Provided <= Paid

\* A clerk at work has a refund; a webhook only ends and synchronises.
Carried ==
    /\ \A h \in Clerks : handler[h].pc # "idle" => handler[h].r \in Refunds
    /\ \A h \in Hooks : handler[h].pc \in {"idle", "final", "finalize", "sync_final", "sync"}

\* The rest needs what the code does not ensure: one request executed at a time,
\* and no refusal that says nothing of the refund (the findings are about these).
Alone == (\A c, d \in Clerks : c = d) /\ "refused" \notin Answers

\* A refund whose row waits or failed has not been made.
RowsAnswered ==
    \A r \in Refunds :
        refund[r].status \in {"none", "REQUESTED", "FAILED"} => remote[r].status \in {"none", "rejected"}

\* The provider moves what the row says, or less when it moves all that is left:
\* then nothing is left, nor anything else in process.
EnoughMoved ==
    \A r \in Refunds :
        remote[r].status \in {"in_process", "approved"} =>
            \/ refund[r].amount <= remote[r].amount
            \/ RemoteIn({"in_process"}) \subseteq {r} /\ Remaining = 0

Knows(h) ==
    LET r == handler[h].r IN
    /\ handler[h].pc \in {"count", "call"} => refund[r].status = "PROCESSING"
    /\ handler[h].pc = "call" =>
          \/ handler[h].send = refund[r].amount
          \/ handler[h].send = All /\ RowsIn({"COMPLETED", "PROCESSING", "UNKNOWN"}) \subseteq {r}
    /\ handler[h].pc = "complete" => remote[r].status = "approved"
    /\ handler[h].pc = "fail" => remote[r].status \in {"none", "rejected"}

Ending == {"final", "finalize", "sync_final"}

\* What a handler carries is true of the provider and of the ledger.
Carries(h) ==
    /\ handler[h].total <= Debited
    /\ handler[h].seen \subseteq RemoteIn({"approved"})
    /\ handler[h].pc \in Ending => Returned = Paid

PanelDone == \A i \in Panel : remote[i].status # "in_process"

EndIsReal == pay.status = "refunded" \/ pay.state = "REFUNDED" => Returned = Paid

\* Until everything went back, a debit is the provider's refund of its key.
DebitsReal ==
    \/ Returned = Paid
    \/ /\ \A cap \in 1 .. Paid : synced[cap] = 0
       /\ \A i \in Ids : ledger[i] # 0 => remote[i].status = "approved" /\ ledger[i] <= remote[i].amount

Real ==
    /\ RowsAnswered /\ EnoughMoved /\ PanelDone /\ EndIsReal /\ DebitsReal
    /\ \A h \in Clerks : Knows(h)
    /\ \A h \in Handlers : Carries(h)

LedgerInv == TypeOK /\ Capped /\ Carried /\ (Alone => Real)

HandlerRows == [pc : HandlerSteps, r : Refunds \cup {"none"}, send : 0 .. Paid,
                total : Nat, seen : SUBSET Ids, listed : BOOLEAN]
RefundRows == [status : RefundStatuses, amount : 0 .. Paid, full : BOOLEAN, mp : BOOLEAN]
RemoteRows == [status : {"none", "in_process", "approved", "rejected"}, amount : 0 .. Paid]
PayRows == [status : {"approved", "refunded"}, state : {"PAID", "PARTIALLY_REFUNDED", "REFUNDED"}]

-----------------------------------------------------------------------------
(* Sets, rows and sums.                                                      *)

LEMMA Finite ==
    /\ \A S \in SUBSET Ids : IsFiniteSet(S)
    /\ \A S \in SUBSET Refunds : IsFiniteSet(S)
    /\ IsFiniteSet(1 .. Paid)
    /\ Paid \in Nat
<1>1. IsFiniteSet(Ids)
    BY RefundLedgerAssumption, FS_Union DEF Ids
<1>. QED
    BY <1>1, RefundLedgerAssumption, FS_Subset, FS_Interval

LEMMA TypeParts ==
    TypeOK <=> /\ pay \in PayRows
               /\ refund \in [Refunds -> RefundRows]
               /\ remote \in [Ids -> RemoteRows]
               /\ ledger \in [Ids -> 0 .. Paid]
               /\ synced \in [1 .. Paid -> 0 .. Paid]
               /\ handler \in [Handlers -> HandlerRows]
BY DEF TypeOK, PayRows, RefundRows, RemoteRows, HandlerRows

LEMMA TypePartsNext ==
    TypeOK' <=> /\ pay' \in PayRows
                /\ refund' \in [Refunds -> RefundRows]
                /\ remote' \in [Ids -> RemoteRows]
                /\ ledger' \in [Ids -> 0 .. Paid]
                /\ synced' \in [1 .. Paid -> 0 .. Paid]
                /\ handler' \in [Handlers -> HandlerRows]
BY DEF TypeOK, PayRows, RefundRows, RemoteRows, HandlerRows

LEMMA SumTypes ==
    /\ Debited \in Nat /\ Returned \in Nat /\ Provided \in Nat
    /\ Active \in Nat /\ InFlight \in Nat /\ External \in Nat
    /\ Tally(Ids, ledger, Paid) \in Nat /\ Tally(1 .. Paid, synced, Paid) \in Nat
    /\ Remaining = Paid - Provided
<1>1. \A S \in SUBSET Ids : \A amount : Tally(S, amount, Paid) \in Nat
    BY Finite, TallyType
<1>2. \A S \in SUBSET Refunds : \A amount : Tally(S, amount, Paid) \in Nat
    BY Finite, TallyType
<1>3. \A amount : Tally(1 .. Paid, amount, Paid) \in Nat
    BY Finite, TallyType
<1>4. /\ \A statuses : RemoteIn(statuses) \in SUBSET Ids
      /\ \A statuses : RowsIn(statuses) \in SUBSET Refunds
      /\ Panel \cup { r \in Refunds : ~refund[r].mp } \in SUBSET Ids
      /\ Ids \in SUBSET Ids
    BY DEF RemoteIn, RowsIn, Ids
<1>5. Debited \in Nat /\ External \in Nat
    BY <1>1, <1>3, <1>4 DEF Debited, External
<1>. QED
    BY <1>1, <1>2, <1>3, <1>4, <1>5 DEF Returned, Provided, Active, InFlight, Remaining

\* The sums after a step.
LEMMA SumTypesNext ==
    /\ Debited' \in Nat /\ Returned' \in Nat /\ Provided' \in Nat
    /\ Tally(Ids, ledger', Paid) \in Nat /\ Tally(1 .. Paid, synced', Paid) \in Nat
<1>1. \A S \in SUBSET Ids : \A amount : Tally(S, amount, Paid) \in Nat
    BY Finite, TallyType
<1>3. \A amount : Tally(1 .. Paid, amount, Paid) \in Nat
    BY Finite, TallyType
<1>4. \A statuses : RemoteIn(statuses)' \in SUBSET Ids
    BY DEF RemoteIn
<1>5. Debited' \in Nat
    BY <1>1, <1>3 DEF Debited
<1>. QED
    BY <1>1, <1>3, <1>4, <1>5 DEF Returned, Provided

LEMMA SumsStay ==
    /\ UNCHANGED <<ledger, synced>> => Debited' = Debited
    /\ UNCHANGED remote => Returned' = Returned /\ Provided' = Provided
                           /\ \A statuses : RemoteIn(statuses)' = RemoteIn(statuses)
BY DEF Debited, Returned, Provided, RemoteIn, Moved

LEMMA IdleRow == Idle \in HandlerRows
BY Finite DEF Idle, HandlerRows, HandlerSteps, All

LEMMA RowFields ==
    ASSUME NEW row \in HandlerRows
    PROVE  /\ row.pc \in HandlerSteps /\ row.r \in Refunds \cup {"none"} /\ row.send \in 0 .. Paid
           /\ row.total \in Nat /\ row.seen \in SUBSET Ids /\ row.listed \in BOOLEAN
           /\ \A pc \in HandlerSteps :
                 /\ [row EXCEPT !.pc = pc] \in HandlerRows
                 /\ [row EXCEPT !.pc = pc].pc = pc
                 /\ [row EXCEPT !.pc = pc].r = row.r
                 /\ [row EXCEPT !.pc = pc].total = row.total
                 /\ [row EXCEPT !.pc = pc].seen = row.seen
                 /\ [row EXCEPT !.pc = pc].send = row.send
BY DEF HandlerRows

\* Goto and Finish write one handler.
LEMMA GotoWrites ==
    ASSUME handler \in [Handlers -> HandlerRows], NEW h \in Handlers,
           NEW pc \in HandlerSteps, Goto(h, pc)
    PROVE  /\ handler' \in [Handlers -> HandlerRows]
           /\ \A g \in Handlers \ {h} : handler'[g] = handler[g]
           /\ handler'[h].pc = pc /\ handler'[h].r = handler[h].r
           /\ handler'[h].total = handler[h].total /\ handler'[h].seen = handler[h].seen
           /\ handler'[h].send = handler[h].send
<1>1. handler[h] \in HandlerRows
    OBVIOUS
<1>2. handler' = [handler EXCEPT ![h] = [handler[h] EXCEPT !.pc = pc]]
    BY DEF Goto
<1>. QED
    BY <1>1, <1>2, RowFields

LEMMA FinishWrites ==
    ASSUME handler \in [Handlers -> HandlerRows], NEW h \in Handlers, Finish(h)
    PROVE  /\ handler' \in [Handlers -> HandlerRows]
           /\ \A g \in Handlers \ {h} : handler'[g] = handler[g]
           /\ handler'[h] = Idle
BY IdleRow DEF Finish

LEMMA IdleFields ==
    /\ Idle.pc = "idle" /\ Idle.total = 0 /\ Idle.seen = {}
    /\ Idle.r = "none" /\ Idle.send = 0
BY DEF Idle, All

-----------------------------------------------------------------------------
(* What the recorder writes.                                                 *)

\* Debits by provider refund: within the cap, and none above its refund.
LEMMA DebitEachEffect ==
    ASSUME TypeOK, Capped, NEW cap \in 0 .. Paid, NEW list \in SUBSET Ids, DebitEach(cap, list)
    PROVE  /\ ledger' \in [Ids -> 0 .. Paid] /\ synced' = synced
           /\ Debited <= Debited' /\ Debited' <= Paid
           /\ \A i \in Ids : ledger'[i] = ledger[i]
                             \/ (i \in list /\ ledger'[i] <= remote[i].amount)
<1> DEFINE missing == { i \in list : ledger[i] = 0 }
           room    == IF cap > Debited THEN cap - Debited ELSE 0
           owed    == Tally(missing, Moved, Paid)
<1>1. PICK debit \in [missing -> 0 .. Paid] :
              /\ \A i \in missing : debit[i] <= remote[i].amount
              /\ Tally(missing, debit, Paid) = Least(owed, room)
              /\ ledger' = [i \in Ids |-> IF i \in missing THEN debit[i] ELSE ledger[i]]
    BY DEF DebitEach
<1>2. missing \in SUBSET Ids /\ Ids \ missing \in SUBSET Ids
      /\ (Ids \ missing) \cap missing = {} /\ (Ids \ missing) \cup missing = Ids
    OBVIOUS
<1>3. \A i \in missing : ledger[i] = 0
    OBVIOUS
<1>4. \A i \in missing : i \in list
    OBVIOUS
<1>5. ledger \in [Ids -> 0 .. Paid]
    BY TypeParts
<1>6. synced' = synced
    BY DEF DebitEach
<1>7. room \in Nat /\ Debited + room <= Paid
    BY SumTypes, Finite DEF Capped
<1>. HIDE DEF missing, room, owed
<1>8. IsFiniteSet(missing) /\ IsFiniteSet(Ids \ missing)
    BY <1>2, Finite
<1>9. ledger' \in [Ids -> 0 .. Paid]
    BY <1>1, <1>2, <1>5
<1>10. Tally(Ids, ledger, Paid)
        = Tally(Ids \ missing, ledger, Paid) + Tally(missing, ledger, Paid)
    BY <1>2, <1>8, Finite, TallyUnion
<1>11. Tally(missing, ledger, Paid) = 0
    BY <1>3, Finite, TallyZero
<1>12. Tally(Ids, ledger', Paid)
        = Tally(Ids \ missing, ledger', Paid) + Tally(missing, ledger', Paid)
    BY <1>2, <1>8, Finite, TallyUnion
<1>13. Tally(Ids \ missing, ledger', Paid) = Tally(Ids \ missing, ledger, Paid)
    <2>1. \A i \in Ids \ missing : ledger'[i] = ledger[i]
        BY <1>1
    <2>. QED
        BY <2>1, TallySame
<1>14. Tally(missing, ledger', Paid) = Tally(missing, debit, Paid)
    <2>1. \A i \in missing : ledger'[i] = debit[i]
        BY <1>1, <1>2
    <2>. QED
        BY <2>1, TallySame
<1>15. owed \in Nat /\ Tally(missing, debit, Paid) \in 0 .. room
    <2>1. owed \in Nat
        BY <1>8, Finite, TallyType DEF owed
    <2>. QED
        BY <1>1, <1>7, <2>1 DEF Least
<1>16. Tally(Ids, ledger', Paid) = Tally(Ids, ledger, Paid) + Tally(missing, debit, Paid)
    <2>1. Tally(Ids \ missing, ledger, Paid) \in Nat
        BY <1>8, Finite, TallyType
    <2>. QED
        BY <1>10, <1>11, <1>12, <1>13, <1>14, <1>15, <2>1
<1>17. Debited' = Debited + Tally(missing, debit, Paid)
    BY <1>6, <1>7, <1>15, <1>16, SumTypes DEF Debited
<1>18. \A i \in Ids : ledger'[i] = ledger[i] \/ (i \in list /\ ledger'[i] <= remote[i].amount)
    BY <1>1, <1>4
<1>. QED
    BY <1>6, <1>7, <1>9, <1>15, <1>17, <1>18, SumTypes, Finite

\* The debit of a difference: within the cap, and only below it.
LEMMA DebitDifferenceEffect ==
    ASSUME TypeOK, Capped, NEW cap \in 1 .. Paid, DebitDifference(cap)
    PROVE  /\ synced' \in [1 .. Paid -> 0 .. Paid] /\ ledger' = ledger
           /\ Debited <= Debited' /\ Debited' <= Paid
           /\ synced' # synced => cap > Debited
<1> DEFINE delta == cap - Debited - InFlight
<1>1. CASE delta > 0 /\ synced[cap] = 0
    <2>1. synced' = [synced EXCEPT ![cap] = delta] /\ ledger' = ledger
        BY <1>1 DEF DebitDifference
    <2>2. delta \in 1 .. Paid /\ delta + Debited <= Paid /\ cap > Debited
        BY <1>1, SumTypes, Finite
    <2>3. synced \in [1 .. Paid -> 0 .. Paid]
        BY TypeParts
    <2>. HIDE DEF delta
    <2>4. synced' \in [1 .. Paid -> 0 .. Paid]
        BY <2>1, <2>2, <2>3, Finite
    <2>5. Tally(1 .. Paid, synced', Paid) = Tally(1 .. Paid, synced, Paid) - synced[cap] + synced'[cap]
        <3> DEFINE caps == 1 .. Paid
        <3>1. PICK c : c = cap
            OBVIOUS
        <3>2. /\ c \in caps /\ IsFiniteSet(caps) /\ Paid \in Nat
              /\ synced[c] \in 0 .. Paid /\ synced'[c] \in 0 .. Paid
              /\ \A y \in caps \ {c} : synced[y] = synced'[y]
            BY <2>1, <2>3, <2>4, <3>1, Finite
        <3>. HIDE DEF caps
        <3>3. Tally(caps, synced', Paid) = Tally(caps, synced, Paid) - synced[c] + synced'[c]
            BY <3>2, TallyUpdate
        <3>. QED
            BY <3>1, <3>3 DEF caps
    <2>6. synced'[cap] = delta
        BY <2>1, <2>3
    <2>7. Debited' = Debited + delta
        BY <1>1, <2>1, <2>2, <2>5, <2>6, SumTypes DEF Debited
    <2>. QED
        BY <2>1, <2>2, <2>4, <2>7, SumTypes, Finite
<1>2. CASE ~(delta > 0 /\ synced[cap] = 0)
    <2>1. UNCHANGED <<ledger, synced>>
        BY <1>2 DEF DebitDifference
    <2>. QED
        BY <2>1, SumsStay, SumTypes, TypeParts DEF Capped
<1>. QED
    BY <1>1, <1>2

\* syncPaymentState: the ledger only grows, within the payment; what is refunded
\* was so before or is all that was observed.
LEMMA SyncEffect ==
    ASSUME TypeOK, Capped, NEW amount \in Nat, NEW list \in SUBSET Ids, NEW reported \in BOOLEAN,
           syncPaymentState(amount, list, reported)
    PROVE  /\ pay' \in PayRows /\ pay'.status = pay.status
           /\ ledger' \in [Ids -> 0 .. Paid] /\ synced' \in [1 .. Paid -> 0 .. Paid]
           /\ Debited <= Debited' /\ Debited' <= Paid
           /\ \A i \in Ids : ledger'[i] = ledger[i]
                             \/ (i \in list /\ ledger'[i] <= remote[i].amount)
           /\ pay'.state = "REFUNDED" =>
                 pay.state = "REFUNDED" \/ pay.status = "refunded" \/ amount >= Paid
           /\ synced' # synced =>
                 /\ list = {}
                 /\ amount = 0 => pay.status = "refunded"
                 /\ amount > 0 => amount > Debited
<1> DEFINE to     == targetPaymentState(amount)
           target == IF amount > 0 THEN amount ELSE Paid
           cap    == Least(target, Paid)
           does   == \/ canPaymentTransition(pay.state, to)
                     \/ pay.state = to /\ to # "PAID" /\ reported
<1>1. pay \in PayRows /\ ledger \in [Ids -> 0 .. Paid] /\ synced \in [1 .. Paid -> 0 .. Paid]
    BY TypeParts
<1>2. Paid \in Nat \ {0}
    BY RefundLedgerAssumption
<1>3. cap \in 1 .. Paid /\ (amount > 0 => cap <= amount)
    BY <1>2 DEF Least
<1>4. IF does THEN recordObservedRefunds(target, list) ELSE UNCHANGED <<ledger, synced>>
    BY DEF syncPaymentState
<1>5. pay' = IF canPaymentTransition(pay.state, to) THEN [pay EXCEPT !.state = to] ELSE pay
    BY DEF syncPaymentState
<1>6. /\ to \in {"PAID", "PARTIALLY_REFUNDED", "REFUNDED"}
      /\ to = "REFUNDED" => pay.status = "refunded" \/ amount >= Paid
      /\ amount = 0 /\ pay.status # "refunded" => to = "PAID"
    BY <1>2 DEF targetPaymentState
<1>7. to = "PAID" => ~does
    BY <1>1 DEF canPaymentTransition
<1>8. /\ pay' \in PayRows /\ pay'.status = pay.status
      /\ pay'.state = "REFUNDED" =>
            pay.state = "REFUNDED" \/ pay.status = "refunded" \/ amount >= Paid
    BY <1>1, <1>5, <1>6 DEF PayRows
<1>. HIDE DEF to, cap, does
<1>9. CASE does /\ list # {}
    <2>1. DebitEach(cap, list)
        BY <1>4, <1>9 DEF recordObservedRefunds, cap
    <2>2. cap \in 0 .. Paid
        BY <1>2, <1>3
    <2>. QED
        BY <1>1, <1>8, <2>1, <2>2, DebitEachEffect
<1>10. CASE does /\ list = {}
    <2>1. DebitDifference(cap)
        BY <1>4, <1>10 DEF recordObservedRefunds, cap
    <2>2. amount = 0 => pay.status = "refunded"
        BY <1>6, <1>7, <1>10
    <2>. QED
        BY <1>1, <1>3, <1>8, <1>10, <2>1, <2>2, DebitDifferenceEffect, SumTypes
<1>11. CASE ~does
    <2>1. UNCHANGED <<ledger, synced>>
        BY <1>4, <1>11
    <2>. QED
        BY <1>1, <1>8, <2>1, SumsStay, SumTypes DEF Capped
<1>. QED
    BY <1>9, <1>10, <1>11

-----------------------------------------------------------------------------
(* What the provider does.                                                   *)

LEMMA ReturnedWithin ==
    ASSUME TypeOK
    PROVE  /\ Returned <= Provided
           /\ RemoteIn({"in_process"}) = {} => Returned = Provided
<1>1. RemoteIn({"approved"}) \in SUBSET RemoteIn({"approved", "in_process"})
    BY DEF RemoteIn
<1>2. IsFiniteSet(RemoteIn({"approved", "in_process"}))
    BY Finite DEF RemoteIn
<1>3. \A i \in RemoteIn({"approved"}) : Moved[i] \in Int
    BY TypeParts DEF RemoteIn, Moved, RemoteRows
<1>4. Returned <= Provided
    BY <1>1, <1>2, <1>3, Finite, TallyMono DEF Returned, Provided
<1>5. RemoteIn({"in_process"}) = {} => RemoteIn({"approved"}) = RemoteIn({"approved", "in_process"})
    BY DEF RemoteIn
<1>. QED
    BY <1>4, <1>5 DEF Returned, Provided

LEMMA ReturnedWithinNext ==
    ASSUME TypeOK'
    PROVE  /\ Returned' <= Provided'
           /\ RemoteIn({"in_process"})' = {} => Returned' = Provided'
<1>1. RemoteIn({"approved"})' \in SUBSET RemoteIn({"approved", "in_process"})'
    BY DEF RemoteIn
<1>2. IsFiniteSet(RemoteIn({"approved", "in_process"})')
    BY Finite DEF RemoteIn
<1>3. \A i \in RemoteIn({"approved"})' : Moved'[i] \in Int
    BY TypePartsNext DEF RemoteIn, Moved, RemoteRows
<1>4. Returned' <= Provided'
    BY <1>1, <1>2, <1>3, Finite, TallyMono DEF Returned, Provided
<1>5. RemoteIn({"in_process"})' = {} => RemoteIn({"approved"})' = RemoteIn({"approved", "in_process"})'
    BY DEF RemoteIn
<1>. QED
    BY <1>4, <1>5 DEF Returned, Provided

\* A refund that the provider accepts comes on top of the others.
LEMMA AcceptEffect ==
    ASSUME TypeOK, Capped, NEW i \in Ids, remote[i].status = "none",
           NEW s \in {"approved", "in_process"}, NEW amount \in 1 .. Remaining,
           remote' = [remote EXCEPT ![i] = [status |-> s, amount |-> amount]]
    PROVE  /\ remote' \in [Ids -> RemoteRows]
           /\ Provided' = Provided + amount /\ Provided' <= Paid
           /\ Returned <= Returned'
           /\ \A t \in {"approved", "in_process"} :
                 RemoteIn({t})' = RemoteIn({t}) \cup (IF t = s THEN {i} ELSE {})
<1>1. remote \in [Ids -> RemoteRows]
    BY TypeParts
<1>2. amount \in 0 .. Paid /\ amount + Provided <= Paid
    BY SumTypes, Finite DEF Capped
<1>3. remote' \in [Ids -> RemoteRows]
    BY <1>1, <1>2 DEF RemoteRows
<1>4. /\ \A j \in Ids \ {i} : remote'[j] = remote[j]
      /\ remote'[i].status = s /\ remote'[i].amount = amount
    BY <1>1
<1>5. \A t \in {"approved", "in_process"} :
          RemoteIn({t})' = RemoteIn({t}) \cup (IF t = s THEN {i} ELSE {})
    BY <1>1, <1>4 DEF RemoteIn
<1>6. RemoteIn({"approved", "in_process"})' = RemoteIn({"approved", "in_process"}) \cup {i}
      /\ i \notin RemoteIn({"approved", "in_process"})
    BY <1>1, <1>4 DEF RemoteIn
<1>7. \A j \in RemoteIn({"approved", "in_process"}) : Moved'[j] = Moved[j]
    BY <1>4, <1>6 DEF Moved, RemoteIn
<1>8. Provided' = Provided + amount
    <2> DEFINE before == RemoteIn({"approved", "in_process"})
               amounts == Moved'
    <2>1. IsFiniteSet(before)
        BY Finite DEF RemoteIn
    <2>2. amounts[i] = amount /\ amounts[i] \in 0 .. Paid
        BY <1>2, <1>4 DEF Moved
    <2>3. Provided' = Tally(before \cup {i}, amounts, Paid)
        BY <1>6 DEF Provided
    <2>4. Provided = Tally(before, amounts, Paid)
        BY <1>7, TallySame DEF Provided
    <2>5. i \notin before
        BY <1>6
    <2>. HIDE DEF before, amounts
    <2>6. Tally(before \cup {i}, amounts, Paid) = Tally(before, amounts, Paid) + amounts[i]
        <3>1. amounts[i] \in 0 .. Paid
            BY <2>2
        <3>2. Paid \in Nat
            BY Finite
        <3>. QED
            BY <2>1, <2>5, <3>1, <3>2, TallyAdd
    <2>. QED
        BY <2>2, <2>3, <2>4, <2>6
<1>9. Returned <= Returned'
    <2>1. RemoteIn({"approved"}) \in SUBSET RemoteIn({"approved"})'
        BY <1>5
    <2>2. IsFiniteSet(RemoteIn({"approved"})')
        BY Finite DEF RemoteIn
    <2>3. \A j \in RemoteIn({"approved"}) : Moved[j] \in Int /\ Moved'[j] \in Int /\ Moved[j] <= Moved'[j]
        <3>1. \A j \in RemoteIn({"approved"}) : Moved[j] \in Int
            BY <1>1 DEF RemoteIn, Moved, RemoteRows
        <3>2. \A j \in RemoteIn({"approved"}) : Moved'[j] = Moved[j]
            BY <1>7 DEF RemoteIn
        <3>. QED
            BY <3>1, <3>2
    <2>. QED
        BY <2>1, <2>2, <2>3, Finite, TallyMono DEF Returned
<1>. QED
    BY <1>2, <1>3, <1>5, <1>8, <1>9, SumTypes, Finite

\* A refund in process is made or rejected.
LEMMA SettleEffect ==
    ASSUME TypeOK, Capped, NEW i \in Ids, remote[i].status = "in_process",
           NEW s \in {"approved", "rejected"}, remote' = [remote EXCEPT ![i].status = s]
    PROVE  /\ remote' \in [Ids -> RemoteRows]
           /\ Provided' <= Provided /\ (s = "approved" => Provided' = Provided)
           /\ Returned <= Returned'
           /\ RemoteIn({"in_process"})' = RemoteIn({"in_process"}) \ {i}
           /\ RemoteIn({"approved"}) \subseteq RemoteIn({"approved"})'
           /\ \A j \in Ids : remote'[j].amount = remote[j].amount
           /\ \A j \in Ids \ {i} : remote'[j] = remote[j]
           /\ remote'[i].status = s
<1>1. remote \in [Ids -> RemoteRows]
    BY TypeParts
<1>2. remote' \in [Ids -> RemoteRows]
    BY <1>1 DEF RemoteRows
<1>3. /\ \A j \in Ids \ {i} : remote'[j] = remote[j]
      /\ remote'[i].status = s /\ \A j \in Ids : remote'[j].amount = remote[j].amount
    BY <1>1 DEF RemoteRows
<1>4. /\ RemoteIn({"in_process"})' = RemoteIn({"in_process"}) \ {i}
      /\ RemoteIn({"approved"}) \subseteq RemoteIn({"approved"})'
      /\ RemoteIn({"approved", "in_process"})' \subseteq RemoteIn({"approved", "in_process"})
      /\ s = "approved" => RemoteIn({"approved", "in_process"})' = RemoteIn({"approved", "in_process"})
    BY <1>3 DEF RemoteIn
<1>5. Moved' = Moved
    BY <1>3 DEF Moved
<1>6. \A S \in SUBSET Ids : \A j \in S : Moved[j] \in Int
    BY <1>1 DEF Moved, RemoteRows
<1>7. \A S \in SUBSET Ids : \A T \in SUBSET S : Tally(T, Moved, Paid) <= Tally(S, Moved, Paid)
    <2>. SUFFICES ASSUME NEW S \in SUBSET Ids, NEW T \in SUBSET S
                  PROVE  Tally(T, Moved, Paid) <= Tally(S, Moved, Paid)
        OBVIOUS
    <2>1. IsFiniteSet(S) /\ \A j \in T : Moved[j] \in Int /\ Moved[j] <= Moved[j]
        BY <1>6, Finite
    <2>. QED
        BY <2>1, Finite, TallyMono
<1>8. \A statuses : RemoteIn(statuses) \in SUBSET Ids /\ RemoteIn(statuses)' \in SUBSET Ids
    BY DEF RemoteIn
<1>9. Provided' <= Provided /\ (s = "approved" => Provided' = Provided)
    BY <1>4, <1>5, <1>7, <1>8 DEF Provided
<1>10. Returned <= Returned'
    BY <1>4, <1>5, <1>7, <1>8 DEF Returned
<1>. QED
    BY <1>2, <1>3, <1>4, <1>9, <1>10

-----------------------------------------------------------------------------
(* What a step of a handler must show.                                       *)

HookPcs == {"idle", "final", "finalize", "sync_final", "sync"}

\* Handler h alone was written, and carries a refund if it must.
Writes(h) ==
    /\ handler' \in [Handlers -> HandlerRows]
    /\ \A g \in Handlers \ {h} : handler'[g] = handler[g]
    /\ h \in Clerks /\ handler'[h].pc # "idle" => handler'[h].r \in Refunds
    /\ h \in Hooks => handler'[h].pc \in HookPcs

LEMMA WritesCarried ==
    ASSUME LedgerInv, NEW h \in Handlers, Writes(h)
    PROVE  Carried'
<1>1. SUFFICES ASSUME NEW g \in Handlers
      PROVE  /\ g \in Clerks /\ handler'[g].pc # "idle" => handler'[g].r \in Refunds
             /\ g \in Hooks => handler'[g].pc \in HookPcs
    BY DEF Carried, Handlers, HookPcs
<1>2. CASE g = h
    BY <1>2 DEF Writes
<1>3. CASE g # h
    BY <1>3 DEF Writes, LedgerInv, Carried, HookPcs
<1>. QED
    BY <1>2, <1>3

\* Rows change only under a clerk, and keep the amounts of refunds made.
RowsKept(h) ==
    /\ refund' \in [Refunds -> RefundRows]
    /\ h \notin Clerks => refund' = refund
    /\ \A r \in Refunds :
          \/ refund'[r].amount = refund[r].amount
          \/ remote[r].status \notin {"in_process", "approved"}
    /\ \A r \in Refunds :
          \/ refund'[r].status \notin {"none", "REQUESTED", "FAILED"}
          \/ refund'[r].status = refund[r].status
          \/ remote[r].status \in {"none", "rejected"}

LEMMA StepKeeps ==
    ASSUME LedgerInv, NEW h \in Handlers, UNCHANGED remote, Writes(h),
           pay' \in PayRows, refund' \in [Refunds -> RefundRows],
           ledger' \in [Ids -> 0 .. Paid], synced' \in [1 .. Paid -> 0 .. Paid],
           Debited <= Debited', Debited' <= Paid,
           (Alone /\ Real) => /\ RowsKept(h) /\ Carries(h)' /\ EndIsReal' /\ DebitsReal'
                              /\ h \in Clerks => Knows(h)'
    PROVE  LedgerInv'
<1>1. TypeOK'
    BY TypeParts, TypePartsNext DEF LedgerInv, Writes
<1>2. Capped'
    BY SumsStay DEF LedgerInv, Capped
<1>3. Carried'
    BY WritesCarried
<1>4. Alone' <=> Alone
    BY DEF Alone
<1>5. ASSUME Alone
      PROVE  Real'
    <2>1. Real
        BY <1>5 DEF LedgerInv
    <2>2. RowsKept(h) /\ Carries(h)' /\ EndIsReal' /\ DebitsReal' /\ (h \in Clerks => Knows(h)')
        BY <1>5, <2>1
    <2>3. RowsAnswered'
        BY <2>1, <2>2 DEF Real, RowsAnswered, RowsKept
    <2>4. EnoughMoved'
        <3>1. SUFFICES ASSUME NEW r \in Refunds, remote[r].status \in {"in_process", "approved"}
              PROVE  \/ refund'[r].amount <= remote[r].amount
                     \/ RemoteIn({"in_process"}) \subseteq {r} /\ Remaining = 0
            BY SumsStay DEF EnoughMoved, RemoteIn, Remaining, Moved
        <3>2. refund'[r].amount = refund[r].amount
            BY <2>2, <3>1 DEF RowsKept
        <3>. QED
            BY <2>1, <3>1, <3>2 DEF Real, EnoughMoved
    <2>5. PanelDone'
        BY <2>1 DEF Real, PanelDone
    <2>6. \A c \in Clerks : Knows(c)'
        <3>1. SUFFICES ASSUME NEW c \in Clerks, c # h
              PROVE  Knows(c)'
            BY <2>2
        <3>2. h \notin Clerks
            BY <1>5, <3>1 DEF Alone
        <3>3. handler'[c] = handler[c] /\ refund' = refund
            BY <2>2, <3>1, <3>2 DEF Writes, RowsKept, Handlers
        <3>4. Knows(c)
            BY <2>1 DEF Real
        <3>. QED
            BY <3>3, <3>4 DEF Knows, RowsIn
    <2>7. \A g \in Handlers : Carries(g)'
        <3>1. SUFFICES ASSUME NEW g \in Handlers, g # h
              PROVE  Carries(g)'
            BY <2>2
        <3>2. handler'[g] = handler[g]
            BY <3>1 DEF Writes
        <3>3. Carries(g)
            BY <2>1, <3>1 DEF Real
        <3>4. handler[g].total \in Nat
            BY <3>1, TypeParts, RowFields DEF LedgerInv
        <3>. QED
            BY <3>2, <3>3, <3>4, SumsStay, SumTypes, SumTypesNext DEF Carries
    <2>. QED
        BY <2>2, <2>3, <2>4, <2>5, <2>6, <2>7 DEF Real
<1>. QED
    BY <1>1, <1>2, <1>3, <1>4, <1>5 DEF LedgerInv

\* A step that leaves the payment, the provider and the ledger alone.
LEMMA QuietKeeps ==
    ASSUME LedgerInv, NEW h \in Handlers, UNCHANGED <<pay, remote, ledger, synced>>, Writes(h),
           refund' \in [Refunds -> RefundRows],
           (Alone /\ Real) => /\ RowsKept(h)
                              /\ handler'[h].total <= Debited
                              /\ handler'[h].seen \subseteq RemoteIn({"approved"})
                              /\ handler'[h].pc \in Ending => Returned = Paid
                              /\ h \in Clerks => Knows(h)'
    PROVE  LedgerInv'
<1>1. pay' \in PayRows /\ ledger' \in [Ids -> 0 .. Paid] /\ synced' \in [1 .. Paid -> 0 .. Paid]
    BY TypeParts DEF LedgerInv
<1>2. Debited' = Debited /\ Returned' = Returned
      /\ RemoteIn({"approved"})' = RemoteIn({"approved"})
    BY SumsStay
<1>3. Debited <= Debited' /\ Debited' <= Paid
    BY <1>2, SumTypes DEF LedgerInv, Capped
<1>4. (Alone /\ Real) => /\ RowsKept(h) /\ Carries(h)' /\ EndIsReal' /\ DebitsReal'
                         /\ h \in Clerks => Knows(h)'
    <2>1. SUFFICES ASSUME Alone, Real
          PROVE  RowsKept(h) /\ Carries(h)' /\ EndIsReal' /\ DebitsReal' /\ (h \in Clerks => Knows(h)')
        OBVIOUS
    <2>2. Carries(h)'
        BY <1>2, <2>1 DEF Carries
    <2>3. EndIsReal' /\ DebitsReal'
        BY <1>2, <2>1 DEF Real, EndIsReal, DebitsReal
    <2>. QED
        BY <2>1, <2>2, <2>3
<1>. QED
    BY <1>1, <1>3, <1>4, StepKeeps

LEMMA RowsUntouched ==
    ASSUME LedgerInv, UNCHANGED refund, NEW h
    PROVE  RowsKept(h) /\ refund' \in [Refunds -> RefundRows]
BY TypeParts DEF LedgerInv, RowsKept

\* The two ways out of a step that writes no row.
LEMMA FinishKeeps ==
    ASSUME LedgerInv, NEW h \in Handlers, Finish(h), UNCHANGED <<pay, refund, remote, ledger, synced>>
    PROVE  LedgerInv'
<1>1. Writes(h) /\ handler'[h] = Idle
    BY FinishWrites, TypeParts, IdleFields DEF LedgerInv, Writes, HookPcs
<1>2. /\ handler'[h].total <= Debited
      /\ handler'[h].seen \subseteq RemoteIn({"approved"})
      /\ handler'[h].pc \in Ending => Returned = Paid
      /\ Knows(h)'
    BY <1>1, IdleFields, SumTypes DEF Ending, Knows
<1>. QED
    BY <1>1, <1>2, RowsUntouched, QuietKeeps

LEMMA GotoKeeps ==
    ASSUME LedgerInv, NEW h \in Handlers, NEW pc \in HandlerSteps, Goto(h, pc),
           handler[h].pc # "idle", h \in Hooks => pc \in HookPcs,
           UNCHANGED <<pay, refund, remote, ledger, synced>>,
           (Alone /\ Real) => /\ pc \in Ending => Returned = Paid
                              /\ h \in Clerks => Knows(h)'
    PROVE  LedgerInv'
<1>1. handler \in [Handlers -> HandlerRows]
    BY TypeParts DEF LedgerInv
<1>2. /\ handler' \in [Handlers -> HandlerRows]
      /\ \A g \in Handlers \ {h} : handler'[g] = handler[g]
      /\ handler'[h].pc = pc /\ handler'[h].r = handler[h].r
      /\ handler'[h].total = handler[h].total /\ handler'[h].seen = handler[h].seen
    BY <1>1, GotoWrites
<1>3. Writes(h)
    BY <1>2 DEF Writes, LedgerInv, Carried
<1>4. Real => Carries(h)
    BY DEF Real
<1>. QED
    BY <1>2, <1>3, <1>4, RowsUntouched, QuietKeeps DEF Carries

-----------------------------------------------------------------------------
(* What the debits say of the provider.                                      *)

LEMMA DebitedReal ==
    ASSUME LedgerInv, Real
    PROVE  Debited <= Returned
<1>1. CASE Returned = Paid
    BY <1>1 DEF LedgerInv, Capped
<1>2. CASE Returned # Paid
    <2>1. /\ \A cap \in 1 .. Paid : synced[cap] = 0
          /\ \A i \in Ids : ledger[i] # 0 => remote[i].status = "approved" /\ ledger[i] <= remote[i].amount
        BY <1>2 DEF Real, DebitsReal
    <2>2. Tally(1 .. Paid, synced, Paid) = 0
        BY <2>1, Finite, TallyZero
    <2> DEFINE made == RemoteIn({"approved"})
    <2>3. made \in SUBSET Ids /\ Ids \ made \in SUBSET Ids
          /\ made \cap (Ids \ made) = {} /\ made \cup (Ids \ made) = Ids
        BY DEF RemoteIn
    <2>4. \A i \in Ids \ made : ledger[i] = 0
        BY <2>1 DEF RemoteIn
    <2>5. \A i \in made : ledger[i] \in Int /\ Moved[i] \in Int /\ ledger[i] <= Moved[i]
        <3>1. SUFFICES ASSUME NEW i \in Ids, i \in made
              PROVE  ledger[i] \in Int /\ Moved[i] \in Int /\ ledger[i] <= Moved[i]
            BY <2>3
        <3>2. ledger[i] \in 0 .. Paid /\ remote[i] \in RemoteRows
            BY TypeParts DEF LedgerInv
        <3>3. Moved[i] = remote[i].amount /\ remote[i].amount \in 0 .. Paid
            BY <3>2 DEF Moved, RemoteRows
        <3>. QED
            BY <2>1, <3>2, <3>3, Finite
    <2>6. Returned = Tally(made, Moved, Paid)
        BY DEF Returned
    <2>. HIDE DEF made
    <2>7. IsFiniteSet(made) /\ IsFiniteSet(Ids \ made)
        BY <2>3, Finite
    <2>8. Tally(made \cup (Ids \ made), ledger, Paid)
            = Tally(made, ledger, Paid) + Tally(Ids \ made, ledger, Paid)
        BY <2>3, <2>7, Finite, TallyUnion
    <2>9. Tally(Ids \ made, ledger, Paid) = 0
        BY <2>4, Finite, TallyZero
    <2>10. Tally(made, ledger, Paid) <= Tally(made, Moved, Paid)
        BY <2>5, <2>7, Finite, TallyMono
    <2>11. Tally(made, ledger, Paid) \in Nat
        BY <2>7, Finite, TallyType
    <2>12. Tally(Ids, ledger, Paid) = Tally(made \cup (Ids \ made), ledger, Paid)
        BY <2>3
    <2>13. Debited = Tally(made, ledger, Paid)
        BY <2>2, <2>8, <2>9, <2>11, <2>12 DEF Debited
    <2>. QED
        BY <2>6, <2>10, <2>13
<1>. QED
    BY <1>1, <1>2

-----------------------------------------------------------------------------
(* Requests, retries and refreshes.                                          *)

LEMMA RefundFields ==
    ASSUME LedgerInv, NEW r \in Refunds
    PROVE  /\ refund[r] \in RefundRows
           /\ refund[r].amount \in 0 .. Paid /\ refund[r].full \in BOOLEAN
           /\ \A status \in RefundStatuses :
                 [refund EXCEPT ![r].status = status] \in [Refunds -> RefundRows]
           /\ [refund EXCEPT ![r].mp = TRUE] \in [Refunds -> RefundRows]
           /\ [refund EXCEPT ![r].status = "COMPLETED", ![r].mp = TRUE] \in [Refunds -> RefundRows]
<1>1. refund \in [Refunds -> RefundRows]
    BY TypeParts DEF LedgerInv
<1>2. refund[r] \in RefundRows
    BY <1>1
<1>. QED
    BY <1>1, <1>2 DEF RefundRows, RefundStatuses

\* A row takes another status, and keeps its amount.
LEMMA StatusKept ==
    ASSUME LedgerInv, NEW h \in Clerks, NEW r \in Refunds, NEW status \in RefundStatuses,
           refund' = [refund EXCEPT ![r].status = status],
           (Alone /\ Real) => \/ status \notin {"none", "REQUESTED", "FAILED"}
                              \/ remote[r].status \in {"none", "rejected"}
    PROVE  /\ refund' \in [Refunds -> RefundRows] /\ refund'[r].status = status
           /\ refund'[r].amount = refund[r].amount
           /\ (Alone /\ Real) => RowsKept(h)
<1>1. refund' \in [Refunds -> RefundRows]
    BY RefundFields
<1>2. /\ \A q \in Refunds : refund'[q].amount = refund[q].amount
      /\ \A q \in Refunds \ {r} : refund'[q] = refund[q]
      /\ refund'[r].status = status
    BY TypeParts DEF LedgerInv, RefundRows
<1>. QED
    BY <1>1, <1>2 DEF RowsKept

LEMMA StartRow ==
    ASSUME NEW pc \in HandlerSteps, NEW r \in Refunds
    PROVE  /\ [Idle EXCEPT !.pc = pc, !.r = r] \in HandlerRows
           /\ [Idle EXCEPT !.pc = pc, !.r = r].pc = pc
           /\ [Idle EXCEPT !.pc = pc, !.r = r].r = r
           /\ [Idle EXCEPT !.pc = pc, !.r = r].total = 0
           /\ [Idle EXCEPT !.pc = pc, !.r = r].seen = {}
<1>1. [Idle EXCEPT !.pc = pc, !.r = r] \in HandlerRows
    <2>1. PICK row \in HandlerRows : row = Idle
        BY IdleRow
    <2>2. [row EXCEPT !.pc = pc, !.r = r] \in HandlerRows
        BY DEF HandlerRows
    <2>. QED
        BY <2>1, <2>2
<1>2. [Idle EXCEPT !.pc = pc, !.r = r].pc = pc /\ [Idle EXCEPT !.pc = pc, !.r = r].r = r
    BY DEF Idle
<1>3. [Idle EXCEPT !.pc = pc, !.r = r].total = 0
    BY DEF Idle
<1>4. [Idle EXCEPT !.pc = pc, !.r = r].seen = {}
    BY DEF Idle
<1>. QED
    BY <1>1, <1>2, <1>3, <1>4

LEMMA StartWrites ==
    ASSUME LedgerInv, NEW h \in Clerks, NEW pc \in HandlerSteps, NEW r \in Refunds,
           handler' = [handler EXCEPT ![h] = [Idle EXCEPT !.pc = pc, !.r = r]]
    PROVE  /\ Writes(h) /\ handler'[h].pc = pc /\ handler'[h].r = r
           /\ handler'[h].total <= Debited
           /\ handler'[h].seen \subseteq RemoteIn({"approved"})
<1>1. handler \in [Handlers -> HandlerRows] /\ h \in Handlers /\ h \notin Hooks
    BY TypeParts, RefundLedgerAssumption DEF LedgerInv, Handlers
<1>2. PICK row : row = [Idle EXCEPT !.pc = pc, !.r = r]
    OBVIOUS
<1>3. /\ row \in HandlerRows /\ row.pc = pc /\ row.r = r /\ row.total = 0 /\ row.seen = {}
    BY <1>2, StartRow
<1>4. handler' = [handler EXCEPT ![h] = row]
    BY <1>2
<1>5. /\ handler'[h] = row /\ handler' \in [Handlers -> HandlerRows]
      /\ \A g \in Handlers \ {h} : handler'[g] = handler[g]
    BY <1>1, <1>3, <1>4
<1>6. Writes(h)
    BY <1>1, <1>3, <1>5 DEF Writes
<1>7. 0 <= Debited
    BY SumTypes
<1>. QED
    BY <1>3, <1>5, <1>6, <1>7

LEMMA RequestKeeps ==
    ASSUME LedgerInv, NEW h \in Clerks, NEW r \in Refunds, RequestRefund(h, r)
    PROVE  LedgerInv'
<1>. USE DEF RequestRefund
<1>1. h \in Handlers /\ "claim" \in HandlerSteps
    BY DEF Handlers, HandlerSteps
<1>2. Writes(h) /\ handler'[h].pc = "claim" /\ handler'[h].total <= Debited
      /\ handler'[h].seen \subseteq RemoteIn({"approved"})
    BY <1>1, StartWrites
<1>3. PICK amount \in 1 .. Refundable :
          refund' = [refund EXCEPT ![r] =
              [NoRow EXCEPT !.status = "REQUESTED", !.amount = amount, !.full = (amount = Refundable)]]
    OBVIOUS
<1>4. amount \in 0 .. Paid
    BY <1>3, SumTypes, Finite DEF Refundable
<1>5. refund \in [Refunds -> RefundRows]
    BY TypeParts DEF LedgerInv
<1>6. refund' \in [Refunds -> RefundRows]
    BY <1>3, <1>4, <1>5 DEF RefundRows, NoRow, RefundStatuses
<1>7. (Alone /\ Real) => RowsKept(h)
    <2>1. SUFFICES ASSUME Real PROVE RowsKept(h)
        OBVIOUS
    <2>2. remote[r].status \in {"none", "rejected"}
        BY <2>1 DEF Real, RowsAnswered
    <2>3. \A q \in Refunds \ {r} : refund'[q] = refund[q]
        BY <1>3, <1>5
    <2>. QED
        BY <1>6, <2>2, <2>3 DEF RowsKept
<1>8. Knows(h)' /\ handler'[h].pc \notin Ending
    BY <1>2 DEF Knows, Ending
<1>. QED
    BY <1>1, <1>2, <1>6, <1>7, <1>8, QuietKeeps

LEMMA ReadRetryKeeps ==
    ASSUME LedgerInv, NEW h \in Clerks, NEW r \in Refunds, ReadRetry(h, r)
    PROVE  LedgerInv'
<1>1. PICK pc \in {"reopen", "claim"} :
          /\ handler' = [handler EXCEPT ![h] = [Idle EXCEPT !.pc = pc, !.r = r]]
          /\ pc = "reopen" => refund[r].status = "PROCESSING"
    BY DEF ReadRetry
<1>2. h \in Handlers /\ pc \in HandlerSteps /\ pc \notin Ending
    BY DEF Handlers, HandlerSteps, Ending
<1>3. Writes(h) /\ handler'[h].pc = pc /\ handler'[h].r = r /\ handler'[h].total <= Debited
      /\ handler'[h].seen \subseteq RemoteIn({"approved"})
    BY <1>1, <1>2, StartWrites
<1>4. UNCHANGED <<pay, refund, remote, ledger, synced>>
    BY DEF ReadRetry
<1>5. Knows(h)'
    BY <1>1, <1>3, <1>4 DEF Knows
<1>. QED
    BY <1>2, <1>3, <1>4, <1>5, RowsUntouched, QuietKeeps

LEMMA ReadRefreshKeeps ==
    ASSUME LedgerInv, NEW h \in Clerks, NEW r \in Refunds, ReadRefresh(h, r)
    PROVE  LedgerInv'
<1>1. h \in Handlers /\ "refresh" \in HandlerSteps /\ "refresh" \notin Ending
    BY DEF Handlers, HandlerSteps, Ending
<1>2. Writes(h) /\ handler'[h].pc = "refresh" /\ handler'[h].total <= Debited
      /\ handler'[h].seen \subseteq RemoteIn({"approved"})
    BY <1>1, StartWrites DEF ReadRefresh
<1>3. UNCHANGED <<pay, refund, remote, ledger, synced>>
    BY DEF ReadRefresh
<1>4. Knows(h)'
    BY <1>2 DEF Knows
<1>. QED
    BY <1>1, <1>2, <1>3, <1>4, RowsUntouched, QuietKeeps

\* A clerk at work: its refund, and what it goes on with.
LEMMA AtWork ==
    ASSUME LedgerInv, NEW h \in Clerks, handler[h].pc # "idle"
    PROVE  /\ h \in Handlers /\ h \notin Hooks /\ handler[h].r \in Refunds
           /\ handler \in [Handlers -> HandlerRows]
           /\ (Alone /\ Real) => Knows(h) /\ Carries(h)
BY TypeParts, RefundLedgerAssumption DEF LedgerInv, Carried, Handlers, Real

LEMMA ClaimKeeps ==
    ASSUME LedgerInv, NEW h \in Clerks, Claim(h)
    PROVE  LedgerInv'
<1>1. /\ h \in Handlers /\ h \notin Hooks /\ handler[h].r \in Refunds
      /\ handler \in [Handlers -> HandlerRows]
      /\ (Alone /\ Real) => Knows(h) /\ Carries(h)
    BY AtWork DEF Claim
<1>2. PICK r \in Refunds : r = handler[h].r
    BY <1>1
<1>3. CASE refund[r].status \in {"REQUESTED", "UNKNOWN"}
    <2>1. refund' = [refund EXCEPT ![r].status = "PROCESSING"] /\ Goto(h, "count")
          /\ UNCHANGED <<pay, remote, ledger, synced>>
        BY <1>2, <1>3 DEF Claim
    <2>2. "PROCESSING" \in RefundStatuses /\ "count" \in HandlerSteps /\ "count" \notin Ending
        BY DEF RefundStatuses, HandlerSteps, Ending
    <2>3. refund' \in [Refunds -> RefundRows] /\ refund'[r].status = "PROCESSING"
          /\ ((Alone /\ Real) => RowsKept(h))
        BY <2>1, <2>2, StatusKept
    <2>4. /\ Writes(h) /\ handler'[h].pc = "count" /\ handler'[h].r = r
          /\ handler'[h].total = handler[h].total /\ handler'[h].seen = handler[h].seen
        BY <1>1, <1>2, <2>1, <2>2, GotoWrites DEF Writes
    <2>5. Knows(h)'
        BY <2>3, <2>4 DEF Knows
    <2>. QED
        BY <1>1, <2>1, <2>2, <2>3, <2>4, <2>5, QuietKeeps DEF Carries
<1>4. CASE refund[r].status \notin {"REQUESTED", "UNKNOWN"}
    BY <1>1, <1>2, <1>4, FinishKeeps DEF Claim
<1>. QED
    BY <1>3, <1>4

\* The refund goes out with its amount, or as everything that is left.
LEMMA CountPriorKeeps ==
    ASSUME LedgerInv, NEW h \in Clerks, CountPrior(h)
    PROVE  LedgerInv'
<1>1. /\ h \in Handlers /\ h \notin Hooks /\ handler[h].r \in Refunds
      /\ handler \in [Handlers -> HandlerRows]
      /\ (Alone /\ Real) => Knows(h) /\ Carries(h)
    BY AtWork DEF CountPrior
<1>2. PICK r \in Refunds : r = handler[h].r
    BY <1>1
<1> DEFINE prior == RowsIn({"COMPLETED", "PROCESSING", "UNKNOWN"})
<1> DEFINE only == refund[r].full /\ prior \ {r} = {}
           send == IF only THEN All ELSE refund[r].amount
<1>3. /\ handler' = [handler EXCEPT ![h].pc = "call", ![h].send = send]
      /\ send \in 0 .. Paid
      /\ send = refund[r].amount \/ (send = All /\ prior \subseteq {r})
    <2>1. handler' = [handler EXCEPT ![h].pc = "call", ![h].send = send]
        BY <1>2 DEF CountPrior
    <2>2. refund[r].amount \in 0 .. Paid
        BY RefundFields
    <2>3. All \in 0 .. Paid
        BY Finite DEF All
    <2>4. send = refund[r].amount \/ (send = All /\ prior \subseteq {r})
        <3>1. only => prior \subseteq {r}
            OBVIOUS
        <3>. HIDE DEF only
        <3>2. CASE only
            BY <3>1, <3>2
        <3>3. CASE ~only
            BY <3>3, Zenon
        <3>. QED
            BY <3>2, <3>3
    <2>. HIDE DEF send
    <2>. QED
        BY <2>1, <2>2, <2>3, <2>4
<1>. HIDE DEF send
<1>4. UNCHANGED <<pay, refund, remote, ledger, synced>> /\ handler[h].pc = "count"
    BY DEF CountPrior
<1>5. PICK row \in HandlerRows : row = handler[h]
    BY <1>1
<1>6. /\ [row EXCEPT !.pc = "call", !.send = send] \in HandlerRows
      /\ [row EXCEPT !.pc = "call", !.send = send].pc = "call"
      /\ [row EXCEPT !.pc = "call", !.send = send].send = send
      /\ [row EXCEPT !.pc = "call", !.send = send].r = row.r
      /\ [row EXCEPT !.pc = "call", !.send = send].total = row.total
      /\ [row EXCEPT !.pc = "call", !.send = send].seen = row.seen
    <2>1. send \in 0 .. Paid
        BY <1>3
    <2>. QED
        BY <2>1 DEF HandlerRows, HandlerSteps
<1>7. handler' = [handler EXCEPT ![h] = [row EXCEPT !.pc = "call", !.send = send]]
    BY <1>3, <1>5
<1>8. /\ Writes(h) /\ handler'[h].pc = "call" /\ handler'[h].send = send /\ handler'[h].r = r
      /\ handler'[h].total = handler[h].total /\ handler'[h].seen = handler[h].seen
    <2>1. PICK new : new = [row EXCEPT !.pc = "call", !.send = send]
        OBVIOUS
    <2>2. /\ new \in HandlerRows /\ new.pc = "call" /\ new.send = send /\ new.r = r
          /\ new.total = handler[h].total /\ new.seen = handler[h].seen
        BY <1>2, <1>5, <1>6, <2>1
    <2>3. /\ handler' \in [Handlers -> HandlerRows] /\ handler'[h] = new
          /\ \A g \in Handlers \ {h} : handler'[g] = handler[g]
        BY <1>1, <1>7, <2>1, <2>2
    <2>. QED
        BY <1>1, <2>2, <2>3 DEF Writes
<1>9. (Alone /\ Real) => Knows(h)'
    <2>1. SUFFICES ASSUME Knows(h)
          PROVE  Knows(h)'
        BY <1>1
    <2>2. refund'[r].status = "PROCESSING"
        BY <1>2, <1>4, <2>1 DEF Knows
    <2>3. RowsIn({"COMPLETED", "PROCESSING", "UNKNOWN"})' = prior
        BY <1>4 DEF RowsIn
    <2>. HIDE DEF prior
    <2>. QED
        BY <1>3, <1>4, <1>8, <2>2, <2>3 DEF Knows
<1>10. "call" \notin Ending
    BY DEF Ending
<1>. QED
    BY <1>1, <1>4, <1>8, <1>9, <1>10, RowsUntouched, QuietKeeps DEF Carries

\* The ends of a call that write the row.
LEMMA MarkKeeps ==
    ASSUME LedgerInv, NEW h \in Clerks, MarkProcessing(h) \/ MarkFailed(h) \/ MarkUnknown(h)
    PROVE  LedgerInv'
<1>1. /\ h \in Handlers /\ h \notin Hooks /\ handler[h].r \in Refunds
      /\ handler \in [Handlers -> HandlerRows]
      /\ (Alone /\ Real) => Knows(h) /\ Carries(h)
    BY AtWork DEF MarkProcessing, MarkFailed, MarkUnknown
<1>2. PICK r \in Refunds : r = handler[h].r
    BY <1>1
<1>3. Finish(h) /\ UNCHANGED <<pay, remote, ledger, synced>>
    BY DEF MarkProcessing, MarkFailed, MarkUnknown
<1>4. refund' \in [Refunds -> RefundRows] /\ ((Alone /\ Real) => RowsKept(h))
    <2>1. CASE MarkProcessing(h)
        <3>1. refund' = [refund EXCEPT ![r].mp = TRUE]
            BY <1>2, <2>1 DEF MarkProcessing
        <3>2. refund' \in [Refunds -> RefundRows]
            BY <3>1, RefundFields
        <3>3. \A q \in Refunds : refund'[q].amount = refund[q].amount /\ refund'[q].status = refund[q].status
            BY <3>1, TypeParts DEF LedgerInv, RefundRows
        <3>. QED
            BY <3>2, <3>3 DEF RowsKept
    <2>2. CASE MarkFailed(h)
        <3>1. refund' = [refund EXCEPT ![r].status = "FAILED"] /\ handler[h].pc = "fail"
            BY <1>2, <2>2 DEF MarkFailed
        <3>2. "FAILED" \in RefundStatuses
            BY DEF RefundStatuses
        <3>3. (Alone /\ Real) => remote[r].status \in {"none", "rejected"}
            BY <1>1, <1>2, <3>1 DEF Knows
        <3>. QED
            BY <3>1, <3>2, <3>3, StatusKept
    <2>3. CASE MarkUnknown(h)
        <3>1. refund' = [refund EXCEPT ![r].status = "UNKNOWN"] /\ "UNKNOWN" \in RefundStatuses
            BY <1>2, <2>3 DEF MarkUnknown, RefundStatuses
        <3>. QED
            BY <3>1, StatusKept
    <2>. QED
        BY <2>1, <2>2, <2>3
<1>5. Writes(h) /\ handler'[h] = Idle
    BY <1>1, <1>3, FinishWrites, IdleFields DEF Writes
<1>6. /\ handler'[h].total <= Debited
      /\ handler'[h].seen \subseteq RemoteIn({"approved"})
      /\ handler'[h].pc \notin Ending
      /\ Knows(h)'
    BY <1>5, IdleFields, SumTypes DEF Ending, Knows
<1>. QED
    BY <1>1, <1>3, <1>4, <1>5, <1>6, QuietKeeps

LEMMA WriteRetryKeeps ==
    ASSUME LedgerInv, NEW h \in Clerks, WriteRetry(h)
    PROVE  LedgerInv'
<1>1. /\ h \in Handlers /\ h \notin Hooks /\ handler[h].r \in Refunds
      /\ handler \in [Handlers -> HandlerRows]
      /\ (Alone /\ Real) => Knows(h) /\ Carries(h)
    BY AtWork DEF WriteRetry
<1>2. PICK r \in Refunds : r = handler[h].r
    BY <1>1
<1>3. /\ refund' = [refund EXCEPT ![r].status = "UNKNOWN"] /\ Goto(h, "claim")
      /\ UNCHANGED <<pay, remote, ledger, synced>>
    BY <1>2 DEF WriteRetry
<1>4. "UNKNOWN" \in RefundStatuses /\ "claim" \in HandlerSteps /\ "claim" \notin Ending
    BY DEF RefundStatuses, HandlerSteps, Ending
<1>5. refund' \in [Refunds -> RefundRows] /\ ((Alone /\ Real) => RowsKept(h))
    BY <1>3, <1>4, StatusKept
<1>6. /\ Writes(h) /\ handler'[h].pc = "claim"
      /\ handler'[h].total = handler[h].total /\ handler'[h].seen = handler[h].seen
    BY <1>1, <1>3, <1>4, GotoWrites DEF Writes
<1>7. Knows(h)'
    BY <1>6 DEF Knows
<1>. QED
    BY <1>1, <1>3, <1>4, <1>5, <1>6, <1>7, QuietKeeps DEF Carries

-----------------------------------------------------------------------------
(* The provider's steps, and the call that makes one.                        *)

\* No step of the provider takes back what went back.
LEMMA RemoteKeeps ==
    ASSUME LedgerInv, UNCHANGED <<pay, refund, ledger, synced>>, Carried',
           handler' \in [Handlers -> HandlerRows], remote' \in [Ids -> RemoteRows],
           Provided' <= Paid, Returned <= Returned',
           \A i \in Ids : remote[i].status = "approved" => remote'[i] = remote[i],
           (Alone /\ Real) => /\ RowsAnswered' /\ EnoughMoved' /\ PanelDone'
                              /\ \A h \in Clerks : Knows(h)',
           (Alone /\ Real) => \A h \in Handlers :
                                 /\ handler'[h].total = handler[h].total
                                 /\ handler'[h].seen = handler[h].seen
                                 /\ handler'[h].pc \in Ending => handler[h].pc \in Ending
    PROVE  LedgerInv'
<1>1. TypeOK'
    BY TypeParts, TypePartsNext DEF LedgerInv
<1>2. Debited' = Debited
    BY SumsStay
<1>3. Capped'
    BY <1>2 DEF LedgerInv, Capped
<1>4. Alone' <=> Alone
    BY DEF Alone
<1>5. ASSUME Alone
      PROVE  Real'
    <2>1. Real
        BY <1>5 DEF LedgerInv
    <2>2. Returned = Paid => Returned' = Paid
        BY <1>1, ReturnedWithinNext, SumTypesNext, Finite
    <2>3. EndIsReal'
        BY <2>1, <2>2 DEF Real, EndIsReal
    <2>4. DebitsReal'
        <3>1. CASE Returned = Paid
            BY <2>2, <3>1 DEF DebitsReal
        <3>2. CASE Returned # Paid
            <4>1. /\ \A cap \in 1 .. Paid : synced[cap] = 0
                  /\ \A i \in Ids : ledger[i] # 0 => remote[i].status = "approved"
                                                      /\ ledger[i] <= remote[i].amount
                BY <2>1, <3>2 DEF Real, DebitsReal
            <4>2. \A i \in Ids : ledger'[i] # 0 => remote'[i].status = "approved"
                                                    /\ ledger'[i] <= remote'[i].amount
                BY <4>1
            <4>. QED
                BY <4>1, <4>2 DEF DebitsReal
        <3>. QED
            BY <3>1, <3>2
    <2>5. \A h \in Handlers : Carries(h)'
        <3>1. SUFFICES ASSUME NEW h \in Handlers
              PROVE  Carries(h)'
            OBVIOUS
        <3>2. Carries(h)
            BY <2>1 DEF Real
        <3>3. RemoteIn({"approved"}) \subseteq RemoteIn({"approved"})'
            BY DEF RemoteIn
        <3>4. /\ handler'[h].total = handler[h].total /\ handler'[h].seen = handler[h].seen
              /\ handler'[h].pc \in Ending => handler[h].pc \in Ending
            BY <1>5, <2>1
        <3>. QED
            BY <1>2, <2>2, <3>2, <3>3, <3>4 DEF Carries
    <2>. QED
        BY <1>5, <2>1, <2>3, <2>4, <2>5 DEF Real
<1>. QED
    BY <1>1, <1>3, <1>4, <1>5 DEF LedgerInv

LEMMA SettleKeeps ==
    ASSUME LedgerInv, NEW i \in Ids, NEW s \in {"approved", "rejected"}, Settle(i, s)
    PROVE  LedgerInv'
<1>1. /\ remote[i].status = "in_process" /\ remote' = [remote EXCEPT ![i].status = s]
      /\ UNCHANGED <<pay, refund, ledger, synced, handler>>
    BY DEF Settle
<1>2. /\ remote' \in [Ids -> RemoteRows]
      /\ Provided' <= Provided /\ (s = "approved" => Provided' = Provided)
      /\ Returned <= Returned'
      /\ RemoteIn({"in_process"})' = RemoteIn({"in_process"}) \ {i}
      /\ RemoteIn({"approved"}) \subseteq RemoteIn({"approved"})'
      /\ \A j \in Ids : remote'[j].amount = remote[j].amount
      /\ \A j \in Ids \ {i} : remote'[j] = remote[j]
      /\ remote'[i].status = s
    BY <1>1, SettleEffect DEF LedgerInv
<1>3. Provided' <= Paid
    BY <1>2, SumTypes, SumTypesNext, Finite DEF LedgerInv, Capped
<1>4. \A j \in Ids : remote[j].status = "approved" => remote'[j] = remote[j]
    BY <1>1, <1>2
<1>5. ASSUME Alone, Real
      PROVE  RowsAnswered' /\ EnoughMoved' /\ PanelDone' /\ \A h \in Clerks : Knows(h)'
    <2>1. \A j \in Ids : remote[j].status \in {"none", "rejected", "approved"} => remote'[j] = remote[j]
        BY <1>1, <1>2
    <2>2. \A r \in Refunds : r \in Ids
        BY DEF Ids
    <2>3. RowsAnswered'
        BY <1>1, <1>5, <2>1, <2>2 DEF Real, RowsAnswered
    <2>4. PanelDone'
        BY <1>1, <1>2, <1>5 DEF Real, PanelDone, Ids
    <2>5. EnoughMoved'
        <3>1. SUFFICES ASSUME NEW r \in Refunds, remote'[r].status \in {"in_process", "approved"},
                              ~(refund'[r].amount <= remote'[r].amount)
              PROVE  RemoteIn({"in_process"})' \subseteq {r} /\ Remaining' = 0
            BY DEF EnoughMoved
        <3>2. remote[r].status \in {"in_process", "approved"}
            BY <1>1, <1>2, <2>2, <3>1
        <3>3. RemoteIn({"in_process"}) \subseteq {r} /\ Remaining = 0
            BY <1>1, <1>2, <1>5, <2>2, <3>1, <3>2 DEF Real, EnoughMoved
        <3>4. i = r
            BY <1>1, <3>3 DEF RemoteIn
        <3>5. s = "approved"
            BY <1>2, <3>1, <3>4
        <3>6. Remaining = Paid - Provided /\ Remaining' = Paid - Provided'
            BY DEF Remaining, Provided
        <3>. QED
            BY <1>2, <3>3, <3>5, <3>6
    <2>6. \A h \in Clerks : Knows(h)'
        <3>1. SUFFICES ASSUME NEW h \in Clerks
              PROVE  Knows(h)'
            OBVIOUS
        <3>2. Knows(h)
            BY <1>5 DEF Real
        <3>3. handler[h].pc # "idle" => handler[h].r \in Ids
            BY <2>2 DEF LedgerInv, Carried
        <3>4. RowsIn({"COMPLETED", "PROCESSING", "UNKNOWN"})' = RowsIn({"COMPLETED", "PROCESSING", "UNKNOWN"})
            BY <1>1 DEF RowsIn
        <3>. QED
            BY <1>1, <2>1, <3>2, <3>3, <3>4 DEF Knows
    <2>. QED
        BY <2>3, <2>4, <2>5, <2>6
<1>6. Carried' /\ handler' \in [Handlers -> HandlerRows]
    BY <1>1, TypeParts DEF LedgerInv, Carried
<1>. QED
    BY <1>1, <1>2, <1>3, <1>4, <1>5, <1>6, RemoteKeeps

LEMMA PanelKeeps ==
    ASSUME LedgerInv, NEW i \in Panel, PanelRefund(i)
    PROVE  LedgerInv'
<1>1. PICK amount \in 1 .. Remaining :
          remote' = [remote EXCEPT ![i] = [status |-> "approved", amount |-> amount]]
    BY DEF PanelRefund
<1>2. /\ remote[i].status = "none" /\ UNCHANGED <<pay, refund, ledger, synced, handler>>
      /\ i \in Ids
    BY DEF PanelRefund, Ids
<1>3. /\ remote' \in [Ids -> RemoteRows]
      /\ Provided' = Provided + amount /\ Provided' <= Paid
      /\ Returned <= Returned'
      /\ \A t \in {"approved", "in_process"} :
            RemoteIn({t})' = RemoteIn({t}) \cup (IF t = "approved" THEN {i} ELSE {})
    BY <1>1, <1>2, AcceptEffect DEF LedgerInv
<1>4. /\ \A j \in Ids \ {i} : remote'[j] = remote[j]
      /\ remote'[i].status = "approved"
    BY <1>1, <1>2, TypeParts DEF LedgerInv
<1>5. Remaining # 0
    BY <1>1, SumTypes, Finite
<1>6. \A r \in Refunds : r \in Ids /\ remote'[r] = remote[r]
    BY <1>4, RefundLedgerAssumption DEF Ids
<1>7. ASSUME Alone, Real
      PROVE  RowsAnswered' /\ EnoughMoved' /\ PanelDone' /\ \A h \in Clerks : Knows(h)'
    <2>1. RowsAnswered'
        BY <1>2, <1>6, <1>7 DEF Real, RowsAnswered
    <2>2. EnoughMoved'
        BY <1>2, <1>5, <1>6, <1>7 DEF Real, EnoughMoved
    <2>3. PanelDone'
        BY <1>4, <1>7 DEF Real, PanelDone, Ids
    <2>4. \A h \in Clerks : Knows(h)'
        <3>1. SUFFICES ASSUME NEW h \in Clerks
              PROVE  Knows(h)'
            OBVIOUS
        <3>2. Knows(h)
            BY <1>7 DEF Real
        <3>3. handler[h].pc # "idle" => handler[h].r \in Refunds
            BY DEF LedgerInv, Carried
        <3>4. RowsIn({"COMPLETED", "PROCESSING", "UNKNOWN"})' = RowsIn({"COMPLETED", "PROCESSING", "UNKNOWN"})
            BY <1>2 DEF RowsIn
        <3>. QED
            BY <1>2, <1>6, <3>2, <3>3, <3>4 DEF Knows
    <2>. QED
        BY <2>1, <2>2, <2>3, <2>4
<1>8. Carried' /\ handler' \in [Handlers -> HandlerRows]
    BY <1>2, TypeParts DEF LedgerInv, Carried
<1>. QED
    BY <1>2, <1>3, <1>4, <1>7, <1>8, RemoteKeeps

\* The provider accepts the refund of a clerk, whose handler goes on.
LEMMA AcceptKeeps ==
    ASSUME LedgerInv, NEW h \in Clerks, handler[h].pc = "call", NEW ask,
           ask = IF handler[h].send = All THEN Remaining ELSE handler[h].send,
           ask \in 1 .. Remaining, remote[handler[h].r].status = "none",
           NEW s \in {"approved", "in_process"}, NEW pc \in {"complete", "processing", "unknown"},
           remote' = [remote EXCEPT ![handler[h].r] = [status |-> s, amount |-> ask]],
           Goto(h, pc), pc = "complete" => s = "approved",
           UNCHANGED <<pay, refund, ledger, synced>>
    PROVE  LedgerInv'
<1>1. /\ h \in Handlers /\ h \notin Hooks /\ handler[h].r \in Refunds
      /\ handler \in [Handlers -> HandlerRows]
      /\ (Alone /\ Real) => Knows(h) /\ Carries(h)
    BY AtWork
<1>2. PICK r \in Refunds : r = handler[h].r
    BY <1>1
<1>3. r \in Ids /\ remote[r].status = "none"
      /\ remote' = [remote EXCEPT ![r] = [status |-> s, amount |-> ask]]
    BY <1>2 DEF Ids
<1>4. /\ remote' \in [Ids -> RemoteRows]
      /\ Provided' = Provided + ask /\ Provided' <= Paid
      /\ Returned <= Returned'
      /\ \A t \in {"approved", "in_process"} :
            RemoteIn({t})' = RemoteIn({t}) \cup (IF t = s THEN {r} ELSE {})
    BY <1>3, AcceptEffect DEF LedgerInv
<1>5. /\ \A j \in Ids \ {r} : remote'[j] = remote[j]
      /\ remote'[r].status = s /\ remote'[r].amount = ask
    BY <1>3, TypeParts DEF LedgerInv
<1>6. Remaining # 0 /\ Remaining = Paid - Provided /\ Remaining' = Paid - Provided'
    BY SumTypes, Finite DEF Remaining, Provided
<1>7. pc \in HandlerSteps /\ pc \notin Ending /\ pc # "call" /\ pc # "count" /\ pc # "fail"
    BY DEF HandlerSteps, Ending
<1>8. /\ Writes(h) /\ handler'[h].pc = pc /\ handler'[h].r = r
      /\ handler'[h].total = handler[h].total /\ handler'[h].seen = handler[h].seen
    BY <1>1, <1>2, <1>7, GotoWrites DEF Writes
<1>9. ASSUME Alone, Real
      PROVE  RowsAnswered' /\ EnoughMoved' /\ PanelDone' /\ \A c \in Clerks : Knows(c)'
    <2>1. /\ refund[r].status = "PROCESSING"
          /\ \/ handler[h].send = refund[r].amount
             \/ handler[h].send = All /\ RowsIn({"COMPLETED", "PROCESSING", "UNKNOWN"}) \subseteq {r}
        BY <1>1, <1>2, <1>9 DEF Knows
    <2>2. RowsAnswered'
        BY <1>5, <1>9, <2>1 DEF Real, RowsAnswered, Ids
    <2>3. PanelDone'
        BY <1>5, <1>9, RefundLedgerAssumption DEF Real, PanelDone, Ids
    <2>4. EnoughMoved'
        <3>1. SUFFICES ASSUME NEW q \in Refunds, remote'[q].status \in {"in_process", "approved"},
                              ~(refund'[q].amount <= remote'[q].amount)
              PROVE  RemoteIn({"in_process"})' \subseteq {q} /\ Remaining' = 0
            BY DEF EnoughMoved
        <3>2. q = r
            BY <1>5, <1>6, <1>9, <3>1 DEF Real, EnoughMoved, Ids
        <3>3. handler[h].send = All /\ handler[h].send # refund[r].amount
              /\ RowsIn({"COMPLETED", "PROCESSING", "UNKNOWN"}) \subseteq {r}
            <4>1. ask \in Int /\ ask >= 1
                OBVIOUS
            <4>2. ~(refund[r].amount <= ask)
                BY <1>5, <3>1, <3>2
            <4>3. handler[h].send = refund[r].amount => refund[r].amount <= ask
                <5>1. refund[r].amount \in 0 .. Paid
                    BY RefundFields
                <5>. QED
                    BY <4>1, <5>1, Finite DEF All
            <4>. QED
                BY <2>1, <4>2, <4>3
        <3>4. RemoteIn({"in_process"}) = {}
            <4>1. SUFFICES ASSUME NEW i \in Ids, remote[i].status = "in_process"
                  PROVE  FALSE
                BY DEF RemoteIn
            <4>2. i \in Refunds /\ i # r
                BY <1>3, <1>9, <4>1 DEF Real, PanelDone, Ids
            <4>3. refund[i].status \in {"none", "REQUESTED", "FAILED"}
                BY <3>3, <4>2, RefundFields DEF RowsIn, RefundRows, RefundStatuses
            <4>. QED
                BY <1>9, <4>1, <4>2, <4>3 DEF Real, RowsAnswered
        <3>5. ask = Remaining
            BY <3>3
        <3>. QED
            BY <1>4, <1>6, <3>2, <3>4, <3>5, SumTypes, Finite
    <2>5. \A c \in Clerks : Knows(c)'
        <3>1. Knows(h)'
            BY <1>5, <1>7, <1>8 DEF Knows
        <3>. QED
            BY <1>9, <3>1 DEF Alone
    <2>. QED
        BY <2>2, <2>3, <2>4, <2>5
<1>10. Carried' /\ handler' \in [Handlers -> HandlerRows]
    BY <1>1, <1>8, WritesCarried DEF Writes
<1>11. \A g \in Handlers : /\ handler'[g].total = handler[g].total
                           /\ handler'[g].seen = handler[g].seen
                           /\ handler'[g].pc \in Ending => handler[g].pc \in Ending
    BY <1>7, <1>8 DEF Writes
<1>12. \A i \in Ids : remote[i].status = "approved" => remote'[i] = remote[i]
    BY <1>3, <1>5
<1>. QED
    BY <1>4, <1>9, <1>10, <1>11, <1>12, RemoteKeeps

LEMMA CallKeeps ==
    ASSUME LedgerInv, NEW h \in Clerks, CallProvider(h)
    PROVE  LedgerInv'
<1>1. handler[h].pc = "call" /\ UNCHANGED <<pay, refund, ledger, synced>>
    BY DEF CallProvider
<1>2. /\ h \in Handlers /\ h \notin Hooks /\ handler[h].r \in Refunds
      /\ handler \in [Handlers -> HandlerRows]
      /\ (Alone /\ Real) => Knows(h) /\ Carries(h)
    BY <1>1, AtWork
<1>3. PICK r \in Refunds : r = handler[h].r
    BY <1>2
<1>4. PICK ask : ask = IF handler[h].send = All THEN Remaining ELSE handler[h].send
    OBVIOUS
<1>5. ASSUME NEW pc \in {"complete", "processing", "fail", "unknown"}, Goto(h, pc), UNCHANGED remote,
             pc = "complete" => remote[r].status = "approved",
             Alone => (pc = "fail" => remote[r].status \in {"none", "rejected"})
      PROVE  LedgerInv'
    <2>1. pc \in HandlerSteps /\ pc \notin Ending /\ pc # "call" /\ pc # "count"
        BY DEF HandlerSteps, Ending
    <2>2. handler'[h].pc = pc /\ handler'[h].r = r
        BY <1>2, <1>3, <1>5, <2>1, GotoWrites
    <2>3. (Alone /\ Real) => Knows(h)'
        BY <1>5, <2>1, <2>2 DEF Knows
    <2>. QED
        BY <1>1, <1>2, <1>5, <2>1, <2>3, GotoKeeps
<1>6. \/ /\ remote[r].status # "none" /\ UNCHANGED remote
         /\ Goto(h, AfterAnswer(remote[r].status))
      \/ /\ remote[r].status = "none" /\ ask \in 1 .. Remaining
         /\ \E s \in Answers \cap {"approved", "in_process"} :
               /\ remote' = [remote EXCEPT ![r] = [status |-> s, amount |-> ask]]
               /\ Goto(h, AfterAnswer(s)) \/ Goto(h, "unknown")
      \/ remote[r].status = "none" /\ UNCHANGED remote /\ Goto(h, "fail")
      \/ UNCHANGED remote /\ Goto(h, "unknown")
      \/ "refused" \in Answers /\ UNCHANGED remote /\ Goto(h, "fail")
    BY <1>3, <1>4 DEF CallProvider
<1>7. CASE remote[r].status # "none" /\ UNCHANGED remote /\ Goto(h, AfterAnswer(remote[r].status))
    <2>1. remote[r].status \in {"in_process", "approved", "rejected"}
        BY <1>7, TypeParts DEF LedgerInv, RemoteRows, Ids
    <2>2. CASE remote[r].status = "approved"
        BY <1>5, <1>7, <2>2 DEF AfterAnswer
    <2>3. CASE remote[r].status = "in_process"
        BY <1>5, <1>7, <2>3 DEF AfterAnswer
    <2>4. CASE remote[r].status = "rejected"
        BY <1>5, <1>7, <2>4 DEF AfterAnswer
    <2>. QED
        BY <2>1, <2>2, <2>3, <2>4
<1>8. ASSUME remote[r].status = "none", ask \in 1 .. Remaining, NEW s \in {"approved", "in_process"},
             remote' = [remote EXCEPT ![r] = [status |-> s, amount |-> ask]],
             Goto(h, AfterAnswer(s)) \/ Goto(h, "unknown")
      PROVE  LedgerInv'
    <2>1. \E pc \in {"complete", "processing", "unknown"} : Goto(h, pc) /\ (pc = "complete" => s = "approved")
        <3>1. CASE Goto(h, "unknown")
            BY <3>1
        <3>2. CASE Goto(h, AfterAnswer(s)) /\ s = "approved"
            BY <3>2 DEF AfterAnswer
        <3>3. CASE Goto(h, AfterAnswer(s)) /\ s = "in_process"
            BY <3>3 DEF AfterAnswer
        <3>. QED
            BY <1>8, <3>1, <3>2, <3>3
    <2>. QED
        BY <1>1, <1>3, <1>4, <1>8, <2>1, AcceptKeeps
<1>9. CASE remote[r].status = "none" /\ UNCHANGED remote /\ Goto(h, "fail")
    BY <1>5, <1>9
<1>10. CASE UNCHANGED remote /\ Goto(h, "unknown")
    BY <1>5, <1>10
<1>11. CASE "refused" \in Answers /\ UNCHANGED remote /\ Goto(h, "fail")
    BY <1>5, <1>11 DEF Alone
<1>. QED
    BY <1>6, <1>7, <1>8, <1>9, <1>10, <1>11

LEMMA ListRefundsKeeps ==
    ASSUME LedgerInv, NEW h \in Clerks, ListRefunds(h)
    PROVE  LedgerInv'
<1>1. handler[h].pc = "refresh" /\ UNCHANGED <<pay, refund, remote, ledger, synced>>
    BY DEF ListRefunds
<1>2. /\ h \in Handlers /\ h \notin Hooks /\ handler[h].r \in Refunds
      /\ handler \in [Handlers -> HandlerRows]
    BY <1>1, AtWork
<1>3. PICK r \in Refunds : r = handler[h].r
    BY <1>2
<1>4. ASSUME NEW pc \in {"complete", "fail"}, Goto(h, pc),
             pc = "complete" => remote[r].status = "approved",
             pc = "fail" => remote[r].status = "rejected"
      PROVE  LedgerInv'
    <2>1. pc \in HandlerSteps /\ pc \notin Ending /\ pc # "call" /\ pc # "count"
        BY DEF HandlerSteps, Ending
    <2>2. handler'[h].pc = pc /\ handler'[h].r = r
        BY <1>2, <1>3, <1>4, <2>1, GotoWrites
    <2>3. Knows(h)'
        BY <1>1, <1>4, <2>1, <2>2 DEF Knows
    <2>. QED
        BY <1>1, <1>2, <1>4, <2>1, <2>3, GotoKeeps
<1>5. CASE remote[r].status = "approved"
    <2>1. Goto(h, "complete")
        BY <1>3, <1>5 DEF ListRefunds, AfterAnswer
    <2>. QED
        BY <1>4, <1>5, <2>1
<1>6. CASE remote[r].status = "rejected"
    <2>1. Goto(h, "fail")
        BY <1>3, <1>6 DEF ListRefunds, AfterAnswer
    <2>. QED
        BY <1>4, <1>6, <2>1
<1>7. CASE remote[r].status \notin {"approved", "rejected"}
    <2>1. Finish(h)
        BY <1>3, <1>7 DEF ListRefunds
    <2>. QED
        BY <1>1, <1>2, <2>1, FinishKeeps
<1>. QED
    BY <1>5, <1>6, <1>7

-----------------------------------------------------------------------------
(* The steps that write the ledger.                                          *)

\* The debit of a completed refund: within the payment, never less than it was,
\* and no more than was asked for.
LEMMA CompletionEffect ==
    ASSUME LedgerInv, NEW r \in Refunds, UNCHANGED synced,
           ledger' = [ledger EXCEPT ![r] = CompletionDebit(r)]
    PROVE  /\ ledger' \in [Ids -> 0 .. Paid] /\ \A i \in Ids \ {r} : ledger'[i] = ledger[i]
           /\ ledger'[r] = ledger[r] \/ ledger'[r] <= refund[r].amount
           /\ Debited <= Debited' /\ Debited' <= Paid
<1>1. PICK debit : debit = CompletionDebit(r)
    OBVIOUS
<1>2. r \in Ids /\ ledger \in [Ids -> 0 .. Paid]
    BY TypeParts DEF Ids, LedgerInv
<1>3. /\ debit \in Int /\ ledger[r] <= debit /\ debit - ledger[r] <= Paid - Debited
      /\ debit \in 0 .. Paid
      /\ debit = ledger[r] \/ debit <= refund[r].amount
    <2>1. ledger[r] \in 0 .. Paid
        BY <1>2
    <2>2. refund[r].amount \in 0 .. Paid
        BY RefundFields
    <2>3. Debited \in Nat /\ Debited <= Paid /\ Paid \in Nat
        BY SumTypes, Finite DEF LedgerInv, Capped
    <2>4. PICK asked \in Int, had \in Int, written \in Int :
              asked = refund[r].amount /\ had = ledger[r] /\ written = Debited
        BY <2>1, <2>2, <2>3
    <2>5. debit = IF had # 0 THEN had ELSE IF asked <= Paid - written THEN asked ELSE Paid - written
        BY <1>1, <2>4 DEF CompletionDebit, Least
    <2>. QED
        BY <2>1, <2>2, <2>3, <2>4, <2>5
<1>4. ledger' \in [Ids -> 0 .. Paid] /\ ledger'[r] = debit
      /\ \A i \in Ids \ {r} : ledger'[i] = ledger[i]
    BY <1>1, <1>2, <1>3
<1>5. ledger[r] \in 0 .. Paid /\ ledger'[r] \in 0 .. Paid /\ \A y \in Ids \ {r} : ledger[y] = ledger'[y]
    BY <1>2, <1>4
<1>6. Tally(Ids, ledger', Paid) = Tally(Ids, ledger, Paid) - ledger[r] + ledger'[r]
    <2>1. PICK ids, old, new, x : ids = Ids /\ old = ledger /\ new = ledger' /\ x = r
        OBVIOUS
    <2>2. /\ IsFiniteSet(ids) /\ Paid \in Nat /\ x \in ids
          /\ old[x] \in 0 .. Paid /\ new[x] \in 0 .. Paid
          /\ \A y \in ids \ {x} : old[y] = new[y]
        BY <1>2, <1>5, <2>1, Finite
    <2>3. Tally(ids, new, Paid) = Tally(ids, old, Paid) - old[x] + new[x]
        BY ONLY <2>2, TallyUpdate
    <2>. QED
        BY <2>1, <2>3
<1>7. Debited' = Debited - ledger[r] + debit
    BY <1>3, <1>4, <1>5, <1>6, SumTypes DEF Debited
<1>. QED
    BY <1>3, <1>4, <1>5, <1>7, SumTypes, Finite

LEMMA CompletedKeeps ==
    ASSUME LedgerInv, NEW h \in Clerks, MarkCompleted(h)
    PROVE  LedgerInv'
<1>1. handler[h].pc = "complete" /\ UNCHANGED <<pay, remote, synced>> /\ Goto(h, "total")
    BY DEF MarkCompleted
<1>2. /\ h \in Handlers /\ h \notin Hooks /\ handler[h].r \in Refunds
      /\ handler \in [Handlers -> HandlerRows]
      /\ (Alone /\ Real) => Knows(h) /\ Carries(h)
    BY <1>1, AtWork
<1>3. PICK r \in Refunds : r = handler[h].r
    BY <1>2
<1>4. /\ refund' = [refund EXCEPT ![r].status = "COMPLETED", ![r].mp = TRUE]
      /\ ledger' = [ledger EXCEPT ![r] = CompletionDebit(r)]
    BY <1>3 DEF MarkCompleted
<1>5. r \in Ids /\ ledger \in [Ids -> 0 .. Paid] /\ refund \in [Refunds -> RefundRows]
    BY TypeParts DEF Ids, LedgerInv
<1>6. /\ refund' \in [Refunds -> RefundRows]
      /\ \A q \in Refunds : refund'[q].amount = refund[q].amount
      /\ \A q \in Refunds \ {r} : refund'[q] = refund[q]
      /\ refund'[r].status = "COMPLETED"
    <2>1. refund' \in [Refunds -> RefundRows]
        BY <1>4, RefundFields
    <2>. QED
        BY <1>4, <1>5, <2>1 DEF RefundRows
<1>7. /\ ledger' \in [Ids -> 0 .. Paid] /\ \A i \in Ids \ {r} : ledger'[i] = ledger[i]
      /\ ledger'[r] = ledger[r] \/ ledger'[r] <= refund[r].amount
      /\ Debited <= Debited' /\ Debited' <= Paid
    BY <1>1, <1>4, CompletionEffect
<1>8. "total" \in HandlerSteps /\ "total" \notin Ending
    BY DEF HandlerSteps, Ending
<1>9. /\ Writes(h) /\ handler'[h].pc = "total"
      /\ handler'[h].total = handler[h].total /\ handler'[h].seen = handler[h].seen
    BY <1>1, <1>2, <1>8, GotoWrites DEF Writes
<1>10. Knows(h)'
    BY <1>9 DEF Knows
<1>11. ASSUME Alone, Real
       PROVE  RowsKept(h) /\ Carries(h)' /\ EndIsReal' /\ DebitsReal'
    <2>1. RowsKept(h)
        BY <1>6 DEF RowsKept
    <2>2. Returned' = Returned /\ RemoteIn({"approved"})' = RemoteIn({"approved"})
        BY <1>1, SumsStay
    <2>3. Carries(h)'
        <3>1. handler[h].total \in Nat /\ handler[h].total <= Debited
              /\ handler[h].seen \subseteq RemoteIn({"approved"})
            BY <1>2, <1>11, RowFields DEF Carries
        <3>. QED
            BY <1>7, <1>8, <1>9, <2>2, <3>1, SumTypes, SumTypesNext DEF Carries
    <2>4. EndIsReal'
        BY <1>1, <1>11, <2>2 DEF Real, EndIsReal
    <2>5. DebitsReal'
        <3>1. CASE Returned = Paid
            BY <2>2, <3>1 DEF DebitsReal
        <3>2. CASE Returned # Paid
            <4>1. /\ \A cap \in 1 .. Paid : synced[cap] = 0
                  /\ \A i \in Ids : ledger[i] # 0 => remote[i].status = "approved"
                                                      /\ ledger[i] <= remote[i].amount
                BY <1>11, <3>2 DEF Real, DebitsReal
            <4>2. remote[r].status = "approved"
                BY <1>1, <1>2, <1>3, <1>11 DEF Knows
            <4>3. refund[r].amount <= remote[r].amount
                <5>1. CASE RemoteIn({"in_process"}) \subseteq {r} /\ Remaining = 0
                    <6>1. RemoteIn({"in_process"}) = {}
                        BY <4>2, <5>1 DEF RemoteIn
                    <6>. QED
                        BY <3>2, <5>1, <6>1, ReturnedWithin, SumTypes, Finite DEF LedgerInv
                <5>. QED
                    BY <1>11, <4>2, <5>1 DEF Real, EnoughMoved
            <4>4. ledger'[r] <= remote[r].amount \/ ledger'[r] = ledger[r]
                <5>1. refund[r].amount \in 0 .. Paid
                    BY RefundFields
                <5>2. remote[r].amount \in 0 .. Paid
                    BY <1>5, TypeParts DEF LedgerInv, RemoteRows
                <5>3. ledger'[r] \in 0 .. Paid
                    BY <1>5, <1>7
                <5>. QED
                    BY <1>7, <4>3, <5>1, <5>2, <5>3, Finite
            <4>5. \A i \in Ids : ledger'[i] # 0 => remote'[i].status = "approved"
                                                    /\ ledger'[i] <= remote'[i].amount
                BY <1>1, <1>7, <4>1, <4>2, <4>4
            <4>. QED
                BY <1>1, <4>1, <4>5 DEF DebitsReal
        <3>. QED
            BY <3>1, <3>2
    <2>. QED
        BY <2>1, <2>3, <2>4, <2>5
<1>12. pay' \in PayRows /\ synced' \in [1 .. Paid -> 0 .. Paid]
    BY <1>1, TypeParts DEF LedgerInv
<1>. QED
    BY <1>1, <1>2, <1>6, <1>7, <1>9, <1>10, <1>11, <1>12, StepKeeps

\* syncPaymentState from an observation that is true of the provider.
LEMMA SyncKeeps ==
    ASSUME LedgerInv, NEW h \in Handlers, NEW amount \in Nat, NEW list \in SUBSET Ids,
           NEW reported \in BOOLEAN, syncPaymentState(amount, list, reported),
           UNCHANGED <<refund, remote>>, Writes(h),
           (Alone /\ Real) => /\ amount <= Returned
                              /\ list \subseteq RemoteIn({"approved"})
                              /\ list = {} => amount <= Debited
                              /\ handler'[h].total <= Debited
                              /\ handler'[h].seen \subseteq RemoteIn({"approved"})
                              /\ handler'[h].pc \in Ending => Returned = Paid
                              /\ h \in Clerks => Knows(h)'
    PROVE  LedgerInv'
<1>1. /\ pay' \in PayRows /\ pay'.status = pay.status
      /\ ledger' \in [Ids -> 0 .. Paid] /\ synced' \in [1 .. Paid -> 0 .. Paid]
      /\ Debited <= Debited' /\ Debited' <= Paid
      /\ \A i \in Ids : ledger'[i] = ledger[i]
                        \/ (i \in list /\ ledger'[i] <= remote[i].amount)
      /\ pay'.state = "REFUNDED" =>
            pay.state = "REFUNDED" \/ pay.status = "refunded" \/ amount >= Paid
      /\ synced' # synced =>
            /\ list = {}
            /\ amount = 0 => pay.status = "refunded"
            /\ amount > 0 => amount > Debited
    BY SyncEffect DEF LedgerInv
<1>2. Returned' = Returned /\ RemoteIn({"approved"})' = RemoteIn({"approved"})
    BY SumsStay
<1>3. Returned \in Nat /\ Returned <= Paid /\ Paid \in Nat /\ Debited \in Nat /\ Debited' \in Nat
    BY ReturnedWithin, SumTypes, SumTypesNext, Finite DEF LedgerInv, Capped
<1>4. handler'[h].total \in Nat
    BY RowFields DEF Writes
<1>5. ASSUME Alone, Real
      PROVE  RowsKept(h) /\ Carries(h)' /\ EndIsReal' /\ DebitsReal' /\ (h \in Clerks => Knows(h)')
    <2>1. /\ amount <= Returned /\ list \subseteq RemoteIn({"approved"})
          /\ list = {} => amount <= Debited
          /\ handler'[h].total <= Debited
          /\ handler'[h].seen \subseteq RemoteIn({"approved"})
          /\ handler'[h].pc \in Ending => Returned = Paid
          /\ h \in Clerks => Knows(h)'
        BY <1>5
    <2>2. Carries(h)'
        BY <1>1, <1>2, <1>3, <1>4, <2>1 DEF Carries
    <2>3. pay.status = "refunded" \/ pay.state = "REFUNDED" => Returned = Paid
        BY <1>5 DEF Real, EndIsReal
    <2>4. EndIsReal'
        BY <1>1, <1>2, <1>3, <2>1, <2>3 DEF EndIsReal
    <2>5. DebitsReal'
        <3>1. CASE Returned = Paid
            BY <1>2, <3>1 DEF DebitsReal
        <3>2. CASE Returned # Paid
            <4>1. /\ \A cap \in 1 .. Paid : synced[cap] = 0
                  /\ \A i \in Ids : ledger[i] # 0 => remote[i].status = "approved"
                                                      /\ ledger[i] <= remote[i].amount
                BY <1>5, <3>2 DEF Real, DebitsReal
            <4>2. synced' = synced
                BY <1>1, <1>3, <2>1, <2>3, <3>2
            <4>3. \A i \in Ids : ledger'[i] # 0 => remote'[i].status = "approved"
                                                    /\ ledger'[i] <= remote'[i].amount
                BY <1>1, <2>1, <4>1 DEF RemoteIn
            <4>. QED
                BY <4>1, <4>2, <4>3 DEF DebitsReal
        <3>. QED
            BY <3>1, <3>2
    <2>6. RowsKept(h)
        BY RowsUntouched
    <2>. QED
        BY <2>1, <2>2, <2>4, <2>5, <2>6
<1>6. refund' \in [Refunds -> RefundRows]
    BY RowsUntouched
<1>. QED
    BY <1>1, <1>5, <1>6, StepKeeps

\* A handler that ends its work, whatever it was.
LEMMA Ended ==
    ASSUME LedgerInv, NEW h \in Handlers, Finish(h)
    PROVE  /\ Writes(h) /\ handler'[h].total <= Debited
           /\ handler'[h].seen \subseteq RemoteIn({"approved"})
           /\ handler'[h].pc \notin Ending /\ Knows(h)'
<1>1. Writes(h) /\ handler'[h] = Idle
    BY FinishWrites, TypeParts, IdleFields DEF LedgerInv, Writes, HookPcs
<1>. QED
    BY <1>1, IdleFields, SumTypes DEF Ending, Knows

LEMMA PartialKeeps ==
    ASSUME LedgerInv, NEW h \in Clerks, SyncPartial(h)
    PROVE  LedgerInv'
<1>1. /\ handler[h].pc = "partial" /\ syncPaymentState(handler[h].total, {}, TRUE)
      /\ Finish(h) /\ UNCHANGED <<refund, remote>>
    BY DEF SyncPartial
<1>2. /\ h \in Handlers /\ handler \in [Handlers -> HandlerRows]
      /\ (Alone /\ Real) => Carries(h)
    BY <1>1, AtWork
<1>3. handler[h].total \in Nat
    BY <1>2, RowFields
<1>4. (Alone /\ Real) => handler[h].total <= Debited /\ handler[h].total <= Returned
    <2>1. SUFFICES ASSUME Alone, Real
          PROVE  handler[h].total <= Debited /\ handler[h].total <= Returned
        OBVIOUS
    <2>2. handler[h].total <= Debited /\ Debited <= Returned
        BY <1>2, <2>1, DebitedReal DEF Carries
    <2>. QED
        BY <1>3, <2>2, SumTypes
<1>5. PICK amount \in Nat : amount = handler[h].total
    BY <1>3
<1>6. /\ Writes(h) /\ handler'[h].total <= Debited
      /\ handler'[h].seen \subseteq RemoteIn({"approved"})
      /\ handler'[h].pc \notin Ending /\ Knows(h)'
    BY <1>1, <1>2, Ended
<1>7. syncPaymentState(amount, {}, TRUE)
    BY <1>1, <1>5
<1>. QED
    BY <1>1, <1>2, <1>4, <1>5, <1>6, <1>7, SyncKeeps

\* AfterFinal: a webhook goes on with its observation, a request is done.
LEMMA AfterFinalWrites ==
    ASSUME LedgerInv, NEW h \in Handlers, handler[h].pc \in Ending, AfterFinal(h)
    PROVE  /\ Writes(h)
           /\ handler'[h].pc \notin Ending /\ Knows(h)'
           /\ (Alone /\ Real) => /\ handler'[h].total <= Debited
                                 /\ handler'[h].seen \subseteq RemoteIn({"approved"})
<1>1. CASE h \in Hooks
    <2>1. Goto(h, "sync") /\ "sync" \in HandlerSteps /\ handler \in [Handlers -> HandlerRows]
        BY <1>1, TypeParts DEF AfterFinal, HandlerSteps, LedgerInv
    <2>2. /\ handler' \in [Handlers -> HandlerRows]
          /\ \A g \in Handlers \ {h} : handler'[g] = handler[g]
          /\ handler'[h].pc = "sync"
          /\ handler'[h].total = handler[h].total /\ handler'[h].seen = handler[h].seen
        BY <2>1, GotoWrites
    <2>3. h \notin Clerks
        BY <1>1, RefundLedgerAssumption
    <2>4. Writes(h) /\ handler'[h].pc \notin Ending /\ Knows(h)'
        BY <2>2, <2>3 DEF Writes, HookPcs, Ending, Knows
    <2>5. Real => Carries(h)
        BY DEF Real
    <2>. QED
        BY <2>2, <2>4, <2>5 DEF Carries
<1>2. CASE h \notin Hooks
    BY <1>2, Ended DEF AfterFinal
<1>. QED
    BY <1>1, <1>2

LEMMA ReadFinalKeeps ==
    ASSUME LedgerInv, NEW h \in Handlers, ReadFinal(h)
    PROVE  LedgerInv'
<1>1. handler[h].pc = "final" /\ UNCHANGED <<pay, refund, remote, ledger, synced>>
    BY DEF ReadFinal
<1>2. "final" \in Ending /\ "finalize" \in HandlerSteps /\ "finalize" \in HookPcs
    BY DEF Ending, HandlerSteps, HookPcs
<1>3. CASE pay.status = "refunded"
    <2>1. AfterFinal(h)
        BY <1>3 DEF ReadFinal
    <2>. QED
        BY <1>1, <1>2, <2>1, AfterFinalWrites, RowsUntouched, QuietKeeps
<1>4. CASE pay.status # "refunded"
    <2>1. Goto(h, "finalize")
        BY <1>4 DEF ReadFinal
    <2>2. handler'[h].pc = "finalize"
        BY <1>2, <2>1, TypeParts, GotoWrites DEF LedgerInv
    <2>3. Knows(h)'
        BY <2>2 DEF Knows
    <2>4. Real => Returned = Paid
        BY <1>1, <1>2 DEF Real, Carries
    <2>. QED
        BY <1>1, <1>2, <2>1, <2>3, <2>4, GotoKeeps
<1>. QED
    BY <1>3, <1>4

LEMMA FinalizeKeeps ==
    ASSUME LedgerInv, NEW h \in Handlers, FinalizeRefund(h)
    PROVE  LedgerInv'
<1>1. /\ handler[h].pc = "finalize" /\ pay' = [pay EXCEPT !.status = "refunded"]
      /\ Goto(h, "sync_final") /\ UNCHANGED <<refund, remote, ledger, synced>>
    BY DEF FinalizeRefund
<1>2. "finalize" \in Ending /\ "sync_final" \in HandlerSteps /\ "sync_final" \in HookPcs
    BY DEF Ending, HandlerSteps, HookPcs
<1>3. /\ handler' \in [Handlers -> HandlerRows]
      /\ \A g \in Handlers \ {h} : handler'[g] = handler[g]
      /\ handler'[h].pc = "sync_final" /\ handler'[h].r = handler[h].r
      /\ handler'[h].total = handler[h].total /\ handler'[h].seen = handler[h].seen
    BY <1>1, <1>2, TypeParts, GotoWrites DEF LedgerInv
<1>4. Writes(h)
    BY <1>1, <1>2, <1>3 DEF Writes, LedgerInv, Carried
<1>5. Knows(h)'
    BY <1>3 DEF Knows
<1>6. Debited' = Debited /\ Returned' = Returned
      /\ RemoteIn({"approved"})' = RemoteIn({"approved"})
    BY <1>1, SumsStay
<1>7. ASSUME Real
      PROVE  Carries(h)' /\ EndIsReal' /\ DebitsReal'
    <2>1. Carries(h) /\ Returned = Paid
        BY <1>1, <1>2, <1>7 DEF Real, Carries
    <2>2. Carries(h)'
        BY <1>3, <1>6, <2>1 DEF Carries
    <2>. QED
        BY <1>6, <2>1, <2>2 DEF EndIsReal, DebitsReal
<1>8. pay' \in PayRows /\ ledger' \in [Ids -> 0 .. Paid] /\ synced' \in [1 .. Paid -> 0 .. Paid]
    BY <1>1, TypeParts DEF LedgerInv, PayRows
<1>9. Debited <= Debited' /\ Debited' <= Paid
    BY <1>6, SumTypes DEF LedgerInv, Capped
<1>. QED
    BY <1>1, <1>4, <1>5, <1>7, <1>8, <1>9, RowsUntouched, StepKeeps

LEMMA SyncFinalKeeps ==
    ASSUME LedgerInv, NEW h \in Handlers, SyncFinal(h)
    PROVE  LedgerInv'
<1>1. /\ handler[h].pc = "sync_final" /\ syncPaymentState(0, {}, FALSE)
      /\ AfterFinal(h) /\ UNCHANGED <<refund, remote>>
    BY DEF SyncFinal
<1>2. "sync_final" \in Ending
    BY DEF Ending
<1>3. /\ Writes(h)
      /\ handler'[h].pc \notin Ending /\ Knows(h)'
      /\ (Alone /\ Real) => /\ handler'[h].total <= Debited
                            /\ handler'[h].seen \subseteq RemoteIn({"approved"})
    BY <1>1, <1>2, AfterFinalWrites
<1>4. 0 <= Returned /\ 0 <= Debited
    BY SumTypes
<1>. QED
    BY <1>1, <1>3, <1>4, SyncKeeps

LEMMA SyncFailsKeeps ==
    ASSUME LedgerInv, NEW h \in Handlers, SyncFails(h)
    PROVE  LedgerInv'
<1>1. UNCHANGED <<pay, refund, remote, ledger, synced>>
    BY DEF SyncFails
<1>2. CASE handler[h].pc = "sync_final" /\ AfterFinal(h)
    <2>1. "sync_final" \in Ending
        BY DEF Ending
    <2>. QED
        BY <1>1, <1>2, <2>1, AfterFinalWrites, RowsUntouched, QuietKeeps
<1>3. CASE Finish(h)
    BY <1>1, <1>3, FinishKeeps
<1>. QED
    BY <1>2, <1>3 DEF SyncFails

\* A clerk reads the total: all of it debited means all of it returned.
LEMMA ReadTotalKeeps ==
    ASSUME LedgerInv, NEW h \in Clerks, ReadTotal(h)
    PROVE  LedgerInv'
<1>1. handler[h].pc = "total" /\ UNCHANGED <<pay, refund, remote, ledger, synced>>
    BY DEF ReadTotal
<1>2. /\ h \in Handlers /\ h \notin Hooks /\ handler[h].r \in Refunds
      /\ handler \in [Handlers -> HandlerRows]
      /\ (Alone /\ Real) => Knows(h) /\ Carries(h)
    BY <1>1, AtWork
<1>3. PICK pc \in {"final", "partial"} :
          /\ handler' = [handler EXCEPT ![h].total = Debited, ![h].pc = pc]
          /\ pc = "final" => Debited >= Paid
    <2>1. handler' = [handler EXCEPT ![h].total = Debited,
                          ![h].pc = IF Debited >= Paid THEN "final" ELSE "partial"]
        BY DEF ReadTotal
    <2>2. CASE Debited >= Paid
        BY <2>1, <2>2
    <2>3. CASE ~(Debited >= Paid)
        BY <2>1, <2>3
    <2>. QED
        BY <2>2, <2>3
<1>4. PICK row \in HandlerRows : row = handler[h]
    BY <1>2
<1>5. PICK total \in Nat : total = Debited
    BY SumTypes
<1>6. PICK new : new = [row EXCEPT !.total = total, !.pc = pc]
    OBVIOUS
<1>7. /\ new \in HandlerRows /\ new.pc = pc /\ new.total = total
      /\ new.r = row.r /\ new.seen = row.seen
    BY <1>6 DEF HandlerRows, HandlerSteps
<1>8. handler' = [handler EXCEPT ![h] = new]
    BY <1>3, <1>4, <1>5, <1>6
<1>9. /\ handler' \in [Handlers -> HandlerRows] /\ handler'[h] = new
      /\ \A g \in Handlers \ {h} : handler'[g] = handler[g]
    BY <1>2, <1>7, <1>8
<1>10. Writes(h)
    BY <1>2, <1>4, <1>7, <1>9 DEF Writes
<1>11. Knows(h)'
    BY <1>7, <1>9 DEF Knows
<1>12. ASSUME Alone, Real
       PROVE  /\ handler'[h].total <= Debited
              /\ handler'[h].seen \subseteq RemoteIn({"approved"})
              /\ handler'[h].pc \in Ending => Returned = Paid
    <2>1. Debited <= Returned /\ Returned <= Paid
        BY <1>12, DebitedReal, ReturnedWithin, SumTypes, Finite DEF LedgerInv, Capped
    <2>2. pc \in Ending => Returned = Paid
        BY <1>3, <2>1, SumTypes, Finite DEF Ending
    <2>3. total <= Debited
        BY <1>5, SumTypes
    <2>. QED
        BY <1>2, <1>4, <1>7, <1>9, <1>12, <2>2, <2>3 DEF Carries
<1>. QED
    BY <1>1, <1>2, <1>10, <1>11, <1>12, RowsUntouched, QuietKeeps

-----------------------------------------------------------------------------
(* Webhooks.                                                                 *)

LEMMA ObserveKeeps ==
    ASSUME LedgerInv, NEW h \in Hooks, Observe(h)
    PROVE  LedgerInv'
<1>1. h \in Handlers /\ h \notin Clerks /\ handler \in [Handlers -> HandlerRows]
    BY RefundLedgerAssumption, TypeParts DEF LedgerInv, Handlers
<1> DEFINE seen == RemoteIn({"approved"})
<1>2. PICK pc \in {"final", "sync"}, listed \in BOOLEAN :
          /\ handler' = [handler EXCEPT ![h] = [Idle EXCEPT !.pc = pc, !.seen = seen, !.listed = listed]]
          /\ pc = "final" => Returned = Paid
    <2> DEFINE listed == \E i \in Ids : remote[i].status # "none"
               next(pc) == [handler EXCEPT ![h] = [Idle EXCEPT !.pc = pc, !.seen = seen, !.listed = listed]]
    <2>1. listed \in BOOLEAN
        OBVIOUS
    <2>2. handler' = next(IF Returned = Paid THEN "final" ELSE "sync")
        BY DEF Observe
    <2>. HIDE DEF listed
    <2>3. CASE Returned = Paid
        <3>1. handler' = next("final")
            BY <2>2, <2>3
        <3>. QED
            BY <2>1, <2>3, <3>1
    <2>4. CASE Returned # Paid
        <3>1. handler' = next("sync")
            BY <2>2, <2>4
        <3>. QED
            BY <2>1, <3>1
    <2>. QED
        BY <2>3, <2>4
<1>3. seen \in SUBSET Ids
    BY DEF RemoteIn
<1>. HIDE DEF seen
<1>4. PICK row \in HandlerRows : row = Idle
    BY IdleRow
<1>5. PICK new : new = [row EXCEPT !.pc = pc, !.seen = seen, !.listed = listed]
    OBVIOUS
<1>6. /\ new \in HandlerRows /\ new.pc = pc /\ new.seen = seen /\ new.total = row.total
    BY <1>3, <1>5 DEF HandlerRows, HandlerSteps
<1>7. handler' = [handler EXCEPT ![h] = new]
    BY <1>2, <1>4, <1>5
<1>8. /\ handler' \in [Handlers -> HandlerRows] /\ handler'[h] = new
      /\ \A g \in Handlers \ {h} : handler'[g] = handler[g]
    BY <1>1, <1>6, <1>7
<1>9. Writes(h)
    BY <1>1, <1>6, <1>8 DEF Writes, HookPcs
<1>10. /\ handler'[h].total <= Debited /\ handler'[h].seen \subseteq RemoteIn({"approved"})
       /\ handler'[h].pc \in Ending => Returned = Paid
    BY <1>2, <1>4, <1>6, <1>8, IdleFields, SumTypes DEF Ending, seen
<1>11. UNCHANGED <<pay, refund, remote, ledger, synced>>
    BY DEF Observe
<1>. QED
    BY <1>1, <1>9, <1>10, <1>11, RowsUntouched, QuietKeeps

LEMMA SyncObservedKeeps ==
    ASSUME LedgerInv, NEW h \in Hooks, SyncObserved(h)
    PROVE  LedgerInv'
<1>1. h \in Handlers /\ h \notin Clerks /\ handler \in [Handlers -> HandlerRows]
    BY RefundLedgerAssumption, TypeParts DEF LedgerInv, Handlers
<1>2. PICK seen, listed : seen = handler[h].seen /\ listed = handler[h].listed
    OBVIOUS
<1>3. seen \in SUBSET Ids /\ listed \in BOOLEAN
    BY <1>1, <1>2, RowFields
<1>4. PICK amount : amount = Tally(seen, Moved, Paid)
    OBVIOUS
<1>5. IsFiniteSet(seen) /\ IsFiniteSet(RemoteIn({"approved"}))
    BY <1>3, Finite DEF RemoteIn
<1>6. amount \in Nat
    BY <1>4, <1>5, Finite, TallyType
<1>7. /\ syncPaymentState(amount, seen, listed)
      /\ Finish(h) /\ UNCHANGED <<refund, remote>>
    BY <1>2, <1>4 DEF SyncObserved
<1>8. ASSUME Real
      PROVE  /\ amount <= Returned /\ seen \subseteq RemoteIn({"approved"})
             /\ seen = {} => amount <= Debited
    <2>1. seen \subseteq RemoteIn({"approved"})
        BY <1>1, <1>2, <1>8 DEF Real, Carries
    <2>2. \A i \in seen : Moved[i] \in Int /\ Moved[i] <= Moved[i]
        <3>1. \A i \in Ids : Moved[i] \in Int
            BY TypeParts DEF LedgerInv, Moved, RemoteRows
        <3>. QED
            BY <1>3, <3>1
    <2>3. amount <= Returned
        BY <1>4, <1>5, <2>1, <2>2, Finite, TallyMono DEF Returned
    <2>4. seen = {} => amount = 0
        BY <1>4, TallyEmpty
    <2>. QED
        BY <2>1, <2>3, <2>4, SumTypes
<1>9. /\ Writes(h) /\ handler'[h].total <= Debited
      /\ handler'[h].seen \subseteq RemoteIn({"approved"})
      /\ handler'[h].pc \notin Ending /\ Knows(h)'
    BY <1>1, <1>7, Ended
<1>. QED
    BY <1>1, <1>3, <1>6, <1>7, <1>8, <1>9, SyncKeeps

LEMMA DiesKeeps ==
    ASSUME LedgerInv, NEW h \in Handlers, HandlerDies(h)
    PROVE  LedgerInv'
BY FinishKeeps DEF HandlerDies

-----------------------------------------------------------------------------
LEMMA LedgerInitInv == Init => LedgerInv
<1>. SUFFICES ASSUME Init
              PROVE  LedgerInv
    OBVIOUS
<1>1. TypeOK
    <2>1. pay \in PayRows
        BY DEF Init, PayRows
    <2>2. refund \in [Refunds -> RefundRows]
        BY Finite DEF Init, NoRow, RefundRows, RefundStatuses
    <2>3. remote \in [Ids -> RemoteRows]
        BY Finite DEF Init, RemoteRows
    <2>4. ledger \in [Ids -> 0 .. Paid] /\ synced \in [1 .. Paid -> 0 .. Paid]
        BY Finite DEF Init
    <2>5. handler \in [Handlers -> HandlerRows]
        BY IdleRow DEF Init
    <2>. QED
        BY <2>1, <2>2, <2>3, <2>4, <2>5, TypeParts
<1>2. Debited = 0
    <2>1. Tally(Ids, ledger, Paid) = 0
        BY Finite, TallyZero DEF Init
    <2>2. Tally(1 .. Paid, synced, Paid) = 0
        BY Finite, TallyZero DEF Init
    <2>. QED
        BY <2>1, <2>2 DEF Debited
<1>3. \A i \in Ids : remote[i].status = "none"
    BY DEF Init
<1>4. \A t \in {"approved", "in_process"} : RemoteIn({t}) = {}
    BY <1>3 DEF RemoteIn
<1>5. Provided = 0
    <2>1. RemoteIn({"approved", "in_process"}) = {}
        BY <1>3 DEF RemoteIn
    <2>. QED
        BY <2>1, TallyEmpty DEF Provided
<1>6. Capped
    BY <1>2, <1>5, Finite DEF Capped
<1>7. Carried
    BY DEF Init, Carried, Idle, Handlers
<1>8. Real
    <2>1. RowsAnswered /\ EnoughMoved /\ PanelDone /\ EndIsReal
        BY <1>3 DEF Init, RowsAnswered, EnoughMoved, PanelDone, EndIsReal, Ids
    <2>2. DebitsReal
        BY DEF Init, DebitsReal
    <2>3. \A h \in Handlers : handler[h] = Idle
        BY DEF Init
    <2>4. \A h \in Handlers : Knows(h) /\ Carries(h)
        BY <1>2, <2>3, IdleFields DEF Knows, Carries, Ending
    <2>5. \A h \in Clerks : h \in Handlers
        BY DEF Handlers
    <2>. QED
        BY <2>1, <2>2, <2>4, <2>5 DEF Real
<1>. QED
    BY <1>1, <1>6, <1>7, <1>8 DEF LedgerInv

LEMMA ClerkKeeps ==
    ASSUME LedgerInv, NEW h \in Clerks, ClerkSteps(h)
    PROVE  LedgerInv'
BY RequestKeeps, ReadRetryKeeps, ReadRefreshKeeps, ClaimKeeps, CountPriorKeeps, CallKeeps, MarkKeeps,
   CompletedKeeps, ReadTotalKeeps, PartialKeeps, WriteRetryKeeps, ListRefundsKeeps DEF ClerkSteps

LEMMA LedgerNextKeeps == LedgerInv /\ [Next]_vars => LedgerInv'
<1>. SUFFICES ASSUME LedgerInv, [Next]_vars
              PROVE  LedgerInv'
    OBVIOUS
<1>1. ASSUME NEW i \in Ids, NEW s \in {"approved", "rejected"}, Settle(i, s)
      PROVE  LedgerInv'
    BY <1>1, SettleKeeps
<1>2. ASSUME NEW i \in Panel, PanelRefund(i)
      PROVE  LedgerInv'
    BY <1>2, PanelKeeps
<1>3. ASSUME NEW h \in Clerks, ClerkSteps(h)
      PROVE  LedgerInv'
    BY <1>3, ClerkKeeps
<1>4. ASSUME NEW h \in Hooks, HookSteps(h)
      PROVE  LedgerInv'
    BY <1>4, ObserveKeeps, SyncObservedKeeps DEF HookSteps
<1>5. ASSUME NEW h \in Handlers,
             ReadFinal(h) \/ FinalizeRefund(h) \/ SyncFinal(h) \/ SyncFails(h) \/ HandlerDies(h)
      PROVE  LedgerInv'
    BY <1>5, ReadFinalKeeps, FinalizeKeeps, SyncFinalKeeps, SyncFailsKeeps, DiesKeeps
<1>6. CASE UNCHANGED vars
    <2>1. UNCHANGED <<pay, refund, remote, ledger, synced, handler>>
        BY <1>6 DEF vars
    <2>2. TypeOK'
        BY <2>1 DEF LedgerInv, TypeOK
    <2>3. Capped' /\ Carried'
        BY <2>1, SumsStay DEF LedgerInv, Capped, Carried
    <2>4. Debited' = Debited /\ Returned' = Returned /\ Remaining' = Remaining
          /\ \A statuses : /\ RemoteIn(statuses)' = RemoteIn(statuses)
                           /\ RowsIn(statuses)' = RowsIn(statuses)
        BY <2>1, SumsStay DEF Remaining, Moved, RemoteIn, RowsIn
    <2>5. Real => Real'
        <3>1. Real => RowsAnswered' /\ EnoughMoved' /\ PanelDone' /\ EndIsReal' /\ DebitsReal'
            BY <2>1, <2>4 DEF Real, RowsAnswered, EnoughMoved, PanelDone, EndIsReal, DebitsReal
        <3>2. Real => \A h \in Clerks : Knows(h)'
            BY <2>1, <2>4 DEF Real, Knows
        <3>3. Real => \A h \in Handlers : Carries(h)'
            BY <2>1, <2>4 DEF Real, Carries
        <3>. QED
            BY <3>1, <3>2, <3>3 DEF Real
    <2>6. Alone' <=> Alone
        BY DEF Alone
    <2>. QED
        BY <2>2, <2>3, <2>5, <2>6 DEF LedgerInv
<1>. QED
    BY <1>1, <1>2, <1>3, <1>4, <1>5, <1>6 DEF Next

LEMMA LedgerInvariant == Spec => []LedgerInv
<1>. QED
    BY LedgerInitInv, LedgerNextKeeps, PTL DEF Spec

-----------------------------------------------------------------------------
(* The refunds as money that goes back.                                      *)

\* A payment that is refunded stays so: no transition leaves REFUNDED.
LEMMA RefundedStays ==
    ASSUME TypeOK, NEW amount, NEW list, NEW reported,
           syncPaymentState(amount, list, reported), RefundedInFull
    PROVE  RefundedInFull'
<1>1. pay \in PayRows
    BY TypeParts
<1>2. pay' = pay \/ (pay.state # "REFUNDED" /\ \E to : pay' = [pay EXCEPT !.state = to])
    BY DEF syncPaymentState, canPaymentTransition
<1>3. pay'.status = pay.status /\ (pay.state = "REFUNDED" => pay'.state = "REFUNDED")
    BY <1>1, <1>2 DEF PayRows
<1>. QED
    BY <1>3 DEF RefundedInFull

\* The provider moves money, or the shop records what it heard of.
Moves == UNCHANGED <<pay, ledger, synced>> /\ Returned <= Returned'
Records == UNCHANGED remote /\ Debited <= Debited' /\ (RefundedInFull => RefundedInFull')

LEMMA CallMoves ==
    ASSUME LedgerInv, NEW h \in Clerks, CallProvider(h)
    PROVE  Moves
<1>1. handler[h].pc = "call" /\ UNCHANGED <<pay, refund, ledger, synced>>
    BY DEF CallProvider
<1>2. PICK r \in Refunds : r = handler[h].r
    BY <1>1, AtWork
<1>3. r \in Ids
    BY DEF Ids
<1>4. PICK ask : ask = IF handler[h].send = All THEN Remaining ELSE handler[h].send
    OBVIOUS
<1>5. \/ UNCHANGED remote
      \/ /\ remote[r].status = "none" /\ ask \in 1 .. Remaining
         /\ \E s \in {"approved", "in_process"} :
               remote' = [remote EXCEPT ![r] = [status |-> s, amount |-> ask]]
    BY <1>2, <1>4 DEF CallProvider
<1>6. CASE UNCHANGED remote
    BY <1>1, <1>6, SumsStay, SumTypes DEF Moves
<1>7. ASSUME remote[r].status = "none", ask \in 1 .. Remaining, NEW s \in {"approved", "in_process"},
             remote' = [remote EXCEPT ![r] = [status |-> s, amount |-> ask]]
      PROVE  Moves
    BY <1>1, <1>3, <1>7, AcceptEffect DEF LedgerInv, Moves
<1>. QED
    BY <1>5, <1>6, <1>7

LEMMA SyncRecords ==
    ASSUME LedgerInv, NEW amount \in Nat, NEW list \in SUBSET Ids, NEW reported \in BOOLEAN,
           syncPaymentState(amount, list, reported), UNCHANGED remote
    PROVE  Records
BY SyncEffect, RefundedStays DEF LedgerInv, Records

LEMMA QuietRecords ==
    ASSUME UNCHANGED <<pay, remote, ledger, synced>>
    PROVE  Records
BY SumsStay, SumTypes DEF Records, RefundedInFull

\* Every step is one or the other.
LEMMA ClerkMovesOrRecords ==
    ASSUME LedgerInv, NEW h \in Clerks, ClerkSteps(h)
    PROVE  Moves \/ Records
<1>1. CASE CallProvider(h)
    BY <1>1, CallMoves
<1>2. CASE MarkCompleted(h)
    <2>1. handler[h].pc = "complete" /\ UNCHANGED <<pay, remote, synced>>
        BY <1>2 DEF MarkCompleted
    <2>2. PICK r \in Refunds : r = handler[h].r
        BY <2>1, AtWork
    <2>3. ledger' = [ledger EXCEPT ![r] = CompletionDebit(r)]
        BY <1>2, <2>2 DEF MarkCompleted
    <2>. QED
        BY <2>1, <2>3, CompletionEffect DEF Records, RefundedInFull
<1>3. CASE SyncPartial(h)
    <2>1. PICK amount : amount = handler[h].total
        OBVIOUS
    <2>2. handler[h].pc = "partial" /\ syncPaymentState(amount, {}, TRUE) /\ UNCHANGED remote
        BY <1>3, <2>1 DEF SyncPartial
    <2>3. amount \in Nat
        BY <2>1, <2>2, AtWork, RowFields
    <2>. QED
        BY <2>2, <2>3, SyncRecords
<1>4. CASE \/ \E r \in Refunds : RequestRefund(h, r) \/ ReadRetry(h, r) \/ ReadRefresh(h, r)
           \/ Claim(h) \/ CountPrior(h) \/ MarkProcessing(h) \/ MarkFailed(h) \/ MarkUnknown(h)
           \/ ReadTotal(h) \/ WriteRetry(h) \/ ListRefunds(h)
    <2>1. UNCHANGED <<pay, remote, ledger, synced>>
        BY <1>4 DEF RequestRefund, ReadRetry, ReadRefresh, Claim, CountPrior, MarkProcessing,
                    MarkFailed, MarkUnknown, ReadTotal, WriteRetry, ListRefunds
    <2>. QED
        BY <2>1, QuietRecords
<1>. QED
    BY <1>1, <1>2, <1>3, <1>4 DEF ClerkSteps

LEMMA MovesOrRecords ==
    ASSUME LedgerInv, [Next]_vars
    PROVE  Moves \/ Records
<1>1. ASSUME NEW i \in Ids, NEW s \in {"approved", "rejected"}, Settle(i, s)
      PROVE  Moves
    BY <1>1, SettleEffect DEF Settle, LedgerInv, Moves
<1>2. ASSUME NEW i \in Panel, PanelRefund(i)
      PROVE  Moves
    <2>1. PICK amount \in 1 .. Remaining :
              remote' = [remote EXCEPT ![i] = [status |-> "approved", amount |-> amount]]
        BY <1>2 DEF PanelRefund
    <2>2. i \in Ids /\ remote[i].status = "none" /\ UNCHANGED <<pay, ledger, synced>>
        BY <1>2 DEF PanelRefund, Ids
    <2>. QED
        BY <2>1, <2>2, AcceptEffect DEF LedgerInv, Moves
<1>3. ASSUME NEW h \in Clerks, ClerkSteps(h)
      PROVE  Moves \/ Records
    BY <1>3, ClerkMovesOrRecords
<1>4. ASSUME NEW h \in Hooks, HookSteps(h)
      PROVE  Records
    <2>1. CASE Observe(h)
        BY <2>1, QuietRecords DEF Observe
    <2>2. CASE SyncObserved(h)
        <3>1. PICK seen, listed, amount :
                  seen = handler[h].seen /\ listed = handler[h].listed /\ amount = Tally(seen, Moved, Paid)
            OBVIOUS
        <3>2. handler[h] \in HandlerRows
            BY TypeParts DEF LedgerInv, Handlers
        <3>3. seen \in SUBSET Ids /\ listed \in BOOLEAN
            BY <3>1, <3>2, RowFields
        <3>4. amount \in Nat
            BY <3>1, <3>3, Finite, TallyType
        <3>5. syncPaymentState(amount, seen, listed) /\ UNCHANGED remote
            BY <2>2, <3>1 DEF SyncObserved
        <3>. QED
            BY <3>3, <3>4, <3>5, SyncRecords
    <2>. QED
        BY <1>4, <2>1, <2>2 DEF HookSteps
<1>5. ASSUME NEW h \in Handlers,
             ReadFinal(h) \/ FinalizeRefund(h) \/ SyncFinal(h) \/ SyncFails(h) \/ HandlerDies(h)
      PROVE  Records
    <2>1. CASE FinalizeRefund(h)
        <3>1. pay' = [pay EXCEPT !.status = "refunded"] /\ UNCHANGED <<remote, ledger, synced>>
            BY <2>1 DEF FinalizeRefund
        <3>2. pay'.status = "refunded"
            BY <3>1, TypeParts DEF LedgerInv, PayRows
        <3>. QED
            BY <3>1, <3>2, SumsStay, SumTypes DEF Records, RefundedInFull
    <2>2. CASE SyncFinal(h)
        BY <2>2, SyncRecords DEF SyncFinal
    <2>3. CASE ReadFinal(h) \/ SyncFails(h) \/ HandlerDies(h)
        BY <2>3, QuietRecords DEF ReadFinal, SyncFails, HandlerDies
    <2>. QED
        BY <1>5, <2>1, <2>2, <2>3
<1>6. CASE UNCHANGED vars
    BY <1>6, QuietRecords DEF vars
<1>. QED
    BY <1>1, <1>2, <1>3, <1>4, <1>5, <1>6 DEF Next

-----------------------------------------------------------------------------
(* Theorems.                                                                 *)

\* Rows, the provider's refunds and the ledger stay in their types, whatever the
\* requests and webhooks in progress: no debit is negative or above the payment.
THEOREM RefundsTypeCorrect == Spec => []TypeOK
<1>1. LedgerInv => TypeOK
    BY DEF LedgerInv
<1>. QED
    BY <1>1, LedgerInvariant, PTL

\* The debits never exceed what was paid, however many requests are executed at
\* the same moment and whatever the provider answers: markCompleted and the
\* recorder both look at the total before they write.
THEOREM NeverBeyondPaid == Spec => [](Debited <= Paid)
<1>1. LedgerInv => Debited <= Paid
    BY DEF LedgerInv, Capped
<1>. QED
    BY <1>1, LedgerInvariant, PTL

\* One request executed at a time, any number of webhooks: the ledger never says
\* that more money went back than the provider returned.
THEOREM LedgerReal ==
    ASSUME Alone
    PROVE  Spec => []LedgerOnlyRealMoney
<1>1. LedgerInv => LedgerOnlyRealMoney
    BY DebitedReal DEF LedgerInv, LedgerOnlyRealMoney
<1>. QED
    BY <1>1, LedgerInvariant, PTL

\* One request executed at a time, any number of webhooks: a payment is refunded
\* only once the provider has returned all of it.
THEOREM RefundedReal ==
    ASSUME Alone
    PROVE  Spec => []RefundedIsReal
<1>1. LedgerInv => RefundedIsReal
    BY DEF LedgerInv, Real, EndIsReal, RefundedIsReal, RefundedInFull
<1>. QED
    BY <1>1, LedgerInvariant, PTL

\* Whatever is executed at once and whatever is answered: no step takes a debit
\* back, none undoes what the provider returned, and a payment that is refunded
\* is never anything else again, late answers and older observations included.
THEOREM NothingTakenBack ==
    Spec => [][ /\ Debited <= Debited' /\ Returned <= Returned'
                /\ RefundedInFull => RefundedInFull' ]_vars
<1>1. ASSUME LedgerInv, [Next]_vars
      PROVE  Debited <= Debited' /\ Returned <= Returned' /\ (RefundedInFull => RefundedInFull')
    <2>1. CASE Moves
        BY <2>1, SumsStay, SumTypes DEF Moves, RefundedInFull
    <2>2. CASE Records
        BY <2>2, SumsStay, SumTypes DEF Records
    <2>. QED
        BY <1>1, <2>1, <2>2, MovesOrRecords
<1>. QED
    BY <1>1, LedgerInvariant, PTL DEF Spec

\* One request executed at a time, any number of webhooks, retries, deaths and
\* refunds made in the panel: the refunds implement MoneyBack.
THEOREM RefundsImplementMoneyBack ==
    ASSUME Alone
    PROVE  Spec => MB!Spec /\ ImplementsMoneyBack
<1>1. Init => MB!Init
    <2>. SUFFICES ASSUME Init
                  PROVE  MB!Init
        OBVIOUS
    <2>1. Debited = 0
        <3>1. Tally(Ids, ledger, Paid) = 0
            BY Finite, TallyZero DEF Init
        <3>2. Tally(1 .. Paid, synced, Paid) = 0
            BY Finite, TallyZero DEF Init
        <3>. QED
            BY <3>1, <3>2 DEF Debited
    <2>2. Returned = 0
        <3>1. RemoteIn({"approved"}) = {}
            BY DEF Init, RemoteIn
        <3>. QED
            BY <3>1, TallyEmpty DEF Returned
    <2>3. RefundedInFull = FALSE
        BY DEF Init, RefundedInFull
    <2>. QED
        BY <2>1, <2>2, <2>3 DEF MB!Init
<1>2. LedgerInv /\ Real => Debited <= Returned
    BY DebitedReal
<1>3. (LedgerInv /\ Real => Debited <= Returned)'
    BY <1>2, PTL
<1>4. ASSUME LedgerInv, LedgerInv', [Next]_vars
      PROVE  [MB!Next]_(MB!vars)
    <2>1. /\ Debited \in Nat /\ Debited' \in Nat /\ Returned \in Nat /\ Returned' \in Nat
          /\ Paid \in Nat
        BY SumTypes, SumTypesNext, Finite
    <2>2. Real'
        BY <1>4 DEF LedgerInv, Alone
    <2>3. Debited' <= Returned' /\ Returned' <= Paid
        <3>1. Debited' <= Returned'
            BY <1>4, <2>2, <1>3
        <3>2. Returned' <= Provided' /\ Provided' <= Paid
            BY <1>4, ReturnedWithinNext DEF LedgerInv, Capped
        <3>. QED
            BY <2>1, <3>1, <3>2, SumTypesNext
    <2>4. RefundedInFull' => Returned' = Paid
        BY <2>2 DEF Real, EndIsReal, RefundedInFull
    <2>5. CASE Moves
        <3>1. Debited' = Debited /\ RefundedInFull' = RefundedInFull /\ Returned <= Returned'
            BY <2>5, SumsStay DEF Moves, RefundedInFull
        <3>2. CASE Returned' = Returned
            BY <3>1, <3>2 DEF MB!vars
        <3>3. CASE Returned' # Returned
            <4>1. Returned' \in Returned + 1 .. Paid
                BY <2>1, <2>3, <3>1, <3>3
            <4>. QED
                BY <3>1, <4>1 DEF MB!Next, MB!Return
        <3>. QED
            BY <3>2, <3>3
    <2>6. CASE Records
        <3>1. Returned' = Returned /\ Debited <= Debited' /\ (RefundedInFull => RefundedInFull')
            BY <2>6, SumsStay DEF Records
        <3>2. Debited' \in Debited .. Returned
            BY <2>1, <2>3, <3>1
        <3>3. RefundedInFull' \in {RefundedInFull, Returned = Paid}
            <4>1. RefundedInFull \in BOOLEAN /\ RefundedInFull' \in BOOLEAN
                BY DEF RefundedInFull
            <4>2. RefundedInFull' => RefundedInFull \/ Returned = Paid
                BY <2>4, <3>1
            <4>. QED
                BY <3>1, <4>1, <4>2
        <3>. QED
            BY <3>1, <3>2, <3>3 DEF MB!Next, MB!Record
    <2>. QED
        BY <1>4, <2>5, <2>6, MovesOrRecords
<1>5. Spec => MB!Spec
    BY <1>1, <1>4, LedgerInvariant, PTL DEF Spec, MB!Spec
<1>6. Spec => ImplementsMoneyBack
    BY <1>1, <1>4, LedgerInvariant, PTL DEF Spec, ImplementsMoneyBack
<1>. QED
    BY <1>5, <1>6

=============================================================================
