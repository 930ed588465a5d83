-------------------------- MODULE StorefrontProofs --------------------------
(* Three parts of the storefront, each with its own inductive invariant: push *)
(* campaigns (CampaignInv), account deletion (DeletionInv) and the carts of a *)
(* customer (CartInv), for any number of phones, dispatches, orders, requests *)
(* and carts.                                                                 *)
EXTENDS PushCampaigns, AccountDeletion, Cart, TallyProofs

Unsent == \A p \in Phones : got[p] = 0
Unclaimed == \A d \in Dispatchers : ~HoldsClaim(d)

\* What was cancelled in time, or is not claimed yet, is in nobody's hands.
Quiet ==
    /\ withdrawn => campaign = "cancelled"
    /\ withdrawn \/ campaign \in {"none", "scheduled"} => Unclaimed /\ Unsent
    /\ cancelling => campaign # "none"

\* What a dispatch still has to send has not been sent.
PendingUnsent(d) ==
    /\ dispatch[d].step = "load" => Unsent
    /\ dispatch[d].step = "send" => \A p \in dispatch[d].rest : got[p] = 0
    /\ dispatch[d].step = "record" =>
          \A p \in dispatch[d].rest \ dispatch[d].batch : got[p] = 0

Single ==
    ~disturbed =>
        /\ \A d, e \in Dispatchers : HoldsClaim(d) /\ HoldsClaim(e) => d = e
        /\ \A d \in Dispatchers : PendingUnsent(d)
        /\ Unclaimed /\ campaign \notin FinalStatuses => Unsent
        /\ \A p \in Phones : got[p] <= 1

CampaignInv == CampaignTypeOK /\ Quiet /\ Single

-----------------------------------------------------------------------------
LEMMA RowFields ==
    ASSUME NEW r \in DispatchRows
    PROVE  r.rest \subseteq Phones /\ r.batch \subseteq Phones /\ r.to \in {"sent", "failed"}
BY DEF DispatchRows

\* The rows that the steps make.
LEMMA IdleRow == NoDispatch \in DispatchRows
BY DEF DispatchRows, NoDispatch

LEMMA StepRow ==
    ASSUME NEW r \in DispatchRows,
           NEW s \in {"count", "claim", "load", "send", "record", "finish"}
    PROVE  [r EXCEPT !.step = s] \in DispatchRows
BY DEF DispatchRows

LEMMA LoadedRow ==
    ASSUME NEW r \in DispatchRows, NEW a \in SUBSET Phones
    PROVE  /\ [r EXCEPT !.step = "finish", !.to = "sent"] \in DispatchRows
           /\ [r EXCEPT !.step = "send", !.rest = a] \in DispatchRows
           /\ [r EXCEPT !.step = "record", !.rest = a, !.batch = a] \in DispatchRows
BY DEF DispatchRows

LEMMA SentRow ==
    ASSUME NEW r \in DispatchRows, NEW b \in SUBSET Phones, NEW to \in {"sent", "failed"}
    PROVE  [r EXCEPT !.step = "record", !.batch = b, !.to = to] \in DispatchRows
BY DEF DispatchRows

LEMMA RecordedRow ==
    ASSUME NEW r \in DispatchRows, NEW a \in SUBSET Phones, NEW s \in {"send", "finish"}
    PROVE  [r EXCEPT !.rest = a, !.batch = {}, !.step = s] \in DispatchRows
BY DEF DispatchRows

LEMMA CampaignInitInv == CampaignInit => CampaignInv
<1>. SUFFICES ASSUME CampaignInit PROVE CampaignInv
    OBVIOUS
<1>. USE DEF CampaignInit
<1>1. CampaignTypeOK
    <2>1. dispatch \in [Dispatchers -> DispatchRows] /\ got \in [Phones -> 0..2]
        BY IdleRow
    <2>. QED
        BY <2>1 DEF CampaignTypeOK
<1>2. Unsent /\ Unclaimed
    BY DEF Unsent, Unclaimed, HoldsClaim, NoDispatch
<1>3. Quiet
    BY <1>2 DEF Quiet
<1>4. Single
    BY <1>2 DEF Single, PendingUnsent, Unsent, Unclaimed, HoldsClaim, NoDispatch
<1>. QED
    BY <1>1, <1>3, <1>4 DEF CampaignInv

\* Steps of the administrator.
LEMMA ScreenKeeps ==
    ASSUME CampaignInv, Schedule \/ ReadCancel \/ CancelById
    PROVE  CampaignInv'
<1>. USE DEF CampaignInv, CampaignTypeOK, Quiet, Single, Unsent, Unclaimed, PendingUnsent, HoldsClaim,
             FinalStatuses
<1>1. CASE Schedule
    BY <1>1 DEF Schedule
<1>2. CASE ReadCancel
    BY <1>2 DEF ReadCancel
<1>3. CASE CancelById
    BY <1>3 DEF CancelById
<1>. QED
    BY <1>1, <1>2, <1>3

\* Steps of a dispatch before its claim.
LEMMA UnclaimedKeeps ==
    ASSUME CampaignInv, NEW d \in Dispatchers,
           SendNow(d) \/ StartDispatch(d) \/ CountDispatched(d)
    PROVE  CampaignInv'
<1>. USE DEF CampaignInv, CampaignTypeOK
<1>1. BeginDispatch \in DispatchRows /\ BeginDispatch.step = "count"
    BY IdleRow, StepRow DEF BeginDispatch, NoDispatch
<1>2. ~HoldsClaim(d) \/ campaign = "none"
    BY DEF SendNow, StartDispatch, CountDispatched, NoDispatch, HoldsClaim
<1>3. ~HoldsClaim(d)
    BY <1>2 DEF Quiet, Unclaimed
<1>4. PICK r \in DispatchRows : /\ dispatch' = [dispatch EXCEPT ![d] = r]
                                /\ r.step \in {"idle", "count", "claim"}
    <2>1. CASE CountDispatched(d)
        <3>1. [dispatch[d] EXCEPT !.step = "claim"] \in DispatchRows
            BY StepRow
        <3>2. [dispatch[d] EXCEPT !.step = "claim"].step = "claim" /\ NoDispatch.step = "idle"
            BY DEF DispatchRows, NoDispatch
        <3>. QED
            BY <2>1, <3>1, <3>2, IdleRow DEF CountDispatched
    <2>. QED
        BY <2>1, <1>1 DEF SendNow, StartDispatch
<1>5. /\ dispatched' = dispatched /\ cancelling' = cancelling /\ got' = got
      /\ withdrawn' = withdrawn /\ disturbed' = disturbed
    BY DEF SendNow, StartDispatch, CountDispatched
<1>6. campaign' = campaign \/ (campaign = "none" /\ campaign' = "sending")
    BY DEF SendNow, StartDispatch, CountDispatched
<1>7. \A e \in Dispatchers : HoldsClaim(e)' <=> HoldsClaim(e)
    BY <1>3, <1>4 DEF HoldsClaim
<1>8. \A e \in Dispatchers : PendingUnsent(e) => PendingUnsent(e)'
    BY <1>4, <1>5 DEF PendingUnsent, Unsent
<1>9. CampaignTypeOK'
    BY <1>4, <1>5, <1>6
<1>10. Quiet'
    BY <1>5, <1>6, <1>7 DEF Quiet, Unsent, Unclaimed
<1>11. Single'
    BY <1>5, <1>6, <1>7, <1>8 DEF Single, Unsent, Unclaimed, FinalStatuses
<1>. QED
    BY <1>9, <1>10, <1>11

\* The claim: a second holder counts as a disturbance.
LEMMA ClaimKeeps ==
    ASSUME CampaignInv, NEW d \in Dispatchers, ClaimCampaign(d)
    PROVE  CampaignInv'
<1>. USE DEF CampaignInv, ClaimCampaign, Claimable
<1>1. CampaignTypeOK'
    <2>1. [dispatch[d] EXCEPT !.step = "load"] \in DispatchRows
        BY StepRow DEF CampaignTypeOK
    <2>. QED
        BY <2>1, IdleRow DEF CampaignTypeOK
<1>2. \A e \in Dispatchers \ {d} : dispatch'[e] = dispatch[e]
    BY DEF CampaignTypeOK
<1>3. dispatch'[d].step \in {"load", "idle"}
    BY DEF CampaignTypeOK, DispatchRows, NoDispatch
<1>4. CASE Claimable
    <2>1. Quiet'
        BY <1>4 DEF Quiet
    <2>2. Single'
        <3>1. SUFFICES ASSUME ~disturbed' PROVE Single'
            BY DEF Single
        <3>2. Unclaimed /\ Unsent /\ got' = got
            BY <3>1, <1>4 DEF Single, Unclaimed, FinalStatuses
        <3>3. \A e \in Dispatchers : HoldsClaim(e)' => e = d
            BY <3>2, <1>2 DEF Unclaimed, HoldsClaim
        <3>4. \A e \in Dispatchers : PendingUnsent(e)'
            BY <3>2, <3>3, <1>3 DEF PendingUnsent, HoldsClaim, Unsent
        <3>. QED
            BY <3>2, <3>3, <3>4 DEF Single, Unsent
    <2>. QED
        BY <1>1, <2>1, <2>2
<1>5. CASE ~Claimable
    <2>1. UNCHANGED <<campaign, cancelling, got, withdrawn, disturbed>>
        BY <1>5
    <2>2. \A e \in Dispatchers : HoldsClaim(e)' <=> HoldsClaim(e)
        BY <1>2, <1>5 DEF HoldsClaim, CampaignTypeOK, NoDispatch
    <2>3. \A e \in Dispatchers : PendingUnsent(e) => PendingUnsent(e)'
        BY <1>2, <1>5, <2>1 DEF PendingUnsent, CampaignTypeOK, NoDispatch, Unsent
    <2>. QED
        BY <1>1, <2>1, <2>2, <2>3 DEF Quiet, Single, Unsent, Unclaimed
<1>. QED
    BY <1>4, <1>5

\* A dispatch that holds the claim, whose step leaves the claims as they are and
\* keeps what it has to send unsent.
LEMMA HolderKeeps ==
    ASSUME CampaignInv, NEW d \in Dispatchers, CampaignTypeOK', HoldsClaim(d), HoldsClaim(d)',
           \A e \in Dispatchers \ {d} : dispatch'[e] = dispatch[e],
           UNCHANGED <<campaign, cancelling, withdrawn, disturbed>>,
           ~disturbed => PendingUnsent(d)' /\ \A p \in Phones : got'[p] <= 1
    PROVE  CampaignInv'
<1>1. ~withdrawn /\ campaign \notin {"none", "scheduled"}
    BY DEF CampaignInv, Quiet, Unclaimed
<1>2. Quiet'
    BY <1>1 DEF Quiet, CampaignInv
<1>3. \A e \in Dispatchers : HoldsClaim(e)' <=> HoldsClaim(e)
    BY DEF HoldsClaim
<1>4. ASSUME ~disturbed, NEW e \in Dispatchers PROVE PendingUnsent(e)'
    <2>1. CASE e = d
        BY <2>1, <1>4
    <2>2. CASE e # d
        BY <2>2, <1>4 DEF CampaignInv, Single, HoldsClaim, PendingUnsent
    <2>. QED
        BY <2>1, <2>2
<1>5. Single'
    BY <1>3, <1>4 DEF Single, CampaignInv, Unclaimed
<1>. QED
    BY <1>2, <1>5 DEF CampaignInv

LEMMA LoadKeeps ==
    ASSUME CampaignInv, NEW d \in Dispatchers, LoadDevices(d)
    PROVE  CampaignInv'
<1>1. PICK r \in DispatchRows : /\ dispatch' = [dispatch EXCEPT ![d] = r]
                                /\ r.step \in {"finish", "send", "record"}
    <2>1. dispatch[d] \in DispatchRows
        BY DEF CampaignInv, CampaignTypeOK
    <2>2. ASSUME dispatch' = [dispatch EXCEPT ![d].step = "finish", ![d].to = "sent"]
          PROVE  \E r \in DispatchRows : /\ dispatch' = [dispatch EXCEPT ![d] = r]
                                         /\ r.step \in {"finish", "send", "record"}
        <3>1. [dispatch[d] EXCEPT !.step = "finish", !.to = "sent"] \in DispatchRows
            BY <2>1, LoadedRow
        <3>2. [dispatch[d] EXCEPT !.step = "finish", !.to = "sent"].step \in {"finish", "send", "record"}
            BY <2>1 DEF DispatchRows
        <3>3. dispatch' = [dispatch EXCEPT ![d] = [dispatch[d] EXCEPT !.step = "finish", !.to = "sent"]]
            BY <2>2
        <3>. QED
            BY <3>1, <3>2, <3>3
    <2>3. ASSUME NEW a \in SUBSET Phones,
                 dispatch' = [dispatch EXCEPT ![d].step = "send", ![d].rest = a]
          PROVE  \E r \in DispatchRows : /\ dispatch' = [dispatch EXCEPT ![d] = r]
                                         /\ r.step \in {"finish", "send", "record"}
        <3>1. [dispatch[d] EXCEPT !.step = "send", !.rest = a] \in DispatchRows
            BY <2>1, LoadedRow
        <3>2. [dispatch[d] EXCEPT !.step = "send", !.rest = a].step \in {"finish", "send", "record"}
            BY <2>1 DEF DispatchRows
        <3>3. dispatch' = [dispatch EXCEPT ![d] = [dispatch[d] EXCEPT !.step = "send", !.rest = a]]
            BY <2>3
        <3>. QED
            BY <3>1, <3>2, <3>3
    <2>4. ASSUME NEW a \in SUBSET Phones,
                 dispatch' = [dispatch EXCEPT ![d].step = "record", ![d].rest = a, ![d].batch = a]
          PROVE  \E r \in DispatchRows : /\ dispatch' = [dispatch EXCEPT ![d] = r]
                                         /\ r.step \in {"finish", "send", "record"}
        <3>1. [dispatch[d] EXCEPT !.step = "record", !.rest = a, !.batch = a] \in DispatchRows
            BY <2>1, LoadedRow
        <3>2. [dispatch[d] EXCEPT !.step = "record", !.rest = a, !.batch = a].step \in {"finish", "send", "record"}
            BY <2>1 DEF DispatchRows
        <3>3. dispatch' = [dispatch EXCEPT ![d] = [dispatch[d] EXCEPT !.step = "record", !.rest = a, !.batch = a]]
            BY <2>4
        <3>. QED
            BY <3>1, <3>2, <3>3
    <2>. QED
        BY <2>2, <2>3, <2>4 DEF LoadDevices
<1>2. dispatch[d].step = "load" /\ UNCHANGED <<campaign, dispatched, cancelling, got, withdrawn, disturbed>>
    BY DEF LoadDevices
<1>3. CampaignTypeOK'
    BY <1>1, <1>2 DEF CampaignInv, CampaignTypeOK
<1>4. /\ \A e \in Dispatchers \ {d} : dispatch'[e] = dispatch[e]
      /\ dispatch'[d] = r
    BY <1>1 DEF CampaignInv, CampaignTypeOK
<1>5. HoldsClaim(d) /\ HoldsClaim(d)'
    BY <1>1, <1>2, <1>4 DEF HoldsClaim
<1>6. r.rest \subseteq Phones
    BY RowFields
<1>7. ~disturbed => PendingUnsent(d)' /\ \A p \in Phones : got'[p] <= 1
    BY <1>1, <1>2, <1>4, <1>6 DEF CampaignInv, Single, PendingUnsent, Unsent
<1>. QED
    BY <1>2, <1>3, <1>4, <1>5, <1>7, HolderKeeps

LEMMA SendKeeps ==
    ASSUME CampaignInv, NEW d \in Dispatchers, SendBatch(d)
    PROVE  CampaignInv'
<1>. USE DEF SendBatch
<1>1. PICK batch \in SUBSET dispatch[d].rest, delivered \in SUBSET Phones,
           to \in {"sent", "failed"} :
          /\ delivered \subseteq batch
          /\ got' = [p \in Phones |-> IF p \in delivered /\ got[p] < 2
                                        THEN got[p] + 1 ELSE got[p]]
          /\ dispatch' = [dispatch EXCEPT ![d].step = "record", ![d].batch = batch,
                                          ![d].to = to]
    <2>1. dispatch[d].to \in {"sent", "failed"}
        BY RowFields DEF CampaignInv, CampaignTypeOK
    <2>. QED
        BY <2>1
<1>2. dispatch[d].rest \subseteq Phones /\ got \in [Phones -> 0..2]
    BY RowFields DEF CampaignInv, CampaignTypeOK
<1>3. got' \in [Phones -> 0..2]
    BY <1>1, <1>2
<1>4. /\ \A e \in Dispatchers \ {d} : dispatch'[e] = dispatch[e]
      /\ dispatch'[d].step = "record" /\ dispatch'[d].rest = dispatch[d].rest
      /\ dispatch'[d].batch = batch
    BY <1>1 DEF CampaignInv, CampaignTypeOK, DispatchRows
<1>5. dispatch' \in [Dispatchers -> DispatchRows]
    <2>1. [dispatch[d] EXCEPT !.step = "record", !.batch = batch, !.to = to] \in DispatchRows
        BY <1>2, SentRow DEF CampaignInv, CampaignTypeOK
    <2>. QED
        BY <1>1, <2>1 DEF CampaignInv, CampaignTypeOK
<1>6. CampaignTypeOK'
    BY <1>3, <1>5 DEF CampaignInv, CampaignTypeOK
<1>7. HoldsClaim(d) /\ HoldsClaim(d)'
    BY <1>4 DEF HoldsClaim
<1>8. ASSUME ~disturbed PROVE PendingUnsent(d)' /\ \A p \in Phones : got'[p] <= 1
    <2>1. \A p \in dispatch[d].rest : got[p] = 0
        BY <1>8 DEF CampaignInv, Single, PendingUnsent
    <2>2. \A p \in Phones : got[p] <= 1
        BY <1>8 DEF CampaignInv, Single
    <2>3. \A p \in Phones : got'[p] <= 1
        BY <1>1, <1>2, <2>1, <2>2
    <2>4. \A p \in dispatch[d].rest \ batch : got'[p] = 0
        BY <1>1, <1>2, <2>1
    <2>. QED
        BY <1>4, <2>3, <2>4 DEF PendingUnsent
<1>. QED
    BY <1>4, <1>6, <1>7, <1>8, HolderKeeps

LEMMA RecordKeeps ==
    ASSUME CampaignInv, NEW d \in Dispatchers, RecordBatch(d)
    PROVE  CampaignInv'
<1>. USE DEF RecordBatch
<1>1. CampaignTypeOK'
    <2>1. dispatch[d].rest \subseteq Phones /\ dispatch[d].batch \subseteq Phones
        BY RowFields DEF CampaignInv, CampaignTypeOK
    <2>2. \A s \in {"send", "finish"} :
            [dispatch[d] EXCEPT !.rest = dispatch[d].rest \ dispatch[d].batch, !.batch = {},
                                !.step = s] \in DispatchRows
        BY <2>1, RecordedRow DEF CampaignInv, CampaignTypeOK
    <2>. QED
        BY <2>1, <2>2 DEF CampaignInv, CampaignTypeOK
<1>2. /\ \A e \in Dispatchers \ {d} : dispatch'[e] = dispatch[e]
      /\ dispatch'[d].step \in {"send", "finish"}
      /\ dispatch'[d].rest = dispatch[d].rest \ dispatch[d].batch
    BY DEF CampaignInv, CampaignTypeOK, DispatchRows
<1>3. HoldsClaim(d) /\ HoldsClaim(d)'
    BY <1>2 DEF HoldsClaim
<1>4. ~disturbed => PendingUnsent(d)' /\ \A p \in Phones : got'[p] <= 1
    BY <1>2 DEF CampaignInv, Single, PendingUnsent
<1>. QED
    BY <1>1, <1>2, <1>3, <1>4, HolderKeeps

\* A dispatch that lets go of its claim.
LEMMA ReleaseKeeps ==
    ASSUME CampaignInv, NEW d \in Dispatchers, FinishDispatch(d) \/ DispatchDies(d)
    PROVE  CampaignInv'
<1>1. CampaignTypeOK'
    <2>1. dispatch[d].to \in {"sent", "failed"}
        BY RowFields DEF CampaignInv, CampaignTypeOK
    <2>. QED
        BY <2>1, IdleRow DEF CampaignInv, CampaignTypeOK, FinishDispatch, DispatchDies,
                             FinalStatuses
<1>2. /\ dispatch' = [dispatch EXCEPT ![d] = NoDispatch]
      /\ UNCHANGED <<cancelling, got, withdrawn>>
    BY DEF FinishDispatch, DispatchDies
<1>3. /\ \A e \in Dispatchers \ {d} : dispatch'[e] = dispatch[e]
      /\ dispatch'[d].step = "idle"
    BY <1>2 DEF CampaignInv, CampaignTypeOK, NoDispatch
<1>4. \A e \in Dispatchers : HoldsClaim(e)' => HoldsClaim(e) /\ e # d
    BY <1>3 DEF HoldsClaim
<1>5. \A e \in Dispatchers : PendingUnsent(e) => PendingUnsent(e)'
    BY <1>2, <1>3 DEF PendingUnsent, Unsent
<1>6. CASE FinishDispatch(d)
    <2>1. HoldsClaim(d) /\ campaign' \in FinalStatuses /\ disturbed' = disturbed
        BY <1>6, RowFields DEF FinishDispatch, HoldsClaim, CampaignInv, CampaignTypeOK,
                               FinalStatuses
    <2>2. ~withdrawn /\ campaign # "none"
        BY <2>1 DEF CampaignInv, Quiet, Unclaimed
    <2>3. Quiet'
        BY <1>2, <2>1, <2>2 DEF Quiet, FinalStatuses
    <2>4. Single'
        BY <1>2, <1>4, <1>5, <2>1 DEF CampaignInv, Single
    <2>. QED
        BY <1>1, <2>3, <2>4 DEF CampaignInv
<1>7. CASE DispatchDies(d)
    <2>1. /\ campaign' = campaign
          /\ ~disturbed' => ~disturbed /\ (HoldsClaim(d) => \A p \in Phones : ~(got[p] > 0))
        BY <1>7 DEF DispatchDies
    <2>2. Quiet'
        BY <1>2, <1>4, <2>1 DEF CampaignInv, Quiet, Unsent, Unclaimed
    <2>3. ~disturbed' => (HoldsClaim(d) => Unsent)
        BY <2>1 DEF CampaignInv, CampaignTypeOK, Unsent
    <2>4. Unclaimed' /\ ~HoldsClaim(d) => Unclaimed
        BY <1>3 DEF Unclaimed, HoldsClaim
    <2>5. Single'
        BY <1>2, <1>4, <1>5, <2>1, <2>3, <2>4 DEF CampaignInv, Single, Unsent
    <2>. QED
        BY <1>1, <2>2, <2>5 DEF CampaignInv
<1>. QED
    BY <1>6, <1>7

LEMMA CampaignNextKeeps == CampaignInv /\ [CampaignNext]_campaignVars => CampaignInv'
<1>. SUFFICES ASSUME CampaignInv, [CampaignNext]_campaignVars PROVE CampaignInv'
    OBVIOUS
<1>1. CASE UNCHANGED campaignVars
    BY <1>1 DEF campaignVars, CampaignInv, CampaignTypeOK, Quiet, Single, Unsent, Unclaimed, PendingUnsent,
                HoldsClaim
<1>2. CASE CampaignNext
    BY <1>2, ScreenKeeps, UnclaimedKeeps, ClaimKeeps, LoadKeeps, SendKeeps, RecordKeeps,
       ReleaseKeeps DEF CampaignNext
<1>. QED
    BY <1>1, <1>2

LEMMA CampaignInvariant == CampaignSpec => []CampaignInv
<1>. QED
    BY CampaignInitInv, CampaignNextKeeps, PTL DEF CampaignSpec

\* The campaign has one of its statuses, and its dispatches carry phones (create,
\* cancel, dispatch), whoever writes the status by id and however late.
THEOREM CampaignTypeCorrect == CampaignSpec => []CampaignTypeOK
<1>1. CampaignInv => CampaignTypeOK
    BY DEF CampaignInv
<1>. QED
    BY <1>1, CampaignInvariant, PTL

\* A campaign cancelled before a dispatch claimed it (PushCampaignsService.cancel)
\* reaches nobody, for any number of dispatches under way.
THEOREM WithdrawnIsQuiet == CampaignSpec => []CancelledIsQuiet
<1>1. CampaignInv => CancelledIsQuiet
    BY DEF CampaignInv, Quiet, Unsent, CancelledIsQuiet
<1>. QED
    BY <1>1, CampaignInvariant, PTL

\* Dispatches (PushCampaignsService.dispatch) that do not hold the claim at once,
\* and do not die having sent, show the campaign to a phone at most once.
THEOREM SentOnce == CampaignSpec => []OncePerPhone
<1>1. CampaignInv => OncePerPhone
    BY DEF CampaignInv, Single, OncePerPhone
<1>. QED
    BY <1>1, CampaignInvariant, PTL
-----------------------------------------------------------------------------
(***************************************************************************)
(* Account deletion, for any number of requests, cancellations, erasures   *)
(* and orders.                                                             *)
(*                                                                         *)
(* What makes it true: a check keeps the orders it found over, and no      *)
(* status leads out of those; and a customer's handler that ran alone      *)
(* stamps its event after every other, so that its word is the last one.   *)
(***************************************************************************)

OverStatuses == {"delivered", "cancelled", "refunded"}

DeletionRows == [step : {"new", "stamp", "write", "state", "done"}, at : Nat, alone : BOOLEAN,
                 open : SUBSET CustomerOrders, orders : SUBSET CustomerOrders]

\* What a check found and did not find open is over.
CheckedOver ==
    /\ \A o \in CustomerOrders : orderAt[o] # "draft"
    /\ \A p \in Erasures :
          /\ \A o \in handler[p].orders \ handler[p].open : orderAt[o] \in OverStatuses
          /\ handler[p].step \in {"stamp", "write"} => handler[p].open = {}
    /\ \A o \in known : orderAt[o] \in OverStatuses

AfterAll(at) == \A e \in events : e.at < at

\* Until the erasure, the handler that ran alone has the last word.
LastWord ==
    /\ \A h \in InProgress : handler[h].alone => InProgress = {h}
    /\ events # {} => \E e \in events : \A f \in events : f.at <= e.at
    /\ ~erased =>
          /\ \A h \in Asks \cup Cancels :
                handler[h].step = "write" /\ handler[h].alone => AfterAll(handler[h].at)
          /\ wish = "keep" => "requested" \notin States

DeletionInv == DeletionTypeOK /\ CheckedOver /\ LastWord

LEMMA NothingAfter ==
    ASSUME NEW from \in OrderStatuses, NEW to \in OrderStatuses, canTransition(from, to)
    PROVE  from \notin OverStatuses /\ to # "draft"
<1>1. ASSUME from \in OverStatuses
      PROVE  FALSE
    <2>1. ORDER_TRANSITIONS[from] = {}
        BY <1>1 DEF ORDER_TRANSITIONS, OrderStatuses, OverStatuses
    <2>. QED
        BY <2>1 DEF canTransition
<1>2. "draft" \notin ORDER_TRANSITIONS[from]
    BY DEF ORDER_TRANSITIONS, OrderStatuses
<1>. QED
    BY <1>1, <1>2 DEF canTransition

LEMMA NotOpenIsOver ==
    ASSUME NEW s \in OrderStatuses, s \notin OPEN_ORDER_STATUSES, s # "draft"
    PROVE  s \in OverStatuses
BY DEF OrderStatuses, OPEN_ORDER_STATUSES, OverStatuses

\* The stamps are natural numbers, of which the greatest is LastStamp.
LEMMA LastStampIs ==
    ASSUME DeletionTypeOK, LastWord, events # {}
    PROVE  /\ LastStamp \in Nat
           /\ \A e \in events : e.at <= LastStamp
           /\ \E e \in events : e.at = LastStamp
<1>1. \A e \in events : e.at \in Nat
    BY DEF DeletionTypeOK
<1>2. \E t \in {e.at : e \in events} : \A e \in events : e.at <= t
    BY DEF LastWord
<1>3. /\ LastStamp \in {e.at : e \in events}
      /\ \A e \in events : e.at <= LastStamp
    BY <1>2 DEF LastStamp
<1>. QED
    BY <1>1, <1>3

LEMMA NextStampIsNew ==
    ASSUME DeletionTypeOK, LastWord
    PROVE  NextStamp \in Nat /\ AfterAll(NextStamp)
<1>1. now \in Nat
    BY DeletionAssumption DEF DeletionTypeOK
<1>2. CASE events = {}
    BY <1>1, <1>2 DEF NextStamp, AfterAll
<1>3. CASE events # {}
    <2>1. \A e \in events : e.at \in Nat
        BY DEF DeletionTypeOK
    <2>2. LastStamp \in Nat /\ \A e \in events : e.at <= LastStamp
        BY <1>3, LastStampIs
    <2>. QED
        BY <1>1, <1>3, <2>1, <2>2 DEF NextStamp, AfterAll
<1>. QED
    BY <1>2, <1>3

LEMMA DeletionTypes ==
    DeletionTypeOK <=> /\ now \in 0..MaxNow
                       /\ events \subseteq [by : Handlers, action : EventActions, at : Nat]
                       /\ erased \in BOOLEAN
                       /\ orderAt \in [CustomerOrders -> OrderStatuses \cup {"none"}]
                       /\ handler \in [Handlers -> DeletionRows]
                       /\ wish \in {"keep", "erase", "unclear"}
                       /\ known \subseteq CustomerOrders
BY DEF DeletionTypeOK, DeletionRows

LEMMA DeletionInitInv == DeletionInit => DeletionInv
<1>. SUFFICES ASSUME DeletionInit
              PROVE  DeletionInv
    OBVIOUS
<1>1. DeletionTypeOK
    <2>1. now \in 0..MaxNow
        BY DeletionAssumption DEF DeletionInit
    <2>2. orderAt \in [CustomerOrders -> OrderStatuses \cup {"none"}]
        BY DEF DeletionInit
    <2>3. handler \in [Handlers -> DeletionRows]
        BY DEF DeletionInit, DeletionRows
    <2>4. events = {} /\ erased \in BOOLEAN /\ wish = "keep" /\ known = {}
        BY DEF DeletionInit
    <2>. QED
        BY <2>1, <2>2, <2>3, <2>4, DeletionTypes
<1>2. \A h \in Handlers : handler[h].step = "new" /\ handler[h].orders = {}
    BY DEF DeletionInit
<1>3. CheckedOver
    BY <1>2 DEF DeletionInit, CheckedOver, Handlers
<1>4. LastWord
    <2>1. InProgress = {} /\ events = {}
        BY <1>2 DEF DeletionInit, InProgress, Handlers
    <2>2. States = {"cancelled"}
        BY <2>1 DEF States
    <2>. QED
        BY <1>2, <2>1, <2>2 DEF LastWord, AfterAll
<1>. QED
    BY <1>1, <1>3, <1>4 DEF DeletionInv

\* One handler writes its row.
RowWrites(h, new) ==
    /\ handler' \in [Handlers -> DeletionRows]
    /\ handler'[h] = new
    /\ \A g \in Handlers \ {h} : handler'[g] = handler[g]

LEMMA RowPut ==
    ASSUME DeletionTypeOK, NEW h \in Handlers, NEW new \in DeletionRows,
           handler' = [handler EXCEPT ![h] = new]
    PROVE  RowWrites(h, new)
BY DeletionTypes DEF RowWrites

LEMMA MovePut ==
    ASSUME DeletionTypeOK, NEW h \in Handlers, NEW step \in {"new", "stamp", "write", "state", "done"},
           MoveTo(h, step)
    PROVE  \E new \in DeletionRows :
              /\ RowWrites(h, new) /\ new.step = step
              /\ new.at = handler[h].at /\ new.alone = handler[h].alone
              /\ new.open = handler[h].open /\ new.orders = handler[h].orders
<1>1. PICK old \in DeletionRows : old = handler[h]
    BY DeletionTypes
<1>2. PICK new : new = [old EXCEPT !.step = step]
    OBVIOUS
<1>3. /\ new \in DeletionRows /\ new.step = step /\ new.at = old.at /\ new.alone = old.alone
      /\ new.open = old.open /\ new.orders = old.orders
    BY <1>2 DEF DeletionRows
<1>4. handler' = [handler EXCEPT ![h] = new]
    BY <1>1, <1>2 DEF MoveTo
<1>. QED
    BY <1>1, <1>3, <1>4, RowPut

\* The handlers in progress stay, or one of them leaves.
LEMMA ProgressShrinks ==
    ASSUME LastWord, NEW h \in Handlers, NEW new, RowWrites(h, new),
           h \in Asks \cup Cancels => h \in InProgress \/ new.step \notin {"stamp", "write"},
           new.alone = handler[h].alone
    PROVE  \A g \in InProgress' : g \in InProgress /\ (handler'[g].alone => InProgress' = {g})
<1>1. \A g \in InProgress' : g \in InProgress /\ handler'[g].alone = handler[g].alone
    BY DEF InProgress, RowWrites, Handlers
<1>2. \A g \in InProgress' : handler[g].alone => InProgress = {g}
    BY <1>1 DEF LastWord
<1>. QED
    BY <1>1, <1>2

\* Ask and cancel, once their guards hold.
LEMMA StartKeeps ==
    ASSUME DeletionInv, NEW h \in Asks \cup Cancels, handler[h].step = "new", StartHandler(h),
           UNCHANGED <<now, events, erased, orderAt, wish, known>>
    PROVE  DeletionInv'
<1>1. DeletionTypeOK /\ CheckedOver /\ LastWord
    BY DEF DeletionInv
<1>2. ASSUME NEW g \in Handlers
      PROVE  /\ handler'[g] \in DeletionRows
             /\ handler'[g].at = handler[g].at
             /\ handler'[g].open = handler[g].open /\ handler'[g].orders = handler[g].orders
             /\ g = h => handler'[g].step = "stamp" /\ (handler'[g].alone => InProgress = {})
             /\ g # h => /\ handler'[g].step = handler[g].step
                         /\ handler'[g].alone => handler[g].alone /\ g \notin InProgress
    <2>1. PICK old \in DeletionRows : old = handler[g]
        BY <1>1, DeletionTypes
    <2>2. PICK b \in BOOLEAN : b <=> InProgress = {}
        <3>1. (InProgress = {}) \in BOOLEAN
            OBVIOUS
        <3>. QED
            BY <3>1
    <2>3. CASE g = h
        <3>1. handler'[g] = [old EXCEPT !.step = "stamp", !.alone = b]
            BY <2>1, <2>2, <2>3 DEF StartHandler
        <3>. QED
            BY <2>1, <2>2, <2>3, <3>1 DEF DeletionRows
    <2>4. CASE g # h /\ g \in InProgress
        <3>1. handler'[g] = [old EXCEPT !.alone = FALSE]
            BY <2>1, <2>4 DEF StartHandler
        <3>. QED
            BY <2>1, <2>4, <3>1 DEF DeletionRows
    <2>5. CASE g # h /\ g \notin InProgress
        <3>1. handler'[g] = old
            BY <2>1, <2>5 DEF StartHandler
        <3>. QED
            BY <2>1, <2>5, <3>1
    <2>. QED
        BY <2>3, <2>4, <2>5
<1>3. handler' \in [Handlers -> DeletionRows]
    BY <1>2 DEF StartHandler
<1>4. DeletionTypeOK'
    <2>1. DeletionTypeOK' <=> /\ now' \in 0..MaxNow
                              /\ events' \subseteq [by : Handlers, action : EventActions, at : Nat]
                              /\ erased' \in BOOLEAN
                              /\ orderAt' \in [CustomerOrders -> OrderStatuses \cup {"none"}]
                              /\ handler' \in [Handlers -> DeletionRows]
                              /\ wish' \in {"keep", "erase", "unclear"}
                              /\ known' \subseteq CustomerOrders
        BY DEF DeletionTypeOK, DeletionRows
    <2>. QED
        BY <1>1, <1>3, <2>1, DeletionTypes
<1>5. \A p \in Erasures : p \in Handlers /\ p # h
    BY DeletionAssumption DEF Handlers
<1>6. CheckedOver'
    BY <1>1, <1>2, <1>5 DEF CheckedOver
<1>7. \A g \in InProgress' : handler'[g].alone => InProgress' = {g}
    <2>1. SUFFICES ASSUME NEW g \in InProgress', handler'[g].alone
          PROVE  InProgress' = {g}
        OBVIOUS
    <2>2. g \in Asks \cup Cancels /\ g \in Handlers /\ handler'[g].step \in {"stamp", "write"}
        BY <2>1 DEF InProgress, Handlers
    <2>3. g = h
        BY <1>2, <2>1, <2>2 DEF InProgress
    <2>4. InProgress = {}
        BY <1>2, <2>1, <2>2, <2>3
    <2>5. \A f \in Asks \cup Cancels : f \in Handlers /\ f \notin InProgress
        BY <2>4 DEF Handlers
    <2>6. \A f \in InProgress' : f = h
        BY <1>2, <2>5 DEF InProgress
    <2>. QED
        BY <2>1, <2>3, <2>6
<1>8. LastWord'
    <2>1. \A g \in Asks \cup Cancels :
              handler'[g].step = "write" /\ handler'[g].alone
                 => handler[g].step = "write" /\ handler[g].alone /\ handler'[g].at = handler[g].at
        BY <1>2 DEF Handlers
    <2>2. UNCHANGED States
        BY DEF States, LastStamp
    <2>. QED
        BY <1>1, <1>7, <2>1, <2>2 DEF LastWord, AfterAll
<1>. QED
    BY <1>4, <1>6, <1>8 DEF DeletionInv

LEMMA DeletionTypesNext ==
    DeletionTypeOK' <=> /\ now' \in 0..MaxNow
                        /\ events' \subseteq [by : Handlers, action : EventActions, at : Nat]
                        /\ erased' \in BOOLEAN
                        /\ orderAt' \in [CustomerOrders -> OrderStatuses \cup {"none"}]
                        /\ handler' \in [Handlers -> DeletionRows]
                        /\ wish' \in {"keep", "erase", "unclear"}
                        /\ known' \subseteq CustomerOrders
BY DEF DeletionTypeOK, DeletionRows

\* A handler that writes no event: its row, with a fresh stamp if it is to write.
LEMMA OwnRowKeeps ==
    ASSUME DeletionInv, NEW h \in Handlers, NEW new \in DeletionRows, RowWrites(h, new),
           UNCHANGED <<now, events, erased, orderAt, wish, known>>,
           new.alone = handler[h].alone,
           h \in Asks \cup Cancels => h \in InProgress \/ new.step \notin {"stamp", "write"},
           new.step = "write" => AfterAll(new.at),
           h \in Erasures =>
               /\ \A o \in new.orders \ new.open : orderAt[o] \in OverStatuses
               /\ new.step \in {"stamp", "write"} => new.open = {}
    PROVE  DeletionInv'
<1>1. DeletionTypeOK /\ CheckedOver /\ LastWord
    BY DEF DeletionInv
<1>2. DeletionTypeOK'
    BY <1>1, DeletionTypes, DeletionTypesNext DEF RowWrites
<1>3. CheckedOver'
    <2>1. \A p \in Erasures : p \in Handlers
        BY DEF Handlers
    <2>2. handler'[h] = new /\ \A g \in Handlers \ {h} : handler'[g] = handler[g]
        BY DEF RowWrites
    <2>. QED
        BY <1>1, <2>1, <2>2 DEF CheckedOver
<1>4. \A g \in InProgress' : g \in InProgress /\ (handler'[g].alone => InProgress' = {g})
    BY <1>1, ProgressShrinks
<1>5. LastWord'
    <2>1. ASSUME ~erased, NEW g \in Asks \cup Cancels, handler'[g].step = "write", handler'[g].alone
          PROVE  AfterAll(handler'[g].at)
        <3>1. CASE g = h
            BY <2>1, <3>1 DEF RowWrites
        <3>2. CASE g # h
            <4>1. handler'[g] = handler[g]
                BY <3>2 DEF RowWrites, Handlers
            <4>. QED
                BY <1>1, <2>1, <4>1 DEF LastWord
        <3>. QED
            BY <3>1, <3>2
    <2>2. UNCHANGED States
        BY DEF States, LastStamp
    <2>. QED
        BY <1>1, <1>4, <2>1, <2>2 DEF LastWord, AfterAll
<1>. QED
    BY <1>2, <1>3, <1>5 DEF DeletionInv

LEMMA StampKeeps ==
    ASSUME DeletionInv, NEW h \in Handlers, Stamp(h)
    PROVE  DeletionInv'
<1>1. /\ handler[h].step = "stamp"
      /\ handler' = [handler EXCEPT ![h].step = "write", ![h].at = NextStamp]
      /\ UNCHANGED <<now, events, erased, orderAt, wish, known>>
    BY DEF Stamp
<1>2. DeletionTypeOK /\ CheckedOver /\ LastWord
    BY DEF DeletionInv
<1>3. PICK at \in Nat : at = NextStamp /\ AfterAll(at)
    BY <1>2, NextStampIsNew
<1>4. PICK old \in DeletionRows : old = handler[h]
    BY <1>2, DeletionTypes
<1>5. PICK new : new = [old EXCEPT !.step = "write", !.at = at]
    OBVIOUS
<1>6. /\ new \in DeletionRows /\ new.step = "write" /\ new.at = at /\ new.alone = old.alone
      /\ new.open = old.open /\ new.orders = old.orders
    BY <1>3, <1>5 DEF DeletionRows
<1>7. RowWrites(h, new)
    <2>1. handler' = [handler EXCEPT ![h] = new]
        BY <1>1, <1>3, <1>4, <1>5
    <2>. QED
        BY <1>2, <1>6, <2>1, RowPut
<1>8. h \in Asks \cup Cancels => h \in InProgress
    BY <1>1 DEF InProgress
<1>9. h \in Erasures => /\ \A o \in new.orders \ new.open : orderAt[o] \in OverStatuses
                        /\ new.open = {}
    BY <1>1, <1>2, <1>4, <1>6 DEF CheckedOver
<1>. QED
    BY <1>1, <1>3, <1>4, <1>6, <1>7, <1>8, <1>9, OwnRowKeeps

LEMMA DeletionDiesKeeps ==
    ASSUME DeletionInv, NEW h \in Handlers, DeletionDies(h)
    PROVE  DeletionInv'
<1>1. MoveTo(h, "done") /\ UNCHANGED <<now, events, erased, orderAt, wish, known>>
    BY DEF DeletionDies
<1>2. PICK new \in DeletionRows :
          /\ RowWrites(h, new) /\ new.step = "done"
          /\ new.at = handler[h].at /\ new.alone = handler[h].alone
          /\ new.open = handler[h].open /\ new.orders = handler[h].orders
    BY <1>1, MovePut DEF DeletionInv
<1>3. h \in Erasures => \A o \in new.orders \ new.open : orderAt[o] \in OverStatuses
    BY <1>2 DEF DeletionInv, CheckedOver
<1>. QED
    BY <1>1, <1>2, <1>3, OwnRowKeeps

LEMMA CheckOrdersKeeps ==
    ASSUME DeletionInv, NEW p \in Erasures, CheckOrders(p)
    PROVE  DeletionInv'
<1>1. /\ handler' = [handler EXCEPT ![p].step = "state", ![p].open = OpenOrders,
                                    ![p].orders = {o \in CustomerOrders : orderAt[o] # "none"}]
      /\ UNCHANGED <<now, events, erased, orderAt, wish, known>>
    BY DEF CheckOrders
<1>2. DeletionTypeOK /\ CheckedOver /\ p \in Handlers /\ p \notin Asks \cup Cancels
    BY DeletionAssumption DEF DeletionInv, Handlers
<1>3. PICK old \in DeletionRows : old = handler[p]
    BY <1>2, DeletionTypes
<1>4. PICK placed \in SUBSET CustomerOrders : placed = {o \in CustomerOrders : orderAt[o] # "none"}
    OBVIOUS
<1>5. PICK open \in SUBSET CustomerOrders : open = OpenOrders
    BY DEF OpenOrders
<1>6. PICK new : new = [old EXCEPT !.step = "state", !.open = open, !.orders = placed]
    OBVIOUS
<1>7. /\ new \in DeletionRows /\ new.step = "state" /\ new.alone = old.alone
      /\ new.open = open /\ new.orders = placed
    BY <1>6 DEF DeletionRows
<1>8. RowWrites(p, new)
    <2>1. handler' = [handler EXCEPT ![p] = new]
        BY <1>1, <1>3, <1>4, <1>5, <1>6
    <2>. QED
        BY <1>2, <1>7, <2>1, RowPut
<1>9. \A o \in placed \ open : orderAt[o] \in OverStatuses
    <2>1. SUFFICES ASSUME NEW o \in placed \ open
          PROVE  orderAt[o] \in OverStatuses
        OBVIOUS
    <2>2. orderAt[o] \in OrderStatuses /\ orderAt[o] # "draft" /\ orderAt[o] \notin OPEN_ORDER_STATUSES
        BY <1>2, <1>4, <1>5, DeletionTypes DEF CheckedOver, OpenOrders
    <2>. QED
        BY <2>2, NotOpenIsOver
<1>. QED
    BY <1>1, <1>2, <1>3, <1>7, <1>8, <1>9, OwnRowKeeps

LEMMA CheckStateKeeps ==
    ASSUME DeletionInv, NEW p \in Erasures, CheckState(p)
    PROVE  DeletionInv'
<1>1. UNCHANGED <<now, events, erased, orderAt, wish, known>>
    BY DEF CheckState
<1>2. DeletionTypeOK /\ CheckedOver /\ p \in Handlers /\ p \notin Asks \cup Cancels
    BY DeletionAssumption DEF DeletionInv, Handlers
<1>3. PICK step \in {"stamp", "done"} : MoveTo(p, step) /\ (step = "stamp" => handler[p].open = {})
    BY DEF CheckState
<1>4. PICK new \in DeletionRows :
          /\ RowWrites(p, new) /\ new.step = step
          /\ new.at = handler[p].at /\ new.alone = handler[p].alone
          /\ new.open = handler[p].open /\ new.orders = handler[p].orders
    BY <1>2, <1>3, MovePut
<1>5. /\ \A o \in new.orders \ new.open : orderAt[o] \in OverStatuses
      /\ new.step \in {"stamp", "write"} => new.open = {}
    BY <1>2, <1>3, <1>4 DEF CheckedOver
<1>. QED
    BY <1>1, <1>2, <1>3, <1>4, <1>5, OwnRowKeeps

LEMMA EventRow ==
    ASSUME DeletionInv, NEW h \in Handlers, NEW action \in EventActions, WriteEvent(h, action)
    PROVE  \E e \in [by : Handlers, action : EventActions, at : Nat] :
              /\ e.at = handler[h].at /\ e.action = action /\ events' = events \cup {e}
<1>1. PICK old \in DeletionRows : old = handler[h]
    BY DeletionTypes DEF DeletionInv
<1>2. PICK e : e = [by |-> h, action |-> action, at |-> old.at]
    OBVIOUS
<1>3. e \in [by : Handlers, action : EventActions, at : Nat] /\ e.at = old.at /\ e.action = action
    BY <1>2 DEF DeletionRows
<1>4. events' = events \cup {e}
    BY <1>1, <1>2 DEF WriteEvent
<1>. QED
    BY <1>1, <1>3, <1>4

\* An event more: one of the two, it or the greatest so far, is the greatest.
LEMMA GreatestStays ==
    ASSUME DeletionInv, NEW e \in [by : Handlers, action : EventActions, at : Nat],
           events' = events \cup {e}
    PROVE  \E g \in events' : \A f \in events' : f.at <= g.at
<1>1. e.at \in Nat /\ \A f \in events : f.at \in Nat
    BY DEF DeletionInv, DeletionTypeOK
<1>2. CASE events = {}
    BY <1>1, <1>2
<1>3. CASE events # {}
    <2>1. PICK g \in events : \A f \in events : f.at <= g.at
        BY <1>3 DEF DeletionInv, LastWord
    <2>2. CASE e.at <= g.at
        BY <2>1, <2>2
    <2>3. CASE e.at > g.at
        <3>1. \A f \in events : f.at <= e.at
            BY <1>1, <2>1, <2>3
        <3>. QED
            BY <1>1, <3>1
    <2>. QED
        BY <1>1, <2>1, <2>2, <2>3
<1>. QED
    BY <1>2, <1>3

\* An event after all others is the only latest one.
LEMMA LatestAlone ==
    ASSUME DeletionInv, NEW e \in [by : Handlers, action : EventActions, at : Nat],
           events' = events \cup {e}, AfterAll(e.at)
    PROVE  States' = {e.action}
<1>1. e.at \in Nat /\ \A f \in events : f.at \in Nat
    BY DEF DeletionInv, DeletionTypeOK
<1>2. \A f \in events' : f.at <= e.at /\ (f # e => f.at < e.at)
    BY <1>1 DEF AfterAll
<1>3. e \in events' /\ e.at \in {f.at : f \in events'}
    OBVIOUS
<1>4. \A t \in {f.at : f \in events'} : (\A f \in events' : f.at <= t) => t = e.at
    BY <1>1, <1>2
<1>5. LastStamp' = CHOOSE t \in {f.at : f \in events'} : \A f \in events' : f.at <= t
    BY DEF LastStamp
<1>6. /\ LastStamp' \in {f.at : f \in events'}
      /\ \A f \in events' : f.at <= LastStamp'
    BY <1>2, <1>3, <1>5
<1>7. LastStamp' = e.at
    BY <1>4, <1>6
<1>8. {x \in events' : x.at = LastStamp'} = {e}
    BY <1>1, <1>2, <1>7
<1>9. States' = {f.action : f \in {x \in events' : x.at = LastStamp'}}
    BY <1>3 DEF States
<1>. QED
    BY <1>8, <1>9

\* request and cancel, second half.
LEMMA CustomerWriteKeeps ==
    ASSUME DeletionInv, NEW h \in Asks \cup Cancels,
           WriteRequest(h) \/ WriteCancel(h)
    PROVE  DeletionInv'
<1>1. /\ handler[h].step = "write" /\ MoveTo(h, "done")
      /\ UNCHANGED <<now, erased, orderAt, known>>
    BY DEF WriteRequest, WriteCancel
<1>2. PICK action \in EventActions :
          /\ WriteEvent(h, action)
          /\ wish' = "keep" => action = "cancelled" /\ handler[h].alone
          /\ wish' \in {"keep", "erase", "unclear"}
    BY DEF WriteRequest, WriteCancel, EventActions
<1>3. DeletionTypeOK /\ CheckedOver /\ LastWord /\ h \in Handlers /\ h \notin Erasures
    BY DeletionAssumption DEF DeletionInv, Handlers
<1>4. PICK e \in [by : Handlers, action : EventActions, at : Nat] :
          e.at = handler[h].at /\ e.action = action /\ events' = events \cup {e}
    BY <1>2, <1>3, EventRow
<1>5. PICK new \in DeletionRows :
          /\ RowWrites(h, new) /\ new.step = "done"
          /\ new.at = handler[h].at /\ new.alone = handler[h].alone
          /\ new.open = handler[h].open /\ new.orders = handler[h].orders
    BY <1>1, <1>3, MovePut
<1>6. DeletionTypeOK'
    BY <1>1, <1>2, <1>3, <1>4, <1>5, DeletionTypes, DeletionTypesNext DEF RowWrites
<1>7. CheckedOver'
    <2>1. \A p \in Erasures : handler'[p] = handler[p]
        BY <1>3, <1>5 DEF RowWrites, Handlers
    <2>. QED
        BY <1>1, <1>3, <2>1 DEF CheckedOver
<1>8. \A g \in InProgress' : g \in InProgress /\ (handler'[g].alone => InProgress' = {g})
    BY <1>3, <1>5, ProgressShrinks
<1>9. \E g \in events' : \A f \in events' : f.at <= g.at
    BY <1>4, GreatestStays
<1>10. ASSUME ~erased, NEW g \in Asks \cup Cancels, handler'[g].step = "write", handler'[g].alone
       PROVE  FALSE
    <2>1. g # h
        BY <1>5, <1>10 DEF RowWrites
    <2>2. handler'[g] = handler[g]
        BY <1>5, <2>1 DEF RowWrites, Handlers
    <2>3. g \in InProgress /\ h \in InProgress
        BY <1>1, <1>10, <2>2 DEF InProgress
    <2>. QED
        BY <1>3, <1>10, <2>1, <2>2, <2>3 DEF LastWord
<1>11. ASSUME ~erased, wish' = "keep"
       PROVE  "requested" \notin States'
    <2>1. AfterAll(e.at)
        BY <1>1, <1>2, <1>3, <1>4, <1>11 DEF LastWord
    <2>2. States' = {"cancelled"}
        BY <1>2, <1>4, <1>11, <2>1, LatestAlone
    <2>. QED
        BY <2>2
<1>12. LastWord'
    BY <1>1, <1>8, <1>9, <1>10, <1>11 DEF LastWord
<1>. QED
    BY <1>6, <1>7, <1>12 DEF DeletionInv

LEMMA EraseKeeps ==
    ASSUME DeletionInv, NEW p \in Erasures, Erase(p)
    PROVE  DeletionInv'
<1>1. /\ handler[p].step = "write" /\ erased' = TRUE /\ known' = known \cup handler[p].orders
      /\ WriteEvent(p, "processed") /\ MoveTo(p, "done") /\ UNCHANGED <<now, orderAt, wish>>
    BY DEF Erase
<1>2. DeletionTypeOK /\ CheckedOver /\ LastWord /\ p \in Handlers /\ p \notin Asks \cup Cancels
    BY DeletionAssumption DEF DeletionInv, Handlers
<1>3. PICK e \in [by : Handlers, action : EventActions, at : Nat] : events' = events \cup {e}
    BY <1>1, <1>2, EventRow DEF EventActions
<1>4. PICK new \in DeletionRows :
          /\ RowWrites(p, new) /\ new.step = "done"
          /\ new.at = handler[p].at /\ new.alone = handler[p].alone
          /\ new.open = handler[p].open /\ new.orders = handler[p].orders
    BY <1>1, <1>2, MovePut
<1>5. new.orders \subseteq CustomerOrders
    BY DEF DeletionRows
<1>6. DeletionTypeOK'
    BY <1>1, <1>2, <1>3, <1>4, <1>5, DeletionTypes, DeletionTypesNext DEF RowWrites
<1>7. CheckedOver'
    <2>1. \A o \in handler[p].orders : orderAt[o] \in OverStatuses
        BY <1>1, <1>2 DEF CheckedOver
    <2>2. \A q \in Erasures : handler'[q].open = handler[q].open /\ handler'[q].orders = handler[q].orders
        BY <1>4 DEF RowWrites, Handlers
    <2>3. \A q \in Erasures : handler'[q].step \in {"stamp", "write"} => handler[q].step \in {"stamp", "write"}
        BY <1>4 DEF RowWrites, Handlers
    <2>. QED
        BY <1>1, <1>2, <2>1, <2>2, <2>3 DEF CheckedOver
<1>8. \A g \in InProgress' : g \in InProgress /\ (handler'[g].alone => InProgress' = {g})
    BY <1>2, <1>4, ProgressShrinks
<1>9. \E g \in events' : \A f \in events' : f.at <= g.at
    BY <1>3, GreatestStays
<1>10. LastWord'
    BY <1>1, <1>8, <1>9 DEF LastWord
<1>. QED
    BY <1>6, <1>7, <1>10 DEF DeletionInv

\* Orders placed and moved on, and time.
LEMMA WorldKeeps ==
    ASSUME DeletionInv, UNCHANGED <<events, erased, handler, wish, known>>,
           now' \in 0..MaxNow, orderAt' \in [CustomerOrders -> OrderStatuses \cup {"none"}],
           \A o \in CustomerOrders :
               \/ orderAt'[o] = orderAt[o]
               \/ orderAt[o] \notin OverStatuses /\ orderAt'[o] # "draft"
    PROVE  DeletionInv'
<1>1. DeletionTypeOK /\ CheckedOver /\ LastWord
    BY DEF DeletionInv
<1>2. DeletionTypeOK'
    BY <1>1, DeletionTypes, DeletionTypesNext
<1>3. CheckedOver'
    <2>1. \A p \in Erasures : handler[p].orders \subseteq CustomerOrders
        BY <1>1, DeletionTypes DEF DeletionRows, Handlers
    <2>2. known \subseteq CustomerOrders
        BY <1>1, DeletionTypes
    <2>. QED
        BY <1>1, <2>1, <2>2 DEF CheckedOver
<1>4. LastWord'
    BY <1>1 DEF LastWord, AfterAll, InProgress, States, LastStamp
<1>. QED
    BY <1>2, <1>3, <1>4 DEF DeletionInv

LEMMA OrderMoves ==
    ASSUME DeletionInv, NEW o \in CustomerOrders,
           PlaceOrder(o) \/ \E to \in OrderStatuses : MoveOrder(o, to)
    PROVE  /\ orderAt' \in [CustomerOrders -> OrderStatuses \cup {"none"}]
           /\ \A x \in CustomerOrders :
                 \/ orderAt'[x] = orderAt[x]
                 \/ orderAt[x] \notin OverStatuses /\ orderAt'[x] # "draft"
<1>1. orderAt \in [CustomerOrders -> OrderStatuses \cup {"none"}]
    BY DeletionTypes DEF DeletionInv
<1>2. CASE PlaceOrder(o)
    BY <1>1, <1>2 DEF PlaceOrder, OverStatuses, OrderStatuses
<1>3. ASSUME NEW to \in OrderStatuses, MoveOrder(o, to)
      PROVE  /\ orderAt' \in [CustomerOrders -> OrderStatuses \cup {"none"}]
             /\ \A x \in CustomerOrders :
                   \/ orderAt'[x] = orderAt[x]
                   \/ orderAt[x] \notin OverStatuses /\ orderAt'[x] # "draft"
    <2>1. orderAt[o] \in OrderStatuses /\ canTransition(orderAt[o], to)
          /\ orderAt' = [orderAt EXCEPT ![o] = to]
        BY <1>1, <1>3 DEF MoveOrder
    <2>2. orderAt[o] \notin OverStatuses /\ to # "draft"
        BY <2>1, NothingAfter
    <2>. QED
        BY <1>1, <2>1, <2>2
<1>. QED
    BY <1>2, <1>3

LEMMA DeletionStep ==
    ASSUME DeletionInv, [DeletionNext]_deletionVars
    PROVE  DeletionInv'
<1>1. CASE UNCHANGED deletionVars
    BY <1>1, WorldKeeps, DeletionTypes DEF deletionVars, DeletionInv
<1>2. CASE DeletionNext
    <2>1. ASSUME NEW h \in Asks \cup Cancels, Ask(h) \/ Cancel(h)
          PROVE  DeletionInv'
        BY <2>1, StartKeeps DEF Ask, Cancel
    <2>2. ASSUME NEW o \in CustomerOrders, PlaceOrder(o) \/ \E to \in OrderStatuses : MoveOrder(o, to)
          PROVE  DeletionInv'
        <3>1. UNCHANGED <<now, events, erased, handler, wish, known>> /\ now \in 0..MaxNow
            BY <2>2, DeletionTypes DEF PlaceOrder, MoveOrder, DeletionInv
        <3>. QED
            BY <2>2, <3>1, OrderMoves, WorldKeeps
    <2>3. CASE ClockAdvances
        <3>1. UNCHANGED <<events, erased, orderAt, handler, wish, known>> /\ now' \in 0..MaxNow
            BY <2>3, DeletionAssumption, DeletionTypes DEF ClockAdvances, DeletionInv
        <3>. QED
            BY <3>1, WorldKeeps, DeletionTypes DEF DeletionInv
    <2>4. \/ \E h \in Asks \cup Cancels : Ask(h) \/ Cancel(h)
          \/ \E h \in Asks \cup Cancels : WriteRequest(h) \/ WriteCancel(h)
          \/ \E p \in Erasures : CheckOrders(p) \/ CheckState(p) \/ Erase(p)
          \/ \E h \in Handlers : Stamp(h) \/ DeletionDies(h)
          \/ \E o \in CustomerOrders : PlaceOrder(o) \/ \E to \in OrderStatuses : MoveOrder(o, to)
          \/ ClockAdvances
        BY <1>2 DEF DeletionNext
    <2>. QED
        BY <2>1, <2>2, <2>3, <2>4, CustomerWriteKeeps, CheckOrdersKeeps, CheckStateKeeps, EraseKeeps,
           StampKeeps, DeletionDiesKeeps
<1>. QED
    BY <1>1, <1>2

LEMMA DeletionInvariant == DeletionSpec => []DeletionInv
<1>1. DeletionInv /\ [DeletionNext]_deletionVars => DeletionInv'
    BY DeletionStep
<1>. QED
    BY <1>1, DeletionInitInv, PTL DEF DeletionSpec

\* Only the check of the state turns into an erasure, and only on a request.
LEMMA OnlyRequested ==
    ASSUME DeletionInv, [DeletionNext]_deletionVars, NEW p \in Erasures,
           ~erased, handler[p].step = "state", handler'[p].step = "stamp"
    PROVE  wish # "keep"
<1>1. DeletionTypeOK /\ LastWord /\ p \in Handlers /\ p \notin Asks \cup Cancels
    BY DeletionAssumption DEF DeletionInv, Handlers
<1>2. ASSUME NEW h \in Handlers, NEW step \in {"new", "stamp", "write", "state", "done"},
             MoveTo(h, step), h # p \/ step # "stamp"
      PROVE  FALSE
    <2>1. PICK new \in DeletionRows : RowWrites(h, new) /\ new.step = step
        BY <1>1, <1>2, MovePut
    <2>. QED
        BY <1>1, <1>2, <2>1 DEF RowWrites
<1>3. ASSUME NEW h \in Asks \cup Cancels, StartHandler(h)
      PROVE  FALSE
    <2>1. p # h /\ p \notin InProgress
        BY <1>1, <1>3 DEF InProgress
    <2>2. handler'[p] = handler[p]
        BY <1>1, <1>3, <2>1 DEF StartHandler
    <2>. QED
        BY <2>2
<1>4. ASSUME NEW h \in Handlers, Stamp(h)
      PROVE  FALSE
    <2>1. handler[h].step = "stamp" /\ handler' = [handler EXCEPT ![h].step = "write", ![h].at = NextStamp]
        BY <1>4 DEF Stamp
    <2>2. p # h
        BY <2>1
    <2>3. handler \in [Handlers -> DeletionRows]
        BY <1>1, DeletionTypes
    <2>4. handler'[p] = handler[p]
        BY <1>1, <2>1, <2>2, <2>3
    <2>. QED
        BY <2>4
<1>5. ASSUME NEW q \in Erasures, CheckOrders(q)
      PROVE  FALSE
    <2>1. handler[q].step = "new"
        BY <1>5 DEF CheckOrders
    <2>2. handler \in [Handlers -> DeletionRows] /\ p # q
        BY <1>1, <2>1, DeletionTypes
    <2>3. handler'[p] = handler[p]
        BY <1>1, <1>5, <2>2 DEF CheckOrders
    <2>. QED
        BY <2>3
<1>6. ASSUME NEW q \in Erasures, CheckState(q)
      PROVE  "requested" \in States
    <2>1. PICK state \in States :
              MoveTo(q, IF state = "requested" /\ handler[q].open = {} THEN "stamp" ELSE "done")
        BY <1>6 DEF CheckState
    <2>2. CASE state = "requested"
        BY <2>2
    <2>3. CASE state # "requested"
        <3>1. MoveTo(q, "done")
            BY <2>1, <2>3
        <3>. QED
            BY <1>2, <3>1 DEF Handlers
    <2>. QED
        BY <2>2, <2>3
<1>7. ASSUME UNCHANGED handler
      PROVE  FALSE
    BY <1>7
<1>8. \/ \E h \in Asks \cup Cancels : StartHandler(h)
      \/ \E h \in Handlers : MoveTo(h, "done")
      \/ \E h \in Handlers : Stamp(h)
      \/ \E q \in Erasures : CheckOrders(q)
      \/ \E q \in Erasures : CheckState(q)
      \/ UNCHANGED handler
    BY DEF DeletionNext, Ask, Cancel, WriteRequest, WriteCancel, Erase, DeletionDies, PlaceOrder,
           MoveOrder, ClockAdvances, deletionVars, Handlers
<1>9. "requested" \in States
    BY <1>2, <1>3, <1>4, <1>5, <1>6, <1>7, <1>8
<1>. QED
    BY <1>1, <1>9 DEF LastWord

\* The events carry stamps that are times, the orders have a status of theirs, and
\* the handlers carry orders of the customer (AccountDeletionService).
THEOREM DeletionTypeCorrect == DeletionSpec => []DeletionTypeOK
<1>1. DeletionInv => DeletionTypeOK
    BY DEF DeletionInv
<1>. QED
    BY <1>1, DeletionInvariant, PTL

\* A cancellation that was answered is honoured by every check that begins later
\* (deletionStateFromEvents, nextEventAt), however many requests are sent at once
\* and however coarse the clock is.
THEOREM CancelHonoured == DeletionSpec => AnsweredCancelIsHonoured
<1>1. DeletionInv /\ [DeletionNext]_deletionVars
         => [\A p \in Erasures :
                (~erased /\ handler[p].step = "state" /\ handler'[p].step = "stamp")
                    => wish # "keep"]_deletionVars
    BY OnlyRequested
<1>. QED
    BY <1>1, DeletionInvariant, PTL DEF DeletionSpec, AnsweredCancelIsHonoured

\* What an erased account had ordered when the store checked is over for good
\* (openOrderCount, processBlocker), whatever orders do meanwhile.
THEOREM ErasedAreOver == DeletionSpec => ErasedOrdersAreOver
<1>1. ASSUME DeletionInv, [DeletionNext]_deletionVars, NEW o \in known
      PROVE  orderAt'[o] = orderAt[o]
    <2>1. o \in CustomerOrders /\ orderAt[o] \in OverStatuses
        BY <1>1, DeletionTypes DEF DeletionInv, CheckedOver
    <2>2. UNCHANGED orderAt
          \/ \E x \in CustomerOrders : PlaceOrder(x) \/ \E to \in OrderStatuses : MoveOrder(x, to)
        BY <1>1 DEF DeletionNext, Ask, Cancel, WriteRequest, WriteCancel, Stamp, CheckOrders, CheckState,
                    Erase, DeletionDies, ClockAdvances, deletionVars
    <2>3. \/ UNCHANGED orderAt
          \/ orderAt'[o] = orderAt[o]
          \/ orderAt[o] \notin OverStatuses
        BY <1>1, <2>1, <2>2, OrderMoves
    <2>. QED
        BY <2>1, <2>3
<1>2. DeletionInv /\ [DeletionNext]_deletionVars
         => [erased => \A o \in known : orderAt'[o] = orderAt[o]]_deletionVars
    BY <1>1
<1>. QED
    BY <1>2, DeletionInvariant, PTL DEF DeletionSpec, ErasedOrdersAreOver

-----------------------------------------------------------------------------
(***************************************************************************)
(* The carts, for any number of carts, requests and merges: no unit is in  *)
(* a cart that the customer never asked for.                               *)
(*                                                                         *)
(* What makes it true: every unit asked for counts for one cart, or for    *)
(* one request that has not read its line yet.  A cart's line, and every   *)
(* quantity that may still be written to it or merged out of it, stays     *)
(* within the units that count for it; and those of a visitor's cart move  *)
(* to the customer's once, when the transaction deletes the cart.          *)
(***************************************************************************)

Looking == [step : {"resolve", "create"}, who : {"guest", "user"}, qty : Qty, available : Nat]
Lined == [step : {"line"}, cart : CartIds, qty : Qty, available : Nat]
Writing == [step : {"write"}, cart : CartIds, row : Nat, qty : Nat]
AddRows == Looking \cup Lined \cup Writing \cup {Resting}

Finding == [step : {"resolve", "create"}, guest : CartIds, qty : Nat, available : Nat]
Merging == [step : {"merge"}, guest : CartIds, cart : CartIds, qty : Nat, available : Nat]
MergeRows == Finding \cup Merging \cup {Resting}

\* What a request asks for until it has read the line.
Waits(r) == IF r.step \in {"resolve", "create", "line"} THEN r.qty ELSE 0
Asking == [a \in Adds |-> Waits(add[a])]

Caps == [CartIds -> Qty]

\* The units asked for, by the cart they count for.
Counts(cap) == Tally(CartIds, cap, MaxAsked) + Tally(Adds, Asking, MaxAsked) <= asked

Within(cap) ==
    /\ \A c \in CartIds : line[c] <= cap[c]
    /\ \A a \in Adds : add[a].step = "write" /\ owner[add[a].cart] # "gone"
                          => add[a].qty <= cap[add[a].cart]
    /\ \A m \in Merges : merge[m] # Resting /\ owner[merge[m].guest] = "guest"
                          => merge[m].qty <= cap[merge[m].guest]

Owned ==
    /\ \A c \in CartIds : owner[c] = "gone" => line[c] = 0
    /\ \A m \in Merges : merge[m] # Resting => owner[merge[m].guest] \in {"guest", "gone"}
    /\ \A m \in Merges : merge[m].step = "merge" => owner[merge[m].cart] = "user"

CartTypes ==
    /\ owner \in [CartIds -> {"none", "guest", "user", "gone"}]
    /\ line \in [CartIds -> Nat]
    /\ row \in [CartIds -> Nat]
    /\ available \in 0..MaxQty
    /\ asked \in Qty
    /\ add \in [Adds -> AddRows]
    /\ merge \in [Merges -> MergeRows]

CartInv == CartTypes /\ Owned /\ \E cap \in Caps : Counts(cap) /\ Within(cap)

LEMMA RestingFields == Resting.step = "idle" /\ Waits(Resting) = 0
BY DEF Resting, Waits

\* The rows of requests and merges by their steps.
LEMMA AddFields ==
    ASSUME NEW r \in AddRows
    PROVE  /\ r.step \in {"idle", "resolve", "create", "line", "write"}
           /\ r.step = "idle" <=> r = Resting
           /\ r.step \in {"resolve", "create"} <=> r \in Looking
           /\ r.step = "line" <=> r \in Lined
           /\ r.step = "write" <=> r \in Writing
<1>1. CASE r = Resting
    BY <1>1 DEF Resting, Looking, Lined, Writing
<1>2. CASE r \in Looking
    BY <1>2 DEF Resting, Looking, Lined, Writing
<1>3. CASE r \in Lined
    BY <1>3 DEF Resting, Looking, Lined, Writing
<1>4. CASE r \in Writing
    BY <1>4 DEF Resting, Looking, Lined, Writing
<1>. QED
    BY <1>1, <1>2, <1>3, <1>4 DEF AddRows

LEMMA MergeFields ==
    ASSUME NEW r \in MergeRows
    PROVE  /\ r.step \in {"idle", "resolve", "create", "merge"}
           /\ r.step = "idle" <=> r = Resting
           /\ r.step \in {"resolve", "create"} <=> r \in Finding
           /\ r.step = "merge" <=> r \in Merging
<1>1. CASE r = Resting
    BY <1>1 DEF Resting, Finding, Merging
<1>2. CASE r \in Finding
    BY <1>2 DEF Resting, Finding, Merging
<1>3. CASE r \in Merging
    BY <1>3 DEF Resting, Finding, Merging
<1>. QED
    BY <1>1, <1>2, <1>3 DEF MergeRows

LEMMA WaitsType == \A r \in AddRows : Waits(r) \in Qty
<1>1. SUFFICES ASSUME NEW r \in AddRows
      PROVE  Waits(r) \in Qty
    OBVIOUS
<1>2. 0 \in Qty
    BY CartAssumption DEF Qty
<1>3. CASE r \in Looking \cup Lined
    BY <1>2, <1>3 DEF Looking, Lined, Waits
<1>4. CASE r \in Writing \cup {Resting}
    BY <1>2, <1>4, RestingFields DEF Writing, Waits
<1>. QED
    BY <1>3, <1>4 DEF AddRows

LEMMA AskingTally ==
    ASSUME CartTypes
    PROVE  Tally(Adds, Asking, MaxAsked) \in Nat
BY CartAssumption, TallyType

\* One request's step changes what is asked for by its own share.
LEMMA AskingMoves ==
    ASSUME CartTypes, NEW a \in Adds, NEW new \in AddRows, add' = [add EXCEPT ![a] = new]
    PROVE  /\ add' \in [Adds -> AddRows] /\ add'[a] = new
           /\ \A b \in Adds \ {a} : add'[b] = add[b]
           /\ Tally(Adds, Asking', MaxAsked) \in Nat
           /\ Tally(Adds, Asking', MaxAsked)
                 = Tally(Adds, Asking, MaxAsked) - Waits(add[a]) + Waits(new)
<1>1. /\ add' \in [Adds -> AddRows] /\ add'[a] = new
      /\ \A b \in Adds \ {a} : add'[b] = add[b]
    BY DEF CartTypes
<1>2. Asking' = [b \in Adds |-> Waits(add'[b])]
    BY DEF Asking, Waits
<1>3. Asking[a] = Waits(add[a]) /\ Asking'[a] = Waits(new) /\ \A b \in Adds \ {a} : Asking[b] = Asking'[b]
    BY <1>1, <1>2 DEF Asking
<1>4. Waits(add[a]) \in 0 .. MaxAsked /\ Waits(new) \in 0 .. MaxAsked
    BY WaitsType DEF CartTypes, Qty
<1>5. IsFiniteSet(Adds) /\ MaxAsked \in Nat
    BY CartAssumption
<1>6. Tally(Adds, Asking', MaxAsked) = Tally(Adds, Asking, MaxAsked) - Asking[a] + Asking'[a]
    BY <1>3, <1>4, <1>5, TallyUpdate
<1>7. Tally(Adds, Asking', MaxAsked) \in Nat
    BY <1>5, TallyType
<1>. QED
    BY <1>1, <1>3, <1>6, <1>7

\* The units that count for a cart, and what a change of theirs does to the sum.
LEMMA CapTally ==
    ASSUME NEW cap \in Caps
    PROVE  /\ Tally(CartIds, cap, MaxAsked) \in Nat
           /\ \A c \in CartIds : cap[c] \in Nat /\ cap[c] <= Tally(CartIds, cap, MaxAsked)
<1>1. IsFiniteSet(CartIds) /\ MaxAsked \in Nat
    BY CartAssumption
<1>2. Tally(CartIds, cap, MaxAsked) \in Nat
    BY <1>1, TallyType
<1>3. ASSUME NEW c \in CartIds
      PROVE  cap[c] \in Nat /\ cap[c] <= Tally(CartIds, cap, MaxAsked)
    <2>1. cap[c] \in 0 .. MaxAsked
        BY DEF Caps, Qty
    <2>2. cap[c] <= Tally(CartIds, cap, MaxAsked)
        BY <1>1, <2>1, TallyRemove
    <2>. QED
        BY <2>1, <2>2
<1>. QED
    BY <1>2, <1>3

LEMMA CapMoves ==
    ASSUME NEW cap \in Caps, NEW c \in CartIds, NEW n \in Qty
    PROVE  \E new \in Caps :
              /\ new[c] = n /\ \A d \in CartIds \ {c} : new[d] = cap[d]
              /\ Tally(CartIds, new, MaxAsked) = Tally(CartIds, cap, MaxAsked) - cap[c] + n
<1>0. PICK new : new = [cap EXCEPT ![c] = n]
    OBVIOUS
<1>1. new \in Caps /\ new[c] = n /\ \A d \in CartIds \ {c} : new[d] = cap[d]
    BY <1>0 DEF Caps
<1>2. cap[c] \in 0 .. MaxAsked /\ new[c] \in 0 .. MaxAsked
    BY <1>1 DEF Caps, Qty
<1>3. IsFiniteSet(CartIds) /\ MaxAsked \in Nat
    BY CartAssumption
<1>4. \A d \in CartIds \ {c} : cap[d] = new[d]
    BY <1>1
<1>5. Tally(CartIds, new, MaxAsked) = Tally(CartIds, cap, MaxAsked) - cap[c] + new[c]
    <2>1. PICK old, next : old = cap /\ next = new
        OBVIOUS
    <2>2. /\ old[c] \in 0 .. MaxAsked /\ next[c] \in 0 .. MaxAsked
          /\ \A d \in CartIds \ {c} : old[d] = next[d]
        BY <1>2, <1>4, <2>1
    <2>3. Tally(CartIds, next, MaxAsked) = Tally(CartIds, old, MaxAsked) - old[c] + next[c]
        BY <1>3, <2>2, TallyUpdate
    <2>. QED
        BY <2>1, <2>3
<1>. QED
    BY <1>1, <1>5

LEMMA CartInitInv == CartInit => CartInv
<1>. SUFFICES ASSUME CartInit
              PROVE  CartInv
    OBVIOUS
<1>1. 0 \in Qty /\ MaxAsked \in Nat /\ MaxQty \in 0..MaxQty
    BY CartAssumption DEF Qty
<1>2. CartTypes
    <2>1. /\ owner \in [CartIds -> {"none", "guest", "user", "gone"}]
          /\ available \in 0..MaxQty
        BY <1>1 DEF CartInit
    <2>2. line \in [CartIds -> Nat]
        BY DEF CartInit
    <2>4. row \in [CartIds -> Nat]
        BY DEF CartInit
    <2>5. asked \in Qty
        BY <1>1 DEF CartInit
    <2>3. add \in [Adds -> AddRows] /\ merge \in [Merges -> MergeRows]
        BY DEF CartInit, AddRows, MergeRows
    <2>. QED
        BY <2>1, <2>2, <2>3, <2>4, <2>5 DEF CartTypes
<1>3. /\ \A a \in Adds : add[a].step = "idle" /\ Asking[a] = 0
      /\ \A m \in Merges : merge[m] = Resting /\ merge[m].step = "idle"
    BY RestingFields DEF CartInit, Asking
<1>4. Owned
    BY <1>3 DEF CartInit, Owned
<1>5. PICK cap \in Caps : cap = [c \in CartIds |-> 0]
    BY <1>1 DEF Caps
<1>6. Tally(CartIds, cap, MaxAsked) = 0 /\ Tally(Adds, Asking, MaxAsked) = 0
    BY <1>1, <1>3, <1>5, TallyZero
<1>7. Counts(cap)
    BY <1>6 DEF CartInit, Counts
<1>8. Within(cap)
    BY <1>3, <1>5 DEF CartInit, Within
<1>. QED
    BY <1>2, <1>4, <1>7, <1>8 DEF CartInv

\* Carts are made, for the visitor or for the customer.
Founded ==
    \A c \in CartIds : owner'[c] = owner[c] \/ (owner[c] = "none" /\ owner'[c] \in {"guest", "user"})

\* A request moves on, short of the quantity it will write.
LEMMA AddStep ==
    ASSUME CartInv, NEW a \in Adds, NEW new \in AddRows, add' = [add EXCEPT ![a] = new],
           UNCHANGED <<line, row, merge, available>>, Founded,
           owner' \in [CartIds -> {"none", "guest", "user", "gone"}],
           asked' \in Qty, new.step # "write",
           asked + Waits(new) <= asked' + Waits(add[a])
    PROVE  CartInv'
<1>1. CartTypes /\ Owned
    BY DEF CartInv
<1>2. PICK cap \in Caps : Counts(cap) /\ Within(cap)
    BY DEF CartInv
<1>3. /\ add' \in [Adds -> AddRows] /\ add'[a] = new
      /\ \A b \in Adds \ {a} : add'[b] = add[b]
      /\ Tally(Adds, Asking', MaxAsked) \in Nat
      /\ Tally(Adds, Asking', MaxAsked)
            = Tally(Adds, Asking, MaxAsked) - Waits(add[a]) + Waits(new)
    BY <1>1, AskingMoves
<1>4. CartTypes'
    BY <1>1, <1>3 DEF CartTypes
<1>5. Owned'
    BY <1>1, <1>4 DEF Owned, Founded, CartTypes, Finding, Merging, MergeRows, Resting
<1>6. Counts(cap)'
    <2>1. Tally(CartIds, cap, MaxAsked) \in Nat /\ Tally(Adds, Asking, MaxAsked) \in Nat
        BY <1>1, CapTally, AskingTally
    <2>2. Waits(add[a]) \in Nat /\ Waits(new) \in Nat /\ asked \in Nat /\ asked' \in Nat
        BY <1>1, WaitsType DEF CartTypes, Qty
    <2>3. Tally(CartIds, cap, MaxAsked) + Tally(Adds, Asking, MaxAsked) <= asked
        BY <1>2 DEF Counts
    <2>4. Tally(CartIds, cap, MaxAsked) + Tally(Adds, Asking', MaxAsked) <= asked'
        BY <1>3, <2>1, <2>2, <2>3
    <2>. QED
        BY <2>4 DEF Counts
<1>7. Within(cap)'
    <2>1. ASSUME NEW b \in Adds, add'[b].step = "write", owner'[add'[b].cart] # "gone"
          PROVE  add'[b].qty <= cap[add'[b].cart]
        <3>1. b # a /\ add'[b] = add[b]
            BY <1>3, <2>1
        <3>2. add[b].cart \in CartIds
            BY <1>1, <2>1, <3>1, AddFields DEF CartTypes, Writing
        <3>3. owner[add[b].cart] # "gone"
            BY <2>1, <3>1, <3>2 DEF Founded
        <3>. QED
            BY <1>2, <2>1, <3>1, <3>3 DEF Within
    <2>2. ASSUME NEW m \in Merges, merge[m] # Resting, owner'[merge[m].guest] = "guest"
          PROVE  merge[m].qty <= cap[merge[m].guest]
        <3>1. merge[m].guest \in CartIds
            BY <1>1, <2>2 DEF CartTypes, MergeRows, Finding, Merging
        <3>2. owner[merge[m].guest] = "guest"
            BY <1>1, <2>2, <3>1 DEF Founded, Owned
        <3>. QED
            BY <1>2, <2>2, <3>2 DEF Within
    <2>. QED
        BY <1>2, <2>1, <2>2 DEF Within
<1>. QED
    BY <1>4, <1>5, <1>6, <1>7 DEF CartInv

\* A merge moves on, short of the transaction.
LEMMA MergeStep ==
    ASSUME CartInv, NEW m \in Merges, NEW new \in MergeRows, merge' = [merge EXCEPT ![m] = new],
           UNCHANGED <<line, row, add, available, asked>>, Founded,
           owner' \in [CartIds -> {"none", "guest", "user", "gone"}],
           new # Resting =>
               \/ owner[new.guest] = "guest" /\ new.qty = line[new.guest] /\ new.step # "merge"
               \/ /\ merge[m] # Resting
                  /\ new.guest = merge[m].guest /\ new.qty = merge[m].qty
                  /\ new.step = "merge" => owner'[new.cart] = "user"
    PROVE  CartInv'
<1>1. CartTypes /\ Owned
    BY DEF CartInv
<1>2. PICK cap \in Caps : Counts(cap) /\ Within(cap)
    BY DEF CartInv
<1>3. /\ merge' \in [Merges -> MergeRows] /\ merge'[m] = new
      /\ \A n \in Merges \ {m} : merge'[n] = merge[n]
    BY <1>1 DEF CartTypes
<1>4. CartTypes'
    BY <1>1, <1>3 DEF CartTypes
<1>5. \A r \in MergeRows : r # Resting => r.guest \in CartIds /\ (r.step = "merge" => r.cart \in CartIds)
    BY DEF MergeRows, Finding, Merging
<1>6. \A n \in Merges : merge[n] \in MergeRows /\ merge'[n] \in MergeRows
    BY <1>1, <1>3 DEF CartTypes
<1>7. ASSUME NEW n \in Merges, merge'[n] # Resting
      PROVE  /\ owner'[merge'[n].guest] \in {"guest", "gone"}
             /\ owner'[merge'[n].guest] = "guest" => merge'[n].qty <= cap[merge'[n].guest]
             /\ merge'[n].step = "merge" => owner'[merge'[n].cart] = "user"
    <2>1. merge'[n].guest \in CartIds /\ (merge'[n].step = "merge" => merge'[n].cart \in CartIds)
        BY <1>5, <1>6, <1>7
    <2>2. CASE /\ n = m /\ owner[new.guest] = "guest"
               /\ new.qty = line[new.guest] /\ new.step # "merge"
        BY <1>2, <1>3, <2>1, <2>2 DEF Within, Founded
    <2>3. CASE /\ merge[n] # Resting /\ merge'[n].guest = merge[n].guest /\ merge'[n].qty = merge[n].qty
               /\ merge'[n].step = "merge" => owner'[merge'[n].cart] = "user"
        BY <1>1, <1>2, <2>1, <2>3 DEF Within, Owned, Founded
    <2>4. CASE n # m
        <3>1. merge'[n] = merge[n]
            BY <1>3, <2>4
        <3>2. merge[n].step = "merge" => owner'[merge[n].cart] = "user"
            BY <1>1, <2>1, <3>1 DEF Owned, Founded
        <3>. QED
            BY <1>7, <2>3, <3>1, <3>2
    <2>. QED
        BY <1>3, <1>7, <2>2, <2>3, <2>4
<1>8. \A n \in Merges : merge'[n].step = "merge" => merge'[n] # Resting
    BY RestingFields
<1>9. Owned'
    BY <1>1, <1>7, <1>8 DEF Owned, Founded
<1>10. UNCHANGED Asking
    BY DEF Asking, Waits
<1>11. Counts(cap)'
    BY <1>2, <1>10 DEF Counts
<1>12. Within(cap)'
    <2>1. ASSUME NEW b \in Adds, add[b].step = "write", owner'[add[b].cart] # "gone"
          PROVE  add[b].qty <= cap[add[b].cart]
        <3>1. add[b].cart \in CartIds
            BY <1>1, <2>1, AddFields DEF CartTypes, Writing
        <3>2. owner[add[b].cart] # "gone"
            BY <2>1, <3>1 DEF Founded
        <3>. QED
            BY <1>2, <2>1, <3>2 DEF Within
    <2>. QED
        BY <1>2, <1>7, <2>1 DEF Within
<1>. QED
    BY <1>4, <1>9, <1>11, <1>12 DEF CartInv

LEMMA NotGrown == (UNCHANGED owner => Founded)
BY DEF Founded

LEMMA AddStartsOrEnds ==
    ASSUME CartInv, NEW a \in Adds,
           \/ LoseAdd(a)
           \/ \E who \in {"guest", "user"}, qty \in 1..MaxQty : ReadProduct(a, who, qty)
    PROVE  CartInv'
<1>1. CartTypes
    BY DEF CartInv
<1>2. Waits(add[a]) \in Nat /\ asked \in Qty /\ asked \in Nat
    BY <1>1, WaitsType DEF CartTypes, Qty
<1>3. CASE LoseAdd(a)
    <2>1. add' = [add EXCEPT ![a] = Resting] /\ UNCHANGED <<owner, line, row, available, merge, asked>>
        BY <1>3 DEF LoseAdd, Rest
    <2>2. asked + Waits(Resting) <= asked' + Waits(add[a])
        BY <1>2, <2>1, RestingFields
    <2>3. Resting \in AddRows /\ Resting.step # "write"
        BY RestingFields DEF AddRows
    <2>4. Founded /\ owner' \in [CartIds -> {"none", "guest", "user", "gone"}] /\ asked' \in Qty
        BY <1>1, <2>1, NotGrown DEF CartTypes
    <2>. QED
        BY <2>1, <2>2, <2>3, <2>4, AddStep
<1>4. ASSUME NEW who \in {"guest", "user"}, NEW qty \in 1..MaxQty, ReadProduct(a, who, qty)
      PROVE  CartInv'
    <2>1. PICK new : new = [step |-> "resolve", who |-> who, qty |-> qty, available |-> available]
        OBVIOUS
    <2>2. /\ add[a] = Resting /\ asked + qty <= MaxAsked /\ asked' = asked + qty
          /\ add' = [add EXCEPT ![a] = new] /\ UNCHANGED <<owner, line, row, available, merge>>
        BY <1>4, <2>1 DEF ReadProduct
    <2>3. MaxQty \in Nat /\ MaxAsked \in Nat
        BY CartAssumption
    <2>4. qty \in Qty /\ asked' \in Qty
        BY <1>2, <2>2, <2>3 DEF Qty
    <2>5. available \in Nat
        BY <1>1, <2>3 DEF CartTypes
    <2>6. new \in AddRows /\ new.step = "resolve" /\ Waits(new) = qty
        BY <2>1, <2>4, <2>5 DEF AddRows, Looking, Waits
    <2>7. asked + Waits(new) <= asked' + Waits(add[a])
        BY <1>2, <2>2, <2>6, RestingFields
    <2>. QED
        BY <1>1, <2>2, <2>4, <2>6, <2>7, NotGrown, AddStep DEF CartTypes
<1>. QED
    BY <1>3, <1>4

LEMMA AddFindsCart ==
    ASSUME CartInv, NEW a \in Adds, ResolveForAdd(a) \/ CreateForAdd(a)
    PROVE  CartInv'
<1>1. CartTypes
    BY DEF CartInv
<1>2. PICK old \in Looking : old = add[a]
    BY <1>1, AddFields DEF ResolveForAdd, CreateForAdd, CartTypes
<1>3. /\ old.who \in {"guest", "user"} /\ old.qty \in Qty /\ old.available \in Nat
      /\ Waits(old) = old.qty
    BY DEF Looking, Waits
<1>4. /\ UNCHANGED <<line, row, available, merge, asked>>
      /\ UNCHANGED owner
         \/ \E c \in CartIds : owner[c] = "none" /\ owner' = [owner EXCEPT ![c] = old.who]
    BY <1>2 DEF ResolveForAdd, CreateForAdd, CartsOf
<1>5. owner' \in [CartIds -> {"none", "guest", "user", "gone"}] /\ Founded
    BY <1>1, <1>3, <1>4 DEF CartTypes, Founded
<1>6. asked \in Nat /\ asked' \in Qty
    BY <1>1, <1>4 DEF CartTypes, Qty
<1>7. ASSUME NEW c \in CartIds,
             add' = [add EXCEPT ![a] = [step |-> "line", cart |-> c, qty |-> add[a].qty,
                                        available |-> add[a].available]]
      PROVE  CartInv'
    <2>1. PICK new : new = [step |-> "line", cart |-> c, qty |-> old.qty, available |-> old.available]
        OBVIOUS
    <2>2. new \in AddRows /\ new.step = "line" /\ Waits(new) = old.qty
        BY <1>3, <2>1 DEF AddRows, Lined, Waits
    <2>3. add' = [add EXCEPT ![a] = new]
        BY <1>2, <1>7, <2>1
    <2>4. asked + Waits(new) <= asked' + Waits(add[a])
        BY <1>2, <1>3, <1>4, <1>6, <2>2 DEF Qty
    <2>. QED
        BY <1>4, <1>5, <1>6, <2>2, <2>3, <2>4, AddStep
<1>8. ASSUME add' = [add EXCEPT ![a].step = "create"]
      PROVE  CartInv'
    <2>1. PICK new : new = [old EXCEPT !.step = "create"]
        OBVIOUS
    <2>2. new \in Looking /\ new.step = "create" /\ Waits(new) = old.qty
        BY <2>1 DEF Looking, Waits
    <2>3. add' = [add EXCEPT ![a] = new]
        BY <1>2, <1>8, <2>1
    <2>4. asked + Waits(new) <= asked' + Waits(add[a])
        BY <1>2, <1>3, <1>4, <1>6, <2>2 DEF Qty
    <2>. QED
        BY <1>4, <1>5, <1>6, <2>2, <2>3, <2>4, AddStep DEF AddRows
<1>. QED
    BY <1>7, <1>8 DEF ResolveForAdd, CreateForAdd, CartsOf

\* The units of a request count for the cart from the read of its line on.
LEMMA ReadLineKeeps ==
    ASSUME CartInv, NEW a \in Adds, ReadLine(a)
    PROVE  CartInv'
<1>1. CartTypes /\ Owned
    BY DEF CartInv
<1>2. PICK cap \in Caps : Counts(cap) /\ Within(cap)
    BY DEF CartInv
<1>3. UNCHANGED <<owner, line, row, available, merge, asked>>
    BY DEF ReadLine
<1>4. PICK old \in Lined : old = add[a]
    BY <1>1, AddFields DEF ReadLine, CartTypes
<1>5. old.cart \in CartIds /\ old.qty \in Qty /\ old.qty \in Nat /\ Waits(old) = old.qty
    BY DEF Lined, Waits, Qty
<1>6. PICK c \in CartIds : c = old.cart
    BY <1>5
<1>7. line[c] \in Nat /\ row[c] \in Nat /\ asked \in Qty /\ asked \in Nat /\ MaxAsked \in Nat
    BY <1>1, CartAssumption DEF CartTypes, Qty
<1>8. CASE add' = [add EXCEPT ![a] = Resting]
    <2>1. asked + Waits(Resting) <= asked' + Waits(add[a])
        BY <1>3, <1>4, <1>5, <1>7, RestingFields
    <2>. QED
        BY <1>1, <1>3, <1>7, <1>8, <2>1, NotGrown, RestingFields, AddStep DEF AddRows, CartTypes
<1>9. ASSUME NEW new,
             new = [step |-> "write", cart |-> c, row |-> IF line[c] > 0 THEN row[c] ELSE 0,
                    qty |-> line[c] + old.qty],
             add' = [add EXCEPT ![a] = new]
      PROVE  CartInv'
    <2>1. /\ Tally(CartIds, cap, MaxAsked) \in Nat /\ Tally(Adds, Asking, MaxAsked) \in Nat
          /\ cap[c] \in Nat /\ cap[c] <= Tally(CartIds, cap, MaxAsked)
        BY <1>1, CapTally, AskingTally
    <2>2. old.qty <= Tally(Adds, Asking, MaxAsked)
        <3>1. Asking[a] = old.qty /\ Asking[a] \in 0 .. MaxAsked
            BY <1>4, <1>5 DEF Asking, Qty
        <3>2. IsFiniteSet(Adds)
            BY CartAssumption
        <3>3. Asking[a] <= Tally(Adds, Asking, MaxAsked)
            BY <1>7, <3>1, <3>2, TallyRemove
        <3>. QED
            BY <3>1, <3>3
    <2>3. Tally(CartIds, cap, MaxAsked) + Tally(Adds, Asking, MaxAsked) <= asked
        BY <1>2 DEF Counts
    <2>4. line[c] <= cap[c]
        BY <1>2 DEF Within
    <2>5. PICK n : n = cap[c] + old.qty
        OBVIOUS
    <2>6. n \in Qty /\ line[c] + old.qty \in Qty /\ line[c] + old.qty <= n /\ cap[c] <= n
        BY <1>5, <1>7, <2>1, <2>2, <2>3, <2>4, <2>5 DEF Qty
    <2>7. /\ new \in AddRows /\ new.step = "write" /\ new.cart = c /\ new.qty = line[c] + old.qty
          /\ Waits(new) = 0
        <3>1. PICK r \in Nat : r = IF line[c] > 0 THEN row[c] ELSE 0
            BY <1>7
        <3>2. PICK q \in Qty : q = line[c] + old.qty
            BY <2>6
        <3>3. new = [step |-> "write", cart |-> c, row |-> r, qty |-> q]
            BY <1>9, <3>1, <3>2
        <3>4. new \in Writing /\ new.step = "write" /\ new.cart = c /\ new.qty = q
            BY <3>3, <1>7 DEF Writing, Qty
        <3>. QED
            BY <3>2, <3>4 DEF AddRows, Waits
    <2>8. /\ add' \in [Adds -> AddRows] /\ add'[a] = new
          /\ \A b \in Adds \ {a} : add'[b] = add[b]
          /\ Tally(Adds, Asking', MaxAsked) \in Nat
          /\ Tally(Adds, Asking', MaxAsked)
                = Tally(Adds, Asking, MaxAsked) - Waits(add[a]) + Waits(new)
        BY <1>1, <1>9, <2>7, AskingMoves
    <2>9. PICK k \in Qty : k = n
        BY <2>6
    <2>10. PICK more \in Caps :
              /\ more[c] = k /\ \A d \in CartIds \ {c} : more[d] = cap[d]
              /\ Tally(CartIds, more, MaxAsked) = Tally(CartIds, cap, MaxAsked) - cap[c] + k
        BY CapMoves
    <2>11. Counts(more)'
        <3>1. Tally(CartIds, more, MaxAsked) + Tally(Adds, Asking', MaxAsked) <= asked'
            BY <1>3, <1>4, <1>5, <1>7, <2>1, <2>3, <2>5, <2>7, <2>8, <2>9, <2>10
        <3>. QED
            BY <3>1 DEF Counts
    <2>12. \A d \in CartIds : cap[d] \in Nat /\ more[d] \in Nat /\ cap[d] <= more[d]
        BY <2>6, <2>9, <2>10, CapTally DEF Caps, Qty
    <2>13. Within(more)'
        <3>1. ASSUME NEW d \in CartIds
              PROVE  line[d] <= more[d]
            <4>1. line[d] <= cap[d] /\ line[d] \in Nat
                BY <1>1, <1>2 DEF Within, CartTypes
            <4>. QED
                BY <2>12, <4>1
        <3>2. ASSUME NEW b \in Adds, add'[b].step = "write", owner[add'[b].cart] # "gone"
              PROVE  add'[b].qty <= more[add'[b].cart]
            <4>1. CASE b = a
                BY <2>6, <2>7, <2>8, <2>9, <2>10, <4>1
            <4>2. CASE b # a
                <5>1. add'[b] = add[b] /\ add[b] \in Writing
                    BY <1>1, <2>8, <3>2, <4>2, AddFields DEF CartTypes
                <5>2. add[b].cart \in CartIds /\ add[b].qty \in Nat
                    BY <5>1 DEF Writing, Qty
                <5>3. add[b].qty <= cap[add[b].cart]
                    BY <1>2, <3>2, <5>1 DEF Within
                <5>. QED
                    BY <2>12, <5>1, <5>2, <5>3
            <4>. QED
                BY <4>1, <4>2
        <3>3. ASSUME NEW m \in Merges, merge[m] # Resting, owner[merge[m].guest] = "guest"
              PROVE  merge[m].qty <= more[merge[m].guest]
            <4>1. merge[m].guest \in CartIds /\ merge[m].qty \in Nat
                BY <1>1, <3>3 DEF CartTypes, MergeRows, Finding, Merging
            <4>2. merge[m].qty <= cap[merge[m].guest]
                BY <1>2, <3>3 DEF Within
            <4>. QED
                BY <2>12, <4>1, <4>2
        <3>. QED
            BY <1>3, <3>1, <3>2, <3>3 DEF Within
    <2>14. CartTypes' /\ Owned'
        BY <1>1, <1>3, <2>8 DEF CartTypes, Owned
    <2>. QED
        BY <2>10, <2>11, <2>13, <2>14 DEF CartInv
<1>10. \/ add' = [add EXCEPT ![a] = Resting]
       \/ add' = [add EXCEPT ![a] = [step |-> "write", cart |-> c,
                                     row |-> IF line[c] > 0 THEN row[c] ELSE 0,
                                     qty |-> line[c] + old.qty]]
    BY <1>4, <1>6 DEF ReadLine, Rest
<1>. QED
    BY <1>8, <1>9, <1>10

\* Lines change within more units than counted for their carts before.
LEMMA LinesWithin ==
    ASSUME CartTypes, NEW cap \in Caps, Within(cap), NEW more \in Caps,
           \A d \in CartIds : cap[d] <= more[d], \A d \in CartIds : line'[d] <= more[d],
           UNCHANGED <<owner, merge>>,
           \A a \in Adds : add'[a].step = "write" => add'[a] = add[a]
    PROVE  Within(more)'
<1>1. \A d \in CartIds : cap[d] \in Nat /\ more[d] \in Nat
    BY CartAssumption DEF Caps, Qty
<1>2. ASSUME NEW a \in Adds, add'[a].step = "write", owner[add'[a].cart] # "gone"
      PROVE  add'[a].qty <= more[add'[a].cart]
    <2>1. add'[a] = add[a] /\ add[a] \in Writing
        BY <1>2, AddFields DEF CartTypes
    <2>2. add[a].cart \in CartIds /\ add[a].qty \in Nat
        BY <2>1 DEF Writing
    <2>3. add[a].qty <= cap[add[a].cart]
        BY <1>2, <2>1 DEF Within
    <2>. QED
        BY <1>1, <2>1, <2>2, <2>3
<1>3. ASSUME NEW m \in Merges, merge[m] # Resting, owner[merge[m].guest] = "guest"
      PROVE  merge[m].qty <= more[merge[m].guest]
    <2>1. merge[m].guest \in CartIds /\ merge[m].qty \in Nat
        BY <1>3 DEF CartTypes, MergeRows, Finding, Merging
    <2>2. merge[m].qty <= cap[merge[m].guest]
        BY <1>3 DEF Within
    <2>. QED
        BY <1>1, <2>1, <2>2
<1>. QED
    BY <1>2, <1>3 DEF Within

LEMMA WriteLineKeeps ==
    ASSUME CartInv, NEW a \in Adds, WriteLine(a)
    PROVE  CartInv'
<1>1. CartTypes /\ Owned
    BY DEF CartInv
<1>2. PICK cap \in Caps : Counts(cap) /\ Within(cap)
    BY DEF CartInv
<1>3. /\ add[a].step = "write" /\ add' = [add EXCEPT ![a] = Resting]
      /\ UNCHANGED <<owner, available, merge, asked>>
    BY DEF WriteLine, Rest
<1>4. PICK old \in Writing : old = add[a]
    BY <1>1, <1>3, AddFields DEF CartTypes
<1>5. PICK c \in CartIds : c = old.cart
    BY DEF Writing
<1>6. PICK q \in Nat : q = old.qty
    BY DEF Writing
<1>7. \/ /\ owner[c] # "gone" /\ line' = [line EXCEPT ![c] = q]
         /\ row' = row \/ row' = [row EXCEPT ![c] = @ + 1]
      \/ UNCHANGED <<line, row>>
    <2>1. line[c] > 0 => owner[c] # "gone"
        BY <1>1 DEF Owned, CartTypes
    <2>. QED
        BY <1>4, <1>5, <1>6, <2>1 DEF WriteLine
<1>8. /\ add' \in [Adds -> AddRows] /\ add'[a] = Resting
      /\ \A b \in Adds \ {a} : add'[b] = add[b]
      /\ Tally(Adds, Asking', MaxAsked) = Tally(Adds, Asking, MaxAsked)
    <2>1. Resting \in AddRows /\ Waits(Resting) = 0
        BY RestingFields DEF AddRows
    <2>2. Waits(add[a]) = 0
        BY <1>3 DEF Waits
    <2>3. /\ add' \in [Adds -> AddRows] /\ add'[a] = Resting
          /\ \A b \in Adds \ {a} : add'[b] = add[b]
          /\ Tally(Adds, Asking', MaxAsked)
                = Tally(Adds, Asking, MaxAsked) - Waits(add[a]) + Waits(Resting)
        BY <1>1, <1>3, <2>1, AskingMoves
    <2>4. Tally(Adds, Asking, MaxAsked) \in Nat
        BY <1>1, AskingTally
    <2>. QED
        BY <2>1, <2>2, <2>3, <2>4
<1>9. owner[c] # "gone" => q <= cap[c]
    BY <1>2, <1>3, <1>4, <1>5, <1>6 DEF Within
<1>10. line' \in [CartIds -> Nat] /\ \A d \in CartIds : line'[d] <= cap[d]
    <2>1. line \in [CartIds -> Nat] /\ \A d \in CartIds : line[d] <= cap[d]
        BY <1>1, <1>2 DEF CartTypes, Within
    <2>. QED
        BY <1>7, <1>9, <2>1
<1>11. row' \in [CartIds -> Nat]
    BY <1>1, <1>7 DEF CartTypes
<1>12. CartTypes'
    BY <1>1, <1>3, <1>8, <1>10, <1>11 DEF CartTypes
<1>13. Owned'
    <2>1. \A d \in CartIds : owner[d] = "gone" => line'[d] = 0
        BY <1>1, <1>7 DEF Owned, CartTypes
    <2>. QED
        BY <1>1, <1>3, <2>1 DEF Owned
<1>14. Counts(cap)'
    BY <1>2, <1>3, <1>8 DEF Counts
<1>15. Within(cap)'
    <2>1. \A b \in Adds : add'[b].step = "write" => add'[b] = add[b]
        BY <1>8, RestingFields
    <2>2. \A d \in CartIds : cap[d] <= cap[d]
        BY CartAssumption DEF Caps, Qty
    <2>. QED
        BY <1>1, <1>2, <1>3, <1>10, <2>1, <2>2, LinesWithin
<1>. QED
    BY <1>12, <1>13, <1>14, <1>15 DEF CartInv

LEMMA UpdateItemKeeps ==
    ASSUME CartInv, NEW c \in CartIds, NEW qty \in 1..MaxQty, UpdateItem(c, qty)
    PROVE  CartInv'
<1>1. CartTypes /\ Owned
    BY DEF CartInv
<1>2. PICK cap \in Caps : Counts(cap) /\ Within(cap)
    BY DEF CartInv
<1>3. PICK q \in Nat : q = qty
    BY CartAssumption
<1>4. /\ line[c] > 0 /\ asked + q <= MaxAsked /\ asked' = asked + q
      /\ line' = [line EXCEPT ![c] = q] /\ UNCHANGED <<owner, row, available, add, merge>>
    BY <1>3 DEF UpdateItem
<1>5. /\ Tally(CartIds, cap, MaxAsked) \in Nat /\ Tally(Adds, Asking, MaxAsked) \in Nat
      /\ cap[c] \in Nat /\ cap[c] <= Tally(CartIds, cap, MaxAsked)
    BY <1>1, CapTally, AskingTally
<1>6. asked \in Nat /\ MaxAsked \in Nat
    BY <1>1, CartAssumption DEF CartTypes, Qty
<1>7. Tally(CartIds, cap, MaxAsked) + Tally(Adds, Asking, MaxAsked) <= asked
    BY <1>2 DEF Counts
<1>8. PICK n \in Qty : n = cap[c] + q
    <2>1. cap[c] + q \in Qty
        BY <1>4, <1>5, <1>6, <1>7 DEF Qty
    <2>. QED
        BY <2>1
<1>9. PICK more \in Caps :
          /\ more[c] = n /\ \A d \in CartIds \ {c} : more[d] = cap[d]
          /\ Tally(CartIds, more, MaxAsked) = Tally(CartIds, cap, MaxAsked) - cap[c] + n
    BY CapMoves
<1>10. UNCHANGED Asking
    BY <1>4 DEF Asking, Waits
<1>11. Counts(more)'
    <2>1. Tally(CartIds, more, MaxAsked) + Tally(Adds, Asking, MaxAsked) <= asked'
        BY <1>4, <1>5, <1>6, <1>7, <1>8, <1>9
    <2>. QED
        BY <1>10, <2>1 DEF Counts
<1>12. \A d \in CartIds : cap[d] \in Nat /\ cap[d] <= more[d]
    BY <1>5, <1>8, <1>9, CapTally
<1>13. line' \in [CartIds -> Nat] /\ line'[c] = q /\ \A d \in CartIds \ {c} : line'[d] = line[d]
    BY <1>1, <1>4 DEF CartTypes
<1>14. \A d \in CartIds : line'[d] <= more[d]
    <2>1. q <= more[c]
        BY <1>5, <1>8, <1>9
    <2>2. \A d \in CartIds : line[d] <= cap[d] /\ line[d] \in Nat
        BY <1>1, <1>2 DEF Within, CartTypes
    <2>3. \A d \in CartIds \ {c} : line[d] <= more[d]
        BY <1>9, <2>2
    <2>. QED
        BY <1>13, <2>1, <2>3
<1>15. Within(more)'
    BY <1>1, <1>2, <1>4, <1>12, <1>14, LinesWithin
<1>16. asked' \in Qty
    BY <1>4, <1>6 DEF Qty
<1>17. CartTypes'
    BY <1>1, <1>4, <1>13, <1>16 DEF CartTypes
<1>18. Owned'
    <2>1. owner[c] # "gone"
        BY <1>1, <1>4 DEF Owned, CartTypes
    <2>. QED
        BY <1>1, <1>4, <1>13, <2>1 DEF Owned
<1>. QED
    BY <1>11, <1>15, <1>17, <1>18 DEF CartInv

\* A line that goes, and stock that moves.
LEMMA FewerLines ==
    ASSUME CartInv, UNCHANGED <<owner, row, add, merge, asked>>, available' \in 0..MaxQty,
           line' \in [CartIds -> Nat], \A c \in CartIds : line'[c] = line[c] \/ line'[c] = 0
    PROVE  CartInv'
<1>1. CartTypes /\ Owned
    BY DEF CartInv
<1>2. PICK cap \in Caps : Counts(cap) /\ Within(cap)
    BY DEF CartInv
<1>3. CartTypes' /\ Owned'
    BY <1>1 DEF CartTypes, Owned
<1>4. UNCHANGED Asking
    BY DEF Asking, Waits
<1>5. \A d \in CartIds : cap[d] \in Nat /\ line[d] <= cap[d]
    BY <1>2, CapTally DEF Within
<1>6. \A d \in CartIds : line'[d] <= cap[d] /\ cap[d] <= cap[d]
    BY <1>5
<1>7. Counts(cap)' /\ Within(cap)'
    BY <1>1, <1>2, <1>4, <1>6, LinesWithin DEF Counts
<1>. QED
    BY <1>3, <1>7 DEF CartInv

\* getCart.
LEMMA GetCartKeeps ==
    ASSUME CartInv, NEW who \in {"guest", "user"}, GetCart(who)
    PROVE  CartInv'
<1>1. CartTypes /\ Owned
    BY DEF CartInv
<1>2. PICK cap \in Caps : Counts(cap) /\ Within(cap)
    BY DEF CartInv
<1>3. PICK c \in CartIds : owner[c] = "none" /\ owner' = [owner EXCEPT ![c] = who]
    BY DEF GetCart, CartsOf
<1>4. UNCHANGED <<line, row, available, add, merge, asked>>
    BY DEF GetCart
<1>5. owner' \in [CartIds -> {"none", "guest", "user", "gone"}] /\ Founded
    BY <1>1, <1>3 DEF CartTypes, Founded
<1>6. \A m \in Merges : merge[m] # Resting => merge[m].guest \in CartIds
    BY <1>1 DEF CartTypes, MergeRows, Finding, Merging
<1>7. \A m \in Merges : merge[m].step = "merge" => merge[m].cart \in CartIds
    BY <1>1, MergeFields DEF CartTypes, Merging
<1>8. \A a \in Adds : add[a].step = "write" => add[a].cart \in CartIds
    BY <1>1, AddFields DEF CartTypes, Writing
<1>9. CartTypes'
    BY <1>1, <1>4, <1>5 DEF CartTypes
<1>10. Owned'
    BY <1>1, <1>4, <1>5, <1>6, <1>7 DEF Owned, Founded
<1>11. Within(cap)'
    <2>1. \A a \in Adds : add[a].step = "write" /\ owner'[add[a].cart] # "gone" => owner[add[a].cart] # "gone"
        BY <1>5, <1>8 DEF Founded
    <2>2. \A m \in Merges : merge[m] # Resting /\ owner'[merge[m].guest] = "guest"
                               => owner[merge[m].guest] = "guest"
        BY <1>1, <1>5, <1>6 DEF Founded, Owned
    <2>. QED
        BY <1>2, <1>4, <2>1, <2>2 DEF Within
<1>12. Counts(cap)'
    BY <1>2, <1>4 DEF Counts, Asking, Waits
<1>. QED
    BY <1>9, <1>10, <1>11, <1>12 DEF CartInv

\* A visitor's cart goes, empty, and its units with it or on to another cart.
LEMMA GuestGoes ==
    ASSUME CartInv, NEW g \in CartIds, owner[g] = "guest", owner' = [owner EXCEPT ![g] = "gone"],
           line' \in [CartIds -> Nat], line'[g] = 0, row' \in [CartIds -> Nat],
           \A d \in CartIds : line'[d] # line[d] => d = g \/ owner[d] = "user",
           UNCHANGED <<available, add, asked>>, merge' \in [Merges -> MergeRows],
           \A m \in Merges : merge'[m] = merge[m] \/ merge'[m] = Resting,
           NEW cap \in Caps, Within(cap), NEW more \in Caps,
           \A d \in CartIds : line'[d] <= more[d],
           \A d \in CartIds \ {g} : cap[d] <= more[d],
           Counts(more)
    PROVE  CartInv'
<1>1. CartTypes /\ Owned
    BY DEF CartInv
<1>2. /\ owner' \in [CartIds -> {"none", "guest", "user", "gone"}] /\ owner'[g] = "gone"
      /\ \A d \in CartIds \ {g} : owner'[d] = owner[d]
    BY <1>1 DEF CartTypes
<1>3. CartTypes'
    BY <1>1, <1>2 DEF CartTypes
<1>4. \A m \in Merges : merge'[m] # Resting => merge'[m] = merge[m] /\ merge[m].guest \in CartIds
    BY <1>1 DEF CartTypes, MergeRows, Finding, Merging
<1>5. \A m \in Merges : merge'[m].step = "merge" => merge'[m] = merge[m] /\ merge[m].cart \in CartIds
    BY <1>1, MergeFields, RestingFields DEF CartTypes, Merging
<1>6. Owned'
    <2>1. \A d \in CartIds : owner'[d] = "gone" => line'[d] = 0
        BY <1>1, <1>2 DEF Owned
    <2>2. \A m \in Merges : merge'[m] # Resting => owner'[merge'[m].guest] \in {"guest", "gone"}
        BY <1>1, <1>2, <1>4 DEF Owned
    <2>3. \A m \in Merges : merge'[m].step = "merge" => owner'[merge'[m].cart] = "user"
        BY <1>1, <1>2, <1>5 DEF Owned
    <2>. QED
        BY <2>1, <2>2, <2>3 DEF Owned
<1>7. \A d \in CartIds : cap[d] \in Nat /\ more[d] \in Nat
    BY CartAssumption DEF Caps, Qty
<1>8. ASSUME NEW a \in Adds, add[a].step = "write", owner'[add[a].cart] # "gone"
      PROVE  add[a].qty <= more[add[a].cart]
    <2>1. add[a].cart \in CartIds /\ add[a].qty \in Nat
        BY <1>1, <1>8, AddFields DEF CartTypes, Writing
    <2>2. add[a].cart # g /\ owner[add[a].cart] # "gone"
        BY <1>2, <1>8, <2>1
    <2>3. add[a].qty <= cap[add[a].cart]
        BY <1>8, <2>2 DEF Within
    <2>. QED
        BY <1>7, <2>1, <2>2, <2>3
<1>9. ASSUME NEW m \in Merges, merge'[m] # Resting, owner'[merge'[m].guest] = "guest"
      PROVE  merge'[m].qty <= more[merge'[m].guest]
    <2>1. merge'[m] = merge[m] /\ merge[m].guest \in CartIds /\ merge[m] # Resting
        BY <1>4, <1>9
    <2>2. merge[m].guest # g /\ owner[merge[m].guest] = "guest"
        BY <1>2, <1>9, <2>1
    <2>3. merge[m].qty \in Nat
        BY <1>1, <2>1 DEF CartTypes, MergeRows, Finding, Merging
    <2>4. merge[m].qty <= cap[merge[m].guest]
        BY <2>1, <2>2 DEF Within
    <2>. QED
        BY <1>7, <2>1, <2>2, <2>3, <2>4
<1>10. Within(more)'
    BY <1>8, <1>9 DEF Within
<1>11. Counts(more)'
    BY DEF Counts, Asking, Waits
<1>. QED
    BY <1>3, <1>6, <1>10, <1>11 DEF CartInv

LEMMA ReadGuestCartKeeps ==
    ASSUME CartInv, NEW m \in Merges, ReadGuestCart(m)
    PROVE  CartInv'
<1>1. CartTypes /\ Owned
    BY DEF CartInv
<1>2. UNCHANGED <<line, row, available, add, asked>>
    BY DEF ReadGuestCart
<1>3. ASSUME NEW c \in CartIds, owner[c] = "guest", line[c] = 0,
             owner' = [owner EXCEPT ![c] = "gone"], UNCHANGED merge
      PROVE  CartInv'
    <2>1. PICK cap \in Caps : Counts(cap) /\ Within(cap)
        BY DEF CartInv
    <2>2. \A d \in CartIds : line[d] <= cap[d] /\ cap[d] <= cap[d]
        BY <2>1, CapTally DEF Within
    <2>. QED
        BY <1>1, <1>2, <1>3, <2>1, <2>2, GuestGoes DEF CartTypes
<1>4. ASSUME NEW c \in CartIds, owner[c] = "guest", UNCHANGED owner,
             merge' = [merge EXCEPT ![m] = [step |-> "resolve", guest |-> c,
                                            qty |-> line[c], available |-> available]]
      PROVE  CartInv'
    <2>1. PICK q \in Nat, left \in Nat : q = line[c] /\ left = available
        BY <1>1, CartAssumption DEF CartTypes
    <2>2. PICK new : new = [step |-> "resolve", guest |-> c, qty |-> q, available |-> left]
        OBVIOUS
    <2>3. new \in MergeRows /\ new.step = "resolve" /\ new.guest = c /\ new.qty = q
        BY <2>2 DEF MergeRows, Finding
    <2>4. merge' = [merge EXCEPT ![m] = new]
        BY <1>4, <2>1, <2>2
    <2>. QED
        <3>1. owner[new.guest] = "guest" /\ new.qty = line[new.guest] /\ new.step # "merge"
            BY <1>4, <2>1, <2>3
        <3>2. Founded /\ owner' \in [CartIds -> {"none", "guest", "user", "gone"}]
            BY <1>1, <1>4, NotGrown DEF CartTypes
        <3>. QED
            BY <1>2, <2>3, <2>4, <3>1, <3>2, MergeStep
<1>. QED
    BY <1>3, <1>4 DEF ReadGuestCart, CartsOf

LEMMA MergeFindsCart ==
    ASSUME CartInv, NEW m \in Merges, ResolveForMerge(m) \/ CreateForMerge(m)
    PROVE  CartInv'
<1>1. CartTypes
    BY DEF CartInv
<1>2. PICK old \in Finding : old = merge[m]
    BY <1>1, MergeFields DEF ResolveForMerge, CreateForMerge, CartTypes
<1>3. old.guest \in CartIds /\ old.qty \in Nat /\ old.available \in Nat /\ old # Resting
    BY RestingFields DEF Finding
<1>4. /\ UNCHANGED <<line, row, available, add, asked>>
      /\ UNCHANGED owner \/ \E c \in CartIds : owner[c] = "none" /\ owner' = [owner EXCEPT ![c] = "user"]
    BY DEF ResolveForMerge, CreateForMerge, CartsOf
<1>5. owner' \in [CartIds -> {"none", "guest", "user", "gone"}] /\ Founded
    BY <1>1, <1>4 DEF CartTypes, Founded
<1>6. ASSUME NEW c \in CartIds, owner'[c] = "user",
             merge' = [merge EXCEPT ![m] = [step |-> "merge", guest |-> merge[m].guest,
                                            cart |-> c, qty |-> merge[m].qty,
                                            available |-> merge[m].available]]
      PROVE  CartInv'
    <2>1. PICK new : new = [step |-> "merge", guest |-> old.guest, cart |-> c, qty |-> old.qty,
                            available |-> old.available]
        OBVIOUS
    <2>2. /\ new \in MergeRows /\ new.step = "merge" /\ new.guest = old.guest /\ new.qty = old.qty
          /\ new.cart = c
        BY <1>3, <2>1 DEF MergeRows, Merging
    <2>3. merge' = [merge EXCEPT ![m] = new]
        BY <1>2, <1>6, <2>1
    <2>. QED
        BY <1>2, <1>3, <1>4, <1>5, <1>6, <2>2, <2>3, MergeStep
<1>7. ASSUME merge' = [merge EXCEPT ![m].step = "create"]
      PROVE  CartInv'
    <2>1. PICK new : new = [old EXCEPT !.step = "create"]
        OBVIOUS
    <2>2. new \in MergeRows /\ new.step = "create" /\ new.guest = old.guest /\ new.qty = old.qty
        BY <2>1 DEF MergeRows, Finding
    <2>3. merge' = [merge EXCEPT ![m] = new]
        BY <1>2, <1>7, <2>1
    <2>. QED
        BY <1>2, <1>3, <1>4, <1>5, <2>2, <2>3, MergeStep
<1>8. CASE ResolveForMerge(m)
    BY <1>6, <1>7, <1>8 DEF ResolveForMerge, CartsOf
<1>9. CASE CreateForMerge(m)
    <2>1. PICK c \in CartIds :
              /\ owner' = [owner EXCEPT ![c] = "user"]
              /\ merge' = [merge EXCEPT ![m] = [step |-> "merge", guest |-> merge[m].guest,
                                                cart |-> c, qty |-> merge[m].qty,
                                                available |-> merge[m].available]]
        BY <1>9 DEF CreateForMerge, CartsOf
    <2>2. owner'[c] = "user"
        BY <1>1, <2>1 DEF CartTypes
    <2>. QED
        BY <1>6, <2>1, <2>2
<1>. QED
    BY <1>8, <1>9

LEMMA LoseMergeKeeps ==
    ASSUME CartInv, NEW m \in Merges, merge' = [merge EXCEPT ![m] = Resting],
           UNCHANGED <<owner, line, row, available, add, asked>>
    PROVE  CartInv'
BY NotGrown, MergeStep DEF CartInv, CartTypes, MergeRows

\* mergeGuestIntoUser: the units of the visitor's cart count for the customer's.
LEMMA MergeCartsKeeps ==
    ASSUME CartInv, NEW m \in Merges, MergeCarts(m)
    PROVE  CartInv'
<1>1. CartTypes /\ Owned
    BY DEF CartInv
<1>2. /\ merge[m].step = "merge" /\ merge' = [merge EXCEPT ![m] = Resting]
      /\ UNCHANGED <<available, add, asked>>
    BY DEF MergeCarts, Rest
<1>3. PICK old \in Merging : old = merge[m]
    BY <1>1, <1>2, MergeFields DEF CartTypes
<1>4. PICK g \in CartIds, c \in CartIds, q \in Nat, left \in Nat :
          g = old.guest /\ c = old.cart /\ q = old.qty /\ left = old.available
    BY DEF Merging
<1>5. CASE ~CanMerge(m)
    <2>1. UNCHANGED <<line, row, owner>>
        BY <1>5 DEF MergeCarts
    <2>. QED
        BY <1>2, <2>1, LoseMergeKeeps
<1>6. CASE CanMerge(m)
    <2>1. owner[g] = "guest" /\ owner[c] = "user" /\ g # c
        BY <1>1, <1>2, <1>3, <1>4, <1>6 DEF CanMerge, Owned
    <2>2. line[c] \in Nat /\ line[g] \in Nat
        BY <1>1 DEF CartTypes
    <2>3. PICK merged \in Nat :
              /\ merged <= line[c] + q
              /\ line' = [line EXCEPT ![c] = merged, ![g] = 0]
              /\ row' = row \/ row' = [row EXCEPT ![c] = @ + 1]
              /\ owner' = [owner EXCEPT ![g] = "gone"]
        <3> DEFINE sum == IF left > 0 THEN AtMost(line[c] + q, left) ELSE line[c]
        <3>1. sum \in Nat /\ sum <= line[c] + q
            BY <2>2 DEF AtMost
        <3>2. /\ line' = [line EXCEPT ![c] = sum, ![g] = 0]
              /\ row' = row \/ row' = [row EXCEPT ![c] = @ + 1]
              /\ owner' = [owner EXCEPT ![g] = "gone"]
            BY <1>3, <1>4, <1>6 DEF MergeCarts
        <3>. HIDE DEF sum
        <3>. QED
            BY <3>1, <3>2
    <2>4. PICK cap \in Caps : Counts(cap) /\ Within(cap)
        BY DEF CartInv
    <2>5. q <= cap[g] /\ line[c] <= cap[c]
        <3>1. merge[m] # Resting
            BY <1>2, RestingFields
        <3>. QED
            BY <1>3, <1>4, <2>1, <2>4, <3>1 DEF Within
    <2>6. 0 \in Qty /\ MaxAsked \in Nat
        BY CartAssumption DEF Qty
    <2>7. PICK less \in Caps :
              /\ less[g] = 0 /\ \A d \in CartIds \ {g} : less[d] = cap[d]
              /\ Tally(CartIds, less, MaxAsked) = Tally(CartIds, cap, MaxAsked) - cap[g] + 0
        BY <2>6, CapMoves
    <2>8. /\ Tally(CartIds, cap, MaxAsked) \in Nat /\ Tally(Adds, Asking, MaxAsked) \in Nat
          /\ Tally(CartIds, less, MaxAsked) \in Nat
          /\ cap[c] \in Nat /\ cap[g] \in Nat /\ less[c] <= Tally(CartIds, less, MaxAsked)
        BY <1>1, CapTally, AskingTally
    <2>9. less[c] = cap[c]
        BY <2>1, <2>7
    <2>10. Tally(CartIds, cap, MaxAsked) + Tally(Adds, Asking, MaxAsked) <= asked /\ asked \in Nat /\ asked <= MaxAsked
        BY <1>1, <2>4, <2>6 DEF Counts, CartTypes, Qty
    <2>11. PICK n \in Qty : n = cap[c] + cap[g]
        <3>1. cap[c] + cap[g] \in Qty
            BY <2>6, <2>7, <2>8, <2>9, <2>10 DEF Qty
        <3>. QED
            BY <3>1
    <2>12. PICK more \in Caps :
              /\ more[c] = n /\ \A d \in CartIds \ {c} : more[d] = less[d]
              /\ Tally(CartIds, more, MaxAsked) = Tally(CartIds, less, MaxAsked) - less[c] + n
        BY CapMoves
    <2>13. Counts(more)
        <3>1. Tally(CartIds, more, MaxAsked) = Tally(CartIds, cap, MaxAsked)
            BY <2>7, <2>8, <2>9, <2>11, <2>12
        <3>. QED
            BY <2>10, <3>1 DEF Counts
    <2>14. \A d \in CartIds : cap[d] \in Nat
        BY CapTally
    <2>15. \A d \in CartIds \ {g} : cap[d] <= more[d]
        <3>1. cap[c] <= more[c]
            BY <2>8, <2>11, <2>12
        <3>2. ASSUME NEW d \in CartIds \ {g}, d # c
              PROVE  cap[d] <= more[d]
            <4>1. more[d] = cap[d]
                BY <2>7, <2>12, <3>2
            <4>. QED
                BY <2>14, <4>1
        <3>. QED
            BY <3>1, <3>2
    <2>16. /\ line' \in [CartIds -> Nat] /\ line'[g] = 0 /\ line'[c] = merged
           /\ \A d \in CartIds : d # g /\ d # c => line'[d] = line[d]
        <3>1. line \in [CartIds -> Nat]
            BY <1>1 DEF CartTypes
        <3>. QED
            BY <2>1, <2>3, <3>1
    <2>17. ASSUME NEW d \in CartIds
           PROVE  line'[d] <= more[d]
        <3>1. CASE d = g
            BY <2>1, <2>7, <2>12, <2>16, <3>1
        <3>2. CASE d = c
            <4>1. merged <= n
                BY <2>2, <2>3, <2>5, <2>8, <2>11
            <4>. QED
                BY <2>12, <2>16, <3>2, <4>1
        <3>3. CASE d # g /\ d # c
            <4>1. line[d] <= cap[d] /\ line'[d] = line[d] /\ more[d] = cap[d]
                BY <2>4, <2>7, <2>12, <2>16, <3>3 DEF Within
            <4>. QED
                BY <4>1
        <3>. QED
            BY <3>1, <3>2, <3>3
    <2>18. row' \in [CartIds -> Nat]
        BY <1>1, <2>3 DEF CartTypes
    <2>19. /\ merge' \in [Merges -> MergeRows]
           /\ \A k \in Merges : merge'[k] = merge[k] \/ merge'[k] = Resting
        BY <1>1, <1>2 DEF CartTypes, MergeRows
    <2>20. \A d \in CartIds : line'[d] # line[d] => d = g \/ owner[d] = "user"
        BY <2>1, <2>16
    <2>21. Within(cap)
        BY <2>4
    <2>. QED
        BY <1>2, <2>1, <2>3, <2>13, <2>15, <2>16, <2>17, <2>18, <2>19, <2>20, <2>21, GuestGoes
<1>. QED
    BY <1>5, <1>6

LEMMA CartStep ==
    ASSUME CartInv, [CartNext]_cartVars
    PROVE  CartInv'
<1>1. CASE UNCHANGED cartVars
    <2>1. available \in 0..MaxQty /\ line \in [CartIds -> Nat]
        BY DEF CartInv, CartTypes
    <2>. QED
        BY <1>1, <2>1, FewerLines DEF cartVars
<1>2. ASSUME NEW a \in Adds,
             \/ \E who \in {"guest", "user"}, qty \in 1..MaxQty : ReadProduct(a, who, qty)
             \/ ResolveForAdd(a) \/ CreateForAdd(a) \/ ReadLine(a) \/ WriteLine(a) \/ LoseAdd(a)
      PROVE  CartInv'
    BY <1>2, AddStartsOrEnds, AddFindsCart, ReadLineKeeps, WriteLineKeeps
<1>3. ASSUME NEW c \in CartIds, RemoveItem(c)
      PROVE  CartInv'
    <2>1. /\ line' = [line EXCEPT ![c] = 0] /\ UNCHANGED <<owner, row, available, add, merge, asked>>
          /\ line \in [CartIds -> Nat] /\ available \in 0..MaxQty
        BY <1>3 DEF RemoveItem, CartInv, CartTypes
    <2>2. line' \in [CartIds -> Nat] /\ \A d \in CartIds : line'[d] = line[d] \/ line'[d] = 0
        BY <2>1
    <2>. QED
        BY <2>1, <2>2, FewerLines
<1>4. CASE AvailableMoves
    <2>1. /\ available' \in 0..MaxQty /\ UNCHANGED <<owner, line, row, add, merge, asked>>
          /\ line \in [CartIds -> Nat]
        BY <1>4 DEF AvailableMoves, CartInv, CartTypes
    <2>. QED
        BY <2>1, FewerLines
<1>5. ASSUME NEW m \in Merges,
             \/ ReadGuestCart(m) \/ ResolveForMerge(m) \/ CreateForMerge(m)
             \/ MergeCarts(m) \/ LoseMerge(m)
      PROVE  CartInv'
    BY <1>5, ReadGuestCartKeeps, MergeFindsCart, MergeCartsKeeps, LoseMergeKeeps DEF LoseMerge, Rest
<1>6. CASE CartNext
    <2>1. \/ \E a \in Adds :
                \/ \E who \in {"guest", "user"}, qty \in 1..MaxQty : ReadProduct(a, who, qty)
                \/ ResolveForAdd(a) \/ CreateForAdd(a) \/ ReadLine(a) \/ WriteLine(a) \/ LoseAdd(a)
          \/ \E c \in CartIds, qty \in 1..MaxQty : UpdateItem(c, qty)
          \/ \E c \in CartIds : RemoveItem(c)
          \/ \E who \in {"guest", "user"} : GetCart(who)
          \/ AvailableMoves
          \/ \E m \in Merges : \/ ReadGuestCart(m) \/ ResolveForMerge(m) \/ CreateForMerge(m)
                               \/ MergeCarts(m) \/ LoseMerge(m)
        BY <1>6 DEF CartNext
    <2>. QED
        BY <1>2, <1>3, <1>4, <1>5, <2>1, UpdateItemKeeps, GetCartKeeps
<1>. QED
    BY <1>1, <1>6

LEMMA CartInvariant == CartSpec => []CartInv
<1>1. CartInv /\ [CartNext]_cartVars => CartInv'
    BY CartStep
<1>. QED
    BY <1>1, CartInitInv, PTL DEF CartSpec

\* A line holds no more units than the bound on what is asked for, although requests
\* write absolute quantities read long before and merges add carts up: that takes
\* the invariant, since the writes themselves do not look (addItem, updateItem,
\* mergeGuestIntoUser).
THEOREM CartTypeCorrect == CartSpec => []CartTypeOK
<1>1. ASSUME CartInv
      PROVE  CartTypeOK
    <2>1. CartTypes
        BY <1>1 DEF CartInv
    <2>2. PICK cap \in Caps : Within(cap)
        BY <1>1 DEF CartInv
    <2>3. line \in [CartIds -> Qty]
        <3>1. \A c \in CartIds : line[c] \in Nat /\ line[c] <= cap[c] /\ cap[c] \in 0..MaxAsked
            BY <2>1, <2>2 DEF CartTypes, Within, Caps, Qty
        <3>2. \A c \in CartIds : line[c] \in Qty
            BY <3>1, CartAssumption DEF Qty
        <3>. QED
            BY <2>1, <3>2 DEF CartTypes
    <2>4. \A a \in Adds : add[a] = Resting \/ add[a].step \in {"resolve", "create", "line", "write"}
        BY <2>1, AddFields DEF CartTypes
    <2>5. \A m \in Merges : merge[m] = Resting \/ merge[m].step \in {"resolve", "create", "merge"}
        BY <2>1, MergeFields DEF CartTypes
    <2>. QED
        BY <2>1, <2>3, <2>4, <2>5 DEF CartTypes, CartTypeOK
<1>. QED
    BY <1>1, CartInvariant, PTL

\* The carts never hold more than the customer asked for (addItem,
\* mergeGuestIntoUser), whatever requests and sign-ins meet, and though a
\* customer may come to have several carts.
THEOREM NothingComesFromNowhere == CartSpec => []NothingInvented
<1>1. ASSUME CartInv
      PROVE  NothingInvented
    <2>1. PICK cap \in Caps : Counts(cap) /\ Within(cap)
        BY <1>1 DEF CartInv
    <2>2. IsFiniteSet(CartIds) /\ MaxAsked \in Nat
        BY CartAssumption
    <2>3. PICK most : most = cap
        OBVIOUS
    <2>4. \A c \in CartIds : line[c] \in Int /\ most[c] \in Int /\ line[c] <= most[c]
        BY <1>1, <2>1, <2>3, CapTally DEF CartInv, CartTypes, Within
    <2>5. Tally(CartIds, line, MaxAsked) <= Tally(CartIds, most, MaxAsked)
        BY <2>2, <2>4, TallyMono
    <2>6. /\ Tally(CartIds, cap, MaxAsked) \in Nat /\ Tally(Adds, Asking, MaxAsked) \in Nat
          /\ Tally(CartIds, line, MaxAsked) \in Nat /\ asked \in Nat
        BY <1>1, <2>2, CapTally, AskingTally, TallyType DEF CartInv, CartTypes, Qty
    <2>7. Tally(CartIds, cap, MaxAsked) + Tally(Adds, Asking, MaxAsked) <= asked
        BY <2>1 DEF Counts
    <2>. QED
        BY <2>3, <2>5, <2>6, <2>7 DEF NothingInvented
<1>. QED
    BY <1>1, CartInvariant, PTL

=============================================================================
