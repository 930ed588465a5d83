---------------------------- MODULE PushCampaigns ----------------------------
(* One promotional push campaign (PushCampaignsService): created, scheduled,  *)
(* cancelled, and dispatched by the scheduler, by its creation or by hand.    *)
(* Dispatches meet: a tick may outlast the scheduler's lease or lose it when  *)
(* its process exits, and the administrator's requests do not ask for it.     *)
(* A step is one query, or one call of the push service.                      *)

EXTENDS Naturals, FiniteSets

CONSTANTS
    Phones,        \* devices with a token
    Dispatchers,   \* runs of dispatch at one time
    PushBatch      \* tokens of one call

ASSUME CampaignAssumption == PushBatch \in Nat \ {0}

VARIABLES
    campaign,      \* PushCampaign.status, "none" before it is created
    dispatched,    \* phones with a PushDispatch row
    dispatch,      \* runs of dispatch
    cancelling,    \* whether cancel is between its read and its write
    got,           \* history: times a phone showed the campaign, 2 for more
    withdrawn,     \* history: cancelled before any dispatch had claimed it
    disturbed      \* history: two dispatches held it, or one died having sent

campaignVars == <<campaign, dispatched, dispatch, cancelling, got,
                  withdrawn, disturbed>>

NoDispatch == [step |-> "idle", rest |-> {}, batch |-> {}, to |-> "failed"]
DispatchRows == [step : {"idle", "count", "claim", "load", "send", "record", "finish"},
                 rest : SUBSET Phones, batch : SUBSET Phones, to : {"sent", "failed"}]
FinalStatuses == {"sent", "failed", "cancelled"}
HoldsClaim(d) == dispatch[d].step \in {"load", "send", "record", "finish"}

CampaignTypeOK ==
    /\ campaign \in {"none", "scheduled", "sending"} \cup FinalStatuses
    /\ dispatched \subseteq Phones
    /\ dispatch \in [Dispatchers -> DispatchRows]
    /\ cancelling \in BOOLEAN /\ withdrawn \in BOOLEAN /\ disturbed \in BOOLEAN
    /\ got \in [Phones -> 0..2]

CampaignInit ==
    /\ campaign = "none"
    /\ dispatched = {}
    /\ dispatch = [d \in Dispatchers |-> NoDispatch]
    /\ cancelling = FALSE
    /\ got = [p \in Phones |-> 0]
    /\ withdrawn = FALSE
    /\ disturbed = FALSE

-----------------------------------------------------------------------------
(* The administrator's screen.                                                *)

BeginDispatch == [NoDispatch EXCEPT !.step = "count"]

\* create: for later, or sent on the spot
Schedule ==
    /\ campaign = "none"
    /\ campaign' = "scheduled"
    /\ UNCHANGED <<dispatched, dispatch, cancelling, got, withdrawn, disturbed>>

SendNow(d) ==
    /\ campaign = "none"
    /\ campaign' = "sending"
    /\ dispatch' = [dispatch EXCEPT ![d] = BeginDispatch]
    /\ UNCHANGED <<dispatched, cancelling, got, withdrawn, disturbed>>

ReadCancel ==
    /\ campaign = "scheduled"
    /\ ~cancelling
    /\ cancelling' = TRUE
    /\ UNCHANGED <<campaign, dispatched, dispatch, got, withdrawn, disturbed>>

\* by id, whatever the status is by now
CancelById ==
    /\ cancelling
    /\ cancelling' = FALSE
    /\ campaign' = "cancelled"
    /\ withdrawn' = (withdrawn \/ campaign = "scheduled")
    /\ UNCHANGED <<dispatched, dispatch, got, disturbed>>

-----------------------------------------------------------------------------
(* dispatch.                                                                  *)

\* by the scheduler once it is due, or by hand at any time
StartDispatch(d) ==
    /\ dispatch[d] = NoDispatch
    /\ campaign \in {"scheduled", "sending"}
    /\ dispatch' = [dispatch EXCEPT ![d] = BeginDispatch]
    /\ UNCHANGED <<campaign, dispatched, cancelling, got, withdrawn, disturbed>>

CountDispatched(d) ==
    /\ dispatch[d].step = "count"
    /\ dispatch' = [dispatch EXCEPT ![d] = IF dispatched # {} THEN NoDispatch
                                           ELSE [@ EXCEPT !.step = "claim"]]
    /\ UNCHANGED <<campaign, dispatched, cancelling, got, withdrawn, disturbed>>

ClaimsAny == TRUE                       \* mutant: the claim has no WHERE on the status
ClaimsUnsent == campaign # "sent"       \* mutant: it looks only for what was sent

\* the WHERE of the claim
Claimable == campaign \in {"sending", "scheduled"}

ClaimCampaign(d) ==
    /\ dispatch[d].step = "claim"
    /\ IF Claimable
         THEN /\ campaign' = "sending"
              /\ dispatch' = [dispatch EXCEPT ![d].step = "load"]
              /\ disturbed' = (disturbed \/ \E e \in Dispatchers : HoldsClaim(e))
         ELSE /\ dispatch' = [dispatch EXCEPT ![d] = NoDispatch]
              /\ UNCHANGED <<campaign, disturbed>>
    /\ UNCHANGED <<dispatched, cancelling, got, withdrawn>>

\* the audience: phones turn pushes on and off, and the tokens that the push
\* service calls dead are turned off at the end of a dispatch.  Without
\* credentials every device is recorded as skipped.
LoadDevices(d) ==
    /\ dispatch[d].step = "load"
    /\ \/ dispatch' = [dispatch EXCEPT ![d].step = "finish", ![d].to = "sent"]
       \/ \E audience \in (SUBSET Phones) \ {{}} :
             \/ dispatch' = [dispatch EXCEPT ![d].step = "send", ![d].rest = audience]
             \/ dispatch' = [dispatch EXCEPT ![d].step = "record", ![d].rest = audience,
                                             ![d].batch = audience]
    /\ UNCHANGED <<campaign, dispatched, cancelling, got, withdrawn, disturbed>>

\* some of the batch is delivered; an error of the call counts all of it as failed
SendBatch(d) ==
    LET rest == dispatch[d].rest
        size == IF Cardinality(rest) < PushBatch THEN Cardinality(rest) ELSE PushBatch
    IN  /\ dispatch[d].step = "send"
        /\ \E batch \in SUBSET rest, delivered \in SUBSET Phones :
              /\ Cardinality(batch) = size
              /\ delivered \subseteq batch
              /\ got' = [p \in Phones |-> IF p \in delivered /\ got[p] < 2
                                            THEN got[p] + 1 ELSE got[p]]
              /\ \E to \in {dispatch[d].to, IF delivered # {} THEN "sent" ELSE dispatch[d].to} :
                    dispatch' = [dispatch EXCEPT ![d].step = "record", ![d].batch = batch,
                                                 ![d].to = to]
        /\ UNCHANGED <<campaign, dispatched, cancelling, withdrawn, disturbed>>

RecordBatch(d) ==
    LET rest == dispatch[d].rest \ dispatch[d].batch
    IN  /\ dispatch[d].step = "record"
        /\ dispatched' = dispatched \cup dispatch[d].batch
        /\ dispatch' = [dispatch EXCEPT ![d].rest = rest, ![d].batch = {},
                                        ![d].step = IF rest = {} THEN "finish" ELSE "send"]
        /\ UNCHANGED <<campaign, cancelling, got, withdrawn, disturbed>>

\* by id, whatever the status is by now
FinishDispatch(d) ==
    /\ dispatch[d].step = "finish"
    /\ campaign' = dispatch[d].to
    /\ dispatch' = [dispatch EXCEPT ![d] = NoDispatch]
    /\ UNCHANGED <<dispatched, cancelling, got, withdrawn, disturbed>>

\* a death of the process, or a query that throws
DispatchDies(d) ==
    /\ dispatch[d] # NoDispatch
    /\ dispatch' = [dispatch EXCEPT ![d] = NoDispatch]
    /\ disturbed' = (disturbed \/ (HoldsClaim(d) /\ \E p \in Phones : got[p] > 0))
    /\ UNCHANGED <<campaign, dispatched, cancelling, got, withdrawn>>

CampaignNext ==
    \/ Schedule \/ ReadCancel \/ CancelById
    \/ \E d \in Dispatchers :
          \/ SendNow(d) \/ StartDispatch(d) \/ CountDispatched(d) \/ ClaimCampaign(d)
          \/ LoadDevices(d) \/ SendBatch(d) \/ RecordBatch(d)
          \/ FinishDispatch(d) \/ DispatchDies(d)

CampaignSpec == CampaignInit /\ [][CampaignNext]_campaignVars

-----------------------------------------------------------------------------
(* Properties.                                                                *)

\* A campaign cancelled before any dispatch claimed it reaches nobody and stays
\* cancelled, also when a dispatch had read and counted before the cancellation.
CancelledIsQuiet == withdrawn => campaign = "cancelled" /\ \A p \in Phones : got[p] = 0

\* A phone shows the campaign once, however many dispatches were started, unless
\* two of them held the claim at once or one died having sent.
OncePerPhone == ~disturbed => \A p \in Phones : got[p] <= 1
=============================================================================
