--------------------------- MODULE AccountDeletion ---------------------------
(* Requests to delete one customer's account.  There is no row for a request: *)
(* its state is the latest of the audit events requested, cancelled and       *)
(* processed, by a time stamp that each handler computes before it writes.    *)
(* The store's check and the deletion itself are steps apart, and orders go   *)
(* on meanwhile.                                                              *)

EXTENDS Integers, OrderStatus

CONSTANTS
    Asks,       \* requests, by the customer or by the store on their behalf
    Cancels,    \* cancellations
    Erasures,   \* administrators' POSTs
    CustomerOrders,
    MaxNow      \* bound on the clock

ASSUME DeletionAssumption ==
    /\ MaxNow \in Nat
    /\ Erasures \cap (Asks \cup Cancels) = {}

VARIABLES
    now,       \* clock, which need not advance between two events
    events,    \* AuditLog rows of the user
    erased,    \* the personal data are gone
    orderAt,   \* status of an order, "none" before it exists
    handler,   \* handlers between their awaits
    wish,      \* history: what the customer was last told, "erase" or "keep"
    known      \* history: orders that existed at a check that led to the erasure

deletionVars == <<now, events, erased, orderAt, handler, wish, known>>

Handlers == Asks \cup Cancels \cup Erasures
EventActions == {"requested", "cancelled", "processed"}

DeletionTypeOK ==
    /\ now \in 0..MaxNow
    /\ events \subseteq [by : Handlers, action : EventActions, at : Nat]
    /\ erased \in BOOLEAN
    /\ orderAt \in [CustomerOrders -> OrderStatuses \cup {"none"}]
    /\ handler \in [Handlers -> [step : {"new", "stamp", "write", "state", "done"},
                                 at : Nat, alone : BOOLEAN,
                                 open : SUBSET CustomerOrders, orders : SUBSET CustomerOrders]]
    /\ wish \in {"keep", "erase", "unclear"}
    /\ known \subseteq CustomerOrders

DeletionInit ==
    /\ now = 0
    /\ events = {}
    /\ erased = FALSE
    /\ orderAt = [o \in CustomerOrders |-> "none"]
    /\ handler = [h \in Handlers |-> [step |-> "new", at |-> 0, alone |-> TRUE,
                                      open |-> {}, orders |-> {}]]
    /\ wish = "keep"
    /\ known = {}

-----------------------------------------------------------------------------
OpenUntilInTransit ==               \* mutant: in_transit is left out
    {"awaiting_payment", "paid", "separating", "organizing", "packing",
     "ready_for_pickup", "shipped"}

OPEN_ORDER_STATUSES ==
    {"awaiting_payment", "paid", "separating", "organizing", "packing",
     "ready_for_pickup", "shipped", "in_transit"}

OpenOrders == {o \in CustomerOrders : orderAt[o] \in OPEN_ORDER_STATUSES}

LastStamp == CHOOSE t \in {e.at : e \in events} : \A e \in events : e.at <= t

\* deletionStateFromEvents: rows with the same stamp come in any order
States == IF events = {} THEN {"cancelled"}
          ELSE {e.action : e \in {x \in events : x.at = LastStamp}}

StampOfNow == now                   \* mutant: the clock, whatever the last event

\* nextEventAt
NextStamp == IF events = {} \/ LastStamp < now THEN now ELSE LastStamp + 1

MoveTo(h, step) == handler' = [handler EXCEPT ![h].step = step]

\* Customers' handlers in progress.  Two at once are in no particular order, so
\* what the customer was told last is unclear unless a handler ran alone.
InProgress == {g \in Asks \cup Cancels : handler[g].step \in {"stamp", "write"}}

StartHandler(h) ==
    handler' = [g \in Handlers |->
                  IF g = h THEN [handler[g] EXCEPT !.step = "stamp", !.alone = InProgress = {}]
                  ELSE IF g \in InProgress THEN [handler[g] EXCEPT !.alone = FALSE]
                  ELSE handler[g]]

WriteEvent(h, action) ==
    events' = events \cup {[by |-> h, action |-> action, at |-> handler[h].at]}

-----------------------------------------------------------------------------
(* request and cancel: read the state, compute the stamp, write the event.    *)

Ask(h) ==
    /\ handler[h].step = "new"
    /\ "cancelled" \in States
    /\ StartHandler(h)
    /\ UNCHANGED <<now, events, erased, orderAt, wish, known>>

Cancel(h) ==
    /\ handler[h].step = "new"
    /\ "requested" \in States
    /\ StartHandler(h)
    /\ UNCHANGED <<now, events, erased, orderAt, wish, known>>

Stamp(h) ==
    /\ handler[h].step = "stamp"
    /\ handler' = [handler EXCEPT ![h].step = "write", ![h].at = NextStamp]
    /\ UNCHANGED <<now, events, erased, orderAt, wish, known>>

WriteRequest(h) ==
    /\ handler[h].step = "write"
    /\ WriteEvent(h, "requested")
    /\ MoveTo(h, "done")
    /\ wish' = IF handler[h].alone THEN "erase" ELSE "unclear"
    /\ UNCHANGED <<now, erased, orderAt, known>>

WriteCancel(h) ==
    /\ handler[h].step = "write"
    /\ WriteEvent(h, "cancelled")
    /\ MoveTo(h, "done")
    /\ wish' = IF handler[h].alone THEN "keep" ELSE "unclear"
    /\ UNCHANGED <<now, erased, orderAt, known>>

-----------------------------------------------------------------------------
(* process: orders, then state, then the stamp, then the transaction.         *)

CheckOrders(p) ==
    /\ handler[p].step = "new"
    /\ handler' = [handler EXCEPT ![p].step = "state", ![p].open = OpenOrders,
                                ![p].orders = {o \in CustomerOrders : orderAt[o] # "none"}]
    /\ UNCHANGED <<now, events, erased, orderAt, wish, known>>

\* processBlocker
CheckState(p) ==
    /\ handler[p].step = "state"
    /\ \E state \in States :
          MoveTo(p, IF state = "requested" /\ handler[p].open = {} THEN "stamp" ELSE "done")
    /\ UNCHANGED <<now, events, erased, orderAt, wish, known>>

Erase(p) ==
    /\ handler[p].step = "write"
    /\ erased' = TRUE
    /\ known' = known \cup handler[p].orders
    /\ WriteEvent(p, "processed")
    /\ MoveTo(p, "done")
    /\ UNCHANGED <<now, orderAt, wish>>

-----------------------------------------------------------------------------
(* Orders of the customer, and time.                                          *)

\* a checkout may be under way while the account is erased
PlaceOrder(o) ==
    /\ orderAt[o] = "none"
    /\ orderAt' = [orderAt EXCEPT ![o] = "awaiting_payment"]
    /\ UNCHANGED <<now, events, erased, handler, wish, known>>

MoveOrder(o, to) ==
    /\ orderAt[o] # "none"
    /\ canTransition(orderAt[o], to)
    /\ orderAt' = [orderAt EXCEPT ![o] = to]
    /\ UNCHANGED <<now, events, erased, handler, wish, known>>

ClockAdvances ==
    /\ now < MaxNow
    /\ now' = now + 1
    /\ UNCHANGED <<events, erased, orderAt, handler, wish, known>>

DeletionDies(h) ==
    /\ handler[h].step \notin {"new", "done"}
    /\ MoveTo(h, "done")
    /\ UNCHANGED <<now, events, erased, orderAt, wish, known>>

-----------------------------------------------------------------------------
DeletionNext ==
    \/ \E h \in Asks : Ask(h) \/ WriteRequest(h)
    \/ \E h \in Cancels : Cancel(h) \/ WriteCancel(h)
    \/ \E p \in Erasures : CheckOrders(p) \/ CheckState(p) \/ Erase(p)
    \/ \E h \in Handlers : Stamp(h) \/ DeletionDies(h)
    \/ \E o \in CustomerOrders : PlaceOrder(o) \/ \E to \in OrderStatuses : MoveOrder(o, to)
    \/ ClockAdvances

DeletionSpec == DeletionInit /\ [][DeletionNext]_deletionVars

-----------------------------------------------------------------------------
(* Properties.                                                                *)

\* A cancellation the customer was answered is honoured by every check of the
\* store that begins later: however many requests were sent at once, and though
\* the clock gave several events the same millisecond.
AnsweredCancelIsHonoured ==
    [][\A p \in Erasures :
          (~erased /\ handler[p].step = "state" /\ handler'[p].step = "stamp")
              => wish # "keep"]_deletionVars

\* The orders an erased account had when the store checked are over: nothing
\* happens to them any more.
ErasedOrdersAreOver ==
    [][erased => \A o \in known : orderAt'[o] = orderAt[o]]_deletionVars
=============================================================================
