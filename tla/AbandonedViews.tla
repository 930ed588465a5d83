--------------------------- MODULE AbandonedViews ---------------------------
(* The reminder of a product seen in the app and not bought                   *)
(* (AbandonedViewService, called by the push scheduler): the views of         *)
(* registered devices, and the ticks that decide which of them to push.       *)
(* Times are ages and remaining times, so that the clock needs no bound; a    *)
(* tick may outlast its lease, or its process give it back on exit, hence two *)
(* may be at it at once.                                                      *)

EXTENDS Integers, FiniteSets

CONSTANTS
    Devices, Products,
    Ticks,        \* runs of processDue at one time
    Day,          \* length of a day
    Delay,        \* age at which a view is due
    MaxAge,       \* age after which it is closed without a push
    ProductCap,   \* time between two pushes of one product
    MaxTick,      \* bound on how long a tick lasts
    Batch,        \* rows of a tick
    Mishaps       \* whether ticks die and answers of the push service get lost

ASSUME ViewsAssumption ==
    /\ IsFiniteSet(Devices) /\ IsFiniteSet(Products)
    /\ Day \in Nat \ {0} /\ Delay \in Nat /\ MaxAge \in Nat /\ ProductCap \in Nat
    /\ MaxTick \in 0..Day /\ Batch \in Nat \ {0}
    /\ Delay < MaxAge /\ MaxAge < ProductCap
    /\ Mishaps \in BOOLEAN

Views == Devices \X Products

VARIABLES
    hour,      \* of the day
    view,      \* ProductViewEvent: age of the last visit, whether it is still to
               \* be decided, and for how long it is deferred
    rowAge,    \* age of the newest AbandonedViewPush with status sent, of a view
    rowDay,    \* midnights since that of a device: 0, 1, or 2 for earlier
    tick,      \* runs of processDue
    told,      \* history: pushes of the latest visit that reached the device
    today,     \* history: pushes that reached a device since midnight
    reopened,  \* history: visits reopened by a claim on an earlier one, taken back
    mishap     \* history: a tick met death, midnight, another tick or silence

viewsVars == <<hour, view, rowAge, rowDay, tick, told, today, reopened, mishap>>

NoTick == [step |-> "idle"]
Least(a, b) == IF a < b THEN a ELSE b
Due == {v \in Views : /\ view[v].open
                      /\ view[v].age >= Delay
                      /\ view[v].deferred = 0}

ViewsTypeOK ==
    /\ hour \in 0..(Day - 1)
    /\ view \in [Views -> [age : 0..(MaxAge + 1), open : BOOLEAN, deferred : 0..(ProductCap + Day)]]
    /\ rowAge \in [Views -> 0..(ProductCap + MaxTick)]
    /\ rowDay \in [Devices -> 0..2]
    /\ \A t \in Ticks : tick[t] = NoTick
                        \/ /\ tick[t].step \in {"read", "write", "send", "record"}
                           /\ tick[t].rows \subseteq Views
                           /\ tick[t].ran \in 0..MaxTick
    /\ told \in [Views -> Nat]
    /\ today \in [Devices -> Nat]
    /\ reopened \subseteq Views
    /\ mishap \in BOOLEAN

ViewsInit ==
    /\ hour = 0
    /\ view = [v \in Views |-> [age |-> MaxAge + 1, open |-> FALSE, deferred |-> 0]]
    /\ rowAge = [v \in Views |-> ProductCap + MaxTick]
    /\ rowDay = [d \in Devices |-> 2]
    /\ tick = [t \in Ticks |-> NoTick]
    /\ told = [v \in Views |-> 0]
    /\ today = [d \in Devices |-> 0]
    /\ reopened = {}
    /\ mishap = FALSE

-----------------------------------------------------------------------------
(* record: a visit starts the cycle of its view again.                        *)

RecordView(v) ==
    /\ view[v] # [age |-> 0, open |-> TRUE, deferred |-> 0]
    /\ view' = [view EXCEPT ![v] = [age |-> 0, open |-> TRUE, deferred |-> 0]]
    /\ told' = [told EXCEPT ![v] = 0]
    /\ tick' = [t \in Ticks |-> IF tick[t] = NoTick THEN NoTick
                                ELSE [tick[t] EXCEPT !.slid = @ \cup {v}]]
    /\ reopened' = reopened \ {v}
    /\ UNCHANGED <<hour, rowAge, rowDay, today, mishap>>

-----------------------------------------------------------------------------
(* processDue.                                                                *)

NeverTooOld(v) == FALSE             \* mutant: the age limit is not applied

TooOld(v) == view[v].age > MaxAge

\* the oldest due views, at most Batch; the tick keeps the time of its start.
\* Their ids and then their rows are read; a visit in between slides the row,
\* and the decision compares the visit again.
StartTick(t) ==
    /\ tick[t] = NoTick
    /\ Due # {}
    /\ \E rows \in SUBSET Due :
          /\ Cardinality(rows) = Least(Batch, Cardinality(Due))
          /\ \A v \in rows, w \in Due \ rows : view[v].age >= view[w].age
          /\ tick' = [tick EXCEPT ![t] =
                        [step |-> "read", rows |-> rows, slid |-> {},
                         stale |-> {v \in rows : TooOld(v)},
                         view |-> CHOOSE v \in rows : TRUE, does |-> "close",
                         until |-> 0, ran |-> 0, nights |-> 0]]
    /\ mishap' = (mishap \/ \E u \in Ticks : tick[u] # NoTick)
    /\ UNCHANGED <<hour, view, rowAge, rowDay, told, today, reopened>>

\* withinProductCap and withinDeviceDayCap at the tick's start
InProductCap(t, v) == rowAge[v] - tick[t].ran < ProductCap
DayCapPerProduct(t, v) == rowAge[v] <= hour     \* mutant: counts one product only

InDayCap(t, v) == rowDay[v[1]] = tick[t].nights

UntilMidnight(t) == IF tick[t].nights = 0 THEN Day - hour ELSE 0

\* decideAbandonedView.  A product may be bought, sold out or withdrawn and a
\* device switched off; where push credentials are missing the row is skipped.
Read(t, v) ==
    LET decide(does, until) ==
            tick' = [tick EXCEPT ![t].step = "write", ![t].view = v,
                                 ![t].does = does, ![t].until = until]
    IN  /\ tick[t].step = "read"
        /\ v \in tick[t].rows
        /\ \/ decide("close", 0)
           \/ /\ v \notin tick[t].stale
              /\ InProductCap(t, v)
              /\ decide("defer", IF rowAge[v] < ProductCap THEN ProductCap - rowAge[v] ELSE 0)
           \/ /\ v \notin tick[t].stale
              /\ ~InProductCap(t, v)
              /\ InDayCap(t, v)
              /\ decide("defer", UntilMidnight(t))
           \/ /\ v \notin tick[t].stale
              /\ ~InProductCap(t, v)
              /\ ~InDayCap(t, v)
              /\ \/ decide("claim", 0)
                 \/ tick' = [tick EXCEPT ![t].rows = @ \ {v}]
        /\ UNCHANGED <<hour, view, rowAge, rowDay, told, today, reopened, mishap>>

Proceed(t, v) == [tick EXCEPT ![t].step = "read", ![t].rows = @ \ {v},
                              ![t].does = "close", ![t].until = 0]

\* closeView and deferView: only if the visit is still the one that was read and
\* nobody decided it
HoldsForVisit(t, v) ==              \* mutant: no WHERE on the decision
    v \notin tick[t].slid

Holds(t, v) == v \notin tick[t].slid /\ view[v].open

WriteDecision(t) ==
    LET v == tick[t].view
        holds == Holds(t, v)
    IN  /\ tick[t].step = "write"
        /\ view' = IF ~holds THEN view
                   ELSE IF tick[t].does = "defer"
                        THEN [view EXCEPT ![v].deferred = tick[t].until]
                        ELSE [view EXCEPT ![v].open = FALSE]
        /\ tick' = IF holds /\ tick[t].does = "claim"
                     THEN [tick EXCEPT ![t].step = "send"]
                     ELSE Proceed(t, v)
        /\ UNCHANGED <<hour, rowAge, rowDay, told, today, reopened, mishap>>

Deliver(t, v) ==
    /\ told' = IF v \in tick[t].slid THEN told ELSE [told EXCEPT ![v] = @ + 1]
    /\ today' = [today EXCEPT ![v[1]] = @ + 1]

\* sendToTokens, and the row of a failed push.  While another caller of this
\* process initialises the push client it says it is not configured: the claim
\* is taken back and the tick ends.
Send(t) ==
    LET v == tick[t].view
    IN  /\ tick[t].step = "send"
        /\ \/ /\ Deliver(t, v)
              /\ tick' = [tick EXCEPT ![t].step = "record"]
              /\ UNCHANGED <<view, reopened, mishap>>
           \/ /\ Mishaps
              /\ Deliver(t, v)
              /\ mishap' = TRUE
              /\ tick' = Proceed(t, v)
              /\ UNCHANGED <<view, reopened>>
           \/ /\ tick' = Proceed(t, v)
              /\ UNCHANGED <<view, told, today, reopened, mishap>>
           \/ /\ view' = [view EXCEPT ![v].open = TRUE]
              /\ reopened' = reopened \cup ({v} \cap tick[t].slid)
              /\ tick' = [tick EXCEPT ![t] = NoTick]
              /\ UNCHANGED <<told, today, mishap>>
        /\ UNCHANGED <<hour, rowAge, rowDay>>

RecordPush(t) ==
    LET v == tick[t].view
    IN  /\ tick[t].step = "record"
        /\ rowAge' = [rowAge EXCEPT ![v] = 0]
        /\ rowDay' = [rowDay EXCEPT ![v[1]] = 0]
        /\ tick' = Proceed(t, v)
        /\ UNCHANGED <<hour, view, told, today, reopened, mishap>>

FinishTick(t) ==
    /\ tick[t].step = "read"
    /\ tick[t].rows = {}
    /\ tick' = [tick EXCEPT ![t] = NoTick]
    /\ UNCHANGED <<hour, view, rowAge, rowDay, told, today, reopened, mishap>>

TickDies(t) ==
    /\ Mishaps
    /\ tick[t] # NoTick
    /\ ~(tick[t].step = "read" /\ tick[t].rows = {})
    /\ tick' = [tick EXCEPT ![t] = NoTick]
    /\ mishap' = (mishap \/ tick[t].step = "record")
    /\ UNCHANGED <<hour, view, rowAge, rowDay, told, today, reopened>>

-----------------------------------------------------------------------------
Older(n, limit) == IF n < limit THEN n + 1 ELSE n
Sooner(n) == IF n > 0 THEN n - 1 ELSE 0

HourPasses ==
    LET midnight == hour = Day - 1
    IN  /\ \A t \in Ticks : tick[t] # NoTick => tick[t].ran < MaxTick
        /\ hour' = (hour + 1) % Day
        /\ view' = [v \in Views |-> [view[v] EXCEPT !.age = Older(@, MaxAge + 1),
                                                    !.deferred = Sooner(@)]]
        /\ rowAge' = [v \in Views |-> Older(rowAge[v], ProductCap + MaxTick)]
        /\ tick' = [t \in Ticks |->
                      IF tick[t] = NoTick THEN NoTick
                      ELSE [tick[t] EXCEPT !.ran = @ + 1, !.until = Sooner(@),
                                           !.nights = IF midnight THEN @ + 1 ELSE @]]
        /\ IF midnight
             THEN /\ rowDay' = [d \in Devices |-> Older(rowDay[d], 2)]
                  /\ today' = [d \in Devices |-> 0]
                  /\ mishap' = (mishap \/ \E t \in Ticks : tick[t] # NoTick)
             ELSE UNCHANGED <<rowDay, today, mishap>>
        /\ UNCHANGED <<told, reopened>>

ViewsNext ==
    \/ \E v \in Views : RecordView(v)
    \/ \E t \in Ticks : \/ StartTick(t) \/ (\E v \in Views : Read(t, v))
                        \/ WriteDecision(t) \/ Send(t) \/ RecordPush(t)
                        \/ FinishTick(t) \/ TickDies(t)
    \/ HourPasses

ViewsSpec == ViewsInit /\ [][ViewsNext]_viewsVars

-----------------------------------------------------------------------------
(* Properties.                                                                *)

\* A visit is followed by one push at most, even when ticks die between the
\* claim and the push, or two of them run at once; unless one of the two, late,
\* takes its claim on an earlier visit back.
OnePushPerVisit == \A v \in Views \ reopened : told[v] <= 1

\* The limit of one push a day holds as long as no tick dies with a push it has
\* not recorded, loses an answer, meets another tick or runs into midnight.
DayLimitKept == ~mishap => \A d \in Devices : today[d] <= 1

\* A visit is decided in the end, unless the product is visited again: the
\* limits defer it, and past its age it is closed.  Ticks that die, or that give
\* their claim back, put that off but may not do so for ever.
VisitsAreDecided ==
    <>[][\A t \in Ticks : ~TickDies(t)]_viewsVars
        => \A v \in Views : view[v].open ~> (~view[v].open \/ view[v].age = 0)

ViewsFairness ==
    /\ WF_viewsVars(HourPasses)
    /\ \A t \in Ticks :
          /\ WF_viewsVars(StartTick(t))
          /\ WF_viewsVars((\E v \in Views : Read(t, v)) \/ WriteDecision(t) \/ Send(t)
                            \/ RecordPush(t) \/ FinishTick(t))
=============================================================================
