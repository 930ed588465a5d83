----------------------------- MODULE JobsProofs -----------------------------
(* Proofs about the parts that run beside the orders: the scheduler's lease,   *)
(* the keyed mutex and the reminders of products seen.                         *)
EXTENDS SchedulerLease, KeyedMutex, AbandonedViews, FiniteSetTheorems, TLAPS

(***************************************************************************)
(* For any number of replicas, any length of the lease, any error of the   *)
(* clocks below it and any time a process is given to exit, a job runs     *)
(* twice at once only after one of the two has outlasted its lease, or     *)
(* because one is exiting and the other began since.                       *)
(*                                                                         *)
(* What makes it true: as long as a tick is within its time, and its       *)
(* process not asked to exit, the row is its own, and what is left of the  *)
(* row and what the tick has run add up.  A tick that begins beside        *)
(* another one thus began after the other's process was asked to exit,     *)
(* and from then on both clocks go on alike.                               *)
(***************************************************************************)

WithinLease(r) == phase[r] = "working" /\ ran[r] < Ttl - ClockError

RowIsOurs ==
    \A r \in Replicas :
        WithinLease(r) /\ closing[r] = Up => holder = r /\ left + ran[r] >= Ttl - ClockError

OneHandedOver ==
    \A r, s \in Replicas :
        WithinLease(r) /\ WithinLease(s) /\ r # s => HandedOver(r, s) \/ HandedOver(s, r)

\* The strengthening.
LeaseInv == LeaseTypeOK /\ RowIsOurs /\ OneHandedOver

----------------------------------------------------------------------------
LEMMA LeaseInitInv == LeaseInit => LeaseInv
BY LeaseAssumption
   DEF LeaseInit, LeaseInv, LeaseTypeOK, RowIsOurs, OneHandedOver, WithinLease, Up

\* A step that starts no tick and only asks processes to exit, or ends them.
LEMMA LessWork ==
    ASSUME LeaseInv, UNCHANGED left,
           \A s \in Replicas : WithinLease(s)' =>
              /\ WithinLease(s) /\ ran'[s] = ran[s]
              /\ closing'[s] = closing[s] \/ (closing[s] = Up /\ closing'[s] # Up)
              /\ (closing'[s] = Up /\ holder = s) => holder' = s
    PROVE  RowIsOurs' /\ OneHandedOver'
<1>1. RowIsOurs'
    BY DEF LeaseInv, RowIsOurs
<1>2. OneHandedOver'
    BY DEF LeaseInv, OneHandedOver, HandedOver
<1>. QED
    BY <1>1, <1>2

LEMMA AcquireKeeps ==
    ASSUME LeaseInv, NEW r \in Replicas, TryAcquire(r)
    PROVE  LeaseInv'
<1>. USE LeaseAssumption DEF LeaseInv, LeaseTypeOK, TryAcquire, Up
<1>1. PICK e \in -ClockError..ClockError : left' = Ttl + e
    OBVIOUS
<1>2. left' \in 0..(Ttl + ClockError) /\ left' >= Ttl - ClockError
    BY <1>1
<1>3. LeaseTypeOK'
    BY <1>2
\* Whoever is within a lease beside the new tick was asked to exit.
<1>4. \A s \in Replicas : WithinLease(s) /\ s # r => closing[s] # Up
    <2>. SUFFICES ASSUME NEW s \in Replicas, WithinLease(s), s # r, closing[s] = Up
                  PROVE  FALSE
        OBVIOUS
    <2>1. holder = s /\ left > 0
        BY DEF WithinLease, RowIsOurs
    <2>. QED
        BY <2>1 DEF Free
<1>5. /\ ran'[r] = 0 /\ UNCHANGED closing /\ holder' = r
      /\ \A s \in Replicas \ {r} : UNCHANGED <<ran[s], phase[s]>>
    OBVIOUS
<1>6. \A s \in Replicas : WithinLease(s)' => s = r \/ WithinLease(s)
    BY <1>5 DEF WithinLease
<1>7. RowIsOurs'
    BY <1>2, <1>4, <1>5, <1>6 DEF RowIsOurs
<1>8. \A s \in Replicas \ {r} : WithinLease(s)' => HandedOver(s, r)'
    BY <1>4, <1>5, <1>6 DEF HandedOver
<1>9. OneHandedOver'
    BY <1>5, <1>6, <1>8 DEF OneHandedOver, HandedOver
<1>. QED
    BY <1>3, <1>7, <1>9

LEMMA EndKeeps ==
    ASSUME LeaseInv, NEW r \in Replicas, EndTick(r)
    PROVE  LeaseInv'
<1>. USE LeaseAssumption DEF LeaseInv, LeaseTypeOK, EndTick, Rested
<1>1. LeaseTypeOK'
    OBVIOUS
<1>2. \A s \in Replicas : WithinLease(s)' => s # r
    BY DEF WithinLease
<1>. QED
    BY <1>1, <1>2, LessWork DEF WithinLease

LEMMA ShutdownKeeps ==
    ASSUME LeaseInv, NEW r \in Replicas, Shutdown(r)
    PROVE  LeaseInv'
<1>. USE LeaseAssumption DEF LeaseInv, LeaseTypeOK, Shutdown, Up
<1>1. LeaseTypeOK'
    OBVIOUS
<1>2. closing'[r] = 0 /\ \A s \in Replicas \ {r} : UNCHANGED <<closing[s], phase[s]>>
    OBVIOUS
<1>. QED
    BY <1>1, <1>2, LessWork DEF WithinLease

LEMMA CrashKeeps ==
    ASSUME LeaseInv, NEW r \in Replicas, Crash(r) \/ Restart(r)
    PROVE  LeaseInv'
<1>. USE LeaseAssumption DEF LeaseInv, LeaseTypeOK, Crash, Restart, Up
<1>1. LeaseTypeOK'
    OBVIOUS
<1>2. \A s \in Replicas : WithinLease(s)' => s # r
    BY DEF WithinLease
<1>. QED
    BY <1>1, <1>2, LessWork DEF WithinLease

LEMMA ElapseKeeps ==
    ASSUME LeaseInv, Elapse
    PROVE  LeaseInv'
<1>. USE LeaseAssumption DEF LeaseInv, LeaseTypeOK, Elapse, Up
<1>1. LeaseTypeOK'
    OBVIOUS
<1>2. ASSUME NEW s \in Replicas, WithinLease(s)'
      PROVE  WithinLease(s) /\ ran'[s] = ran[s] + 1
    BY <1>2 DEF WithinLease
<1>3. \A s \in Replicas : closing'[s] = IF closing[s] = Up THEN Up ELSE closing[s] + 1
    OBVIOUS
<1>4. RowIsOurs'
    <2>. SUFFICES ASSUME NEW s \in Replicas, WithinLease(s)', closing'[s] = Up
                  PROVE  holder' = s /\ left' + ran'[s] >= Ttl - ClockError
        BY DEF RowIsOurs
    <2>1. WithinLease(s) /\ ran'[s] = ran[s] + 1 /\ closing[s] = Up
        BY <1>2, <1>3
    <2>2. holder = s /\ left > 0 /\ left + ran[s] >= Ttl - ClockError
        BY <2>1 DEF WithinLease, RowIsOurs
    <2>. QED
        BY <2>1, <2>2
<1>5. OneHandedOver'
    BY <1>2, <1>3 DEF OneHandedOver, HandedOver
<1>. QED
    BY <1>1, <1>4, <1>5

LEMMA LeaseStep == LeaseInv /\ [LeaseNext]_leaseVars => LeaseInv'
<1>. SUFFICES ASSUME LeaseInv, [LeaseNext]_leaseVars PROVE LeaseInv'
    OBVIOUS
<1>1. CASE LeaseNext
    BY <1>1, AcquireKeeps, EndKeeps, ShutdownKeeps, CrashKeeps, ElapseKeeps DEF LeaseNext
<1>2. CASE UNCHANGED leaseVars
    BY <1>2 DEF leaseVars, LeaseInv, LeaseTypeOK, RowIsOurs, OneHandedOver, HandedOver, WithinLease
<1>. QED
    BY <1>1, <1>2

LEMMA LeaseInvariant == LeaseSpec => []LeaseInv
BY LeaseInitInv, LeaseStep, PTL DEF LeaseSpec

----------------------------------------------------------------------------
\* The row and the ticks keep their types.
THEOREM LeaseTypeCorrect == LeaseSpec => []LeaseTypeOK
<1>1. LeaseInv => LeaseTypeOK
    BY DEF LeaseInv
<1>. QED
    BY <1>1, LeaseInvariant, PTL

\* Two replicas run the job at once only if one of them has outlasted its lease,
\* or was asked to exit before the other began.
THEOREM OneTickPerLease == LeaseSpec => []OverlapNeedsOverrunOrShutdown
<1>1. LeaseInv => OverlapNeedsOverrunOrShutdown
    BY LeaseAssumption
       DEF LeaseInv, LeaseTypeOK, OneHandedOver, WithinLease, Overran, OverlapNeedsOverrunOrShutdown
<1>. QED
    BY <1>1, LeaseInvariant, PTL

-----------------------------------------------------------------------------
(***************************************************************************)
(* For any number of calls and keys, the calls of a key run one at a time  *)
(* and in turn, and the map holds an entry exactly for the keys in use.    *)
(*                                                                         *)
(* What makes it true: the tail of a key stands for all its calls, because *)
(* every call that is not the tail came before it; so waiting for the tail *)
(* is waiting for all of them.                                             *)
(***************************************************************************)

Started(c) == stage[c] # "new"

\* The entry of a key is the last of its calls, and is still at work.
TailIsLast ==
    \A k \in MutexKeys :
        IF tails[k] = Nobody
          THEN \A c \in Calls : (Started(c) /\ key[c] = k) => stage[c] = "done"
          ELSE /\ stage[tails[k]] \in {"waiting", "running"}
               /\ key[tails[k]] = k
               /\ \A c \in Calls : (Started(c) /\ key[c] = k)
                                        => c = tails[k] \/ c \in before[tails[k]]

\* What a call waits for is the last of those that came before it.
PrevIsLast ==
    \A c \in Calls :
        stage[c] = "waiting" =>
            IF prev[c] = Nobody
              THEN \A d \in before[c] : stage[d] = "done"
              ELSE /\ Started(prev[c])
                   /\ \A d \in before[c] : d = prev[c] \/ d \in before[prev[c]]

\* Two calls of a key know which of them came first.
Ordered ==
    /\ \A c \in Calls : Started(c) => key[c] \in MutexKeys
    /\ \A c \in Calls, d \in Calls :
          (Started(c) /\ Started(d) /\ key[c] = key[d] /\ c # d)
              => c \in before[d] \/ d \in before[c]

\* The strengthening.
MutexInv == MutexTypeOK /\ TailIsLast /\ PrevIsLast /\ Ordered /\ RunsInTurn
                /\ \A c \in Calls : \A d \in before[c] : Started(d)

----------------------------------------------------------------------------
LEMMA MutexInitInv == MutexInit => MutexInv
BY MutexAssumption
   DEF MutexInit, MutexInv, MutexTypeOK, TailIsLast, PrevIsLast, Ordered, RunsInTurn, Started

LEMMA EnterKeeps ==
    ASSUME MutexInv, NEW c \in Calls, NEW k \in MutexKeys, Enter(c, k)
    PROVE  MutexInv'
<1>. USE MutexAssumption DEF MutexInv, MutexTypeOK, Enter, Started
<1>1. MutexTypeOK'
    BY DEF CallsOf
<1>2. before'[c] = CallsOf(k) /\ prev'[c] = tails[k] /\ key'[c] = k /\ stage'[c] = "waiting"
      /\ tails'[k] = c
    OBVIOUS
<1>3. \A d \in Calls \ {c} : /\ before'[d] = before[d] /\ prev'[d] = prev[d]
                             /\ key'[d] = key[d] /\ stage'[d] = stage[d]
    OBVIOUS
<1>4. \A j \in MutexKeys \ {k} : tails'[j] = tails[j]
    OBVIOUS
<1>5. \A d \in Calls : d # c => c \notin before[d]
    OBVIOUS
<1>6. \A d \in CallsOf(k) : d \in Calls /\ d # c /\ stage[d] # "new" /\ key[d] = k
    BY DEF CallsOf
<1>7. TailIsLast'
    <2>. SUFFICES ASSUME NEW j \in MutexKeys
                  PROVE  IF tails'[j] = Nobody
                          THEN \A d \in Calls : (stage'[d] # "new" /\ key'[d] = j) => stage'[d] = "done"
                          ELSE /\ stage'[tails'[j]] \in {"waiting", "running"}
                               /\ key'[tails'[j]] = j
                               /\ \A d \in Calls : (stage'[d] # "new" /\ key'[d] = j)
                                        => d = tails'[j] \/ d \in before'[tails'[j]]
        BY DEF TailIsLast
    <2>1. CASE j = k
        BY <2>1, <1>2, <1>3 DEF CallsOf
    <2>2. CASE j # k
        BY <2>2, <1>2, <1>3, <1>4 DEF TailIsLast
    <2>. QED
        BY <2>1, <2>2
<1>8. PrevIsLast'
    <2>. SUFFICES ASSUME NEW d \in Calls, stage'[d] = "waiting"
                  PROVE  IF prev'[d] = Nobody
                          THEN \A x \in before'[d] : stage'[x] = "done"
                          ELSE /\ stage'[prev'[d]] # "new"
                               /\ \A x \in before'[d] : x = prev'[d] \/ x \in before'[prev'[d]]
        BY DEF PrevIsLast
    <2>1. CASE d = c
        BY <2>1, <1>2, <1>3, <1>6 DEF TailIsLast
    <2>2. CASE d # c
        <3>1. \A x \in before[d] : x # c
            BY <2>2, <1>5
        <3>2. prev[d] # c
            BY <2>2, <1>3 DEF PrevIsLast
        <3>. QED
            BY <2>2, <3>1, <3>2, <1>3 DEF PrevIsLast
    <2>. QED
        BY <2>1, <2>2
<1>9. Ordered'
    <2>1. \A d \in Calls : stage'[d] # "new" => key'[d] \in MutexKeys
        BY <1>2, <1>3 DEF Ordered
    <2>2. \A x, y \in Calls : (stage'[x] # "new" /\ stage'[y] # "new" /\ key'[x] = key'[y] /\ x # y)
              => x \in before'[y] \/ y \in before'[x]
        BY <1>2, <1>3 DEF Ordered, CallsOf
    <2>. QED
        BY <2>1, <2>2 DEF Ordered
<1>10. RunsInTurn'
    BY <1>2, <1>3, <1>5 DEF RunsInTurn
<1>11. \A d \in Calls : \A x \in before'[d] : stage'[x] # "new"
    BY <1>2, <1>3, <1>5, <1>6
<1>. QED
    BY <1>1, <1>7, <1>8, <1>9, <1>10, <1>11

LEMMA BeginKeeps ==
    ASSUME MutexInv, NEW c \in Calls, Begin(c)
    PROVE  MutexInv'
<1>. USE MutexAssumption DEF MutexInv, MutexTypeOK, Begin, Started
<1>1. MutexTypeOK'
    OBVIOUS
<1>2. \A d \in before[c] : stage[d] = "done"
    BY DEF Resolved, PrevIsLast, RunsInTurn
<1>3. stage'[c] = "running" /\ \A d \in Calls \ {c} : stage'[d] = stage[d]
    OBVIOUS
<1>4. \A d \in Calls : stage[d] = "done" => stage'[d] = "done"
    BY <1>3
<1>5. TailIsLast'
    BY <1>3 DEF TailIsLast
<1>6. PrevIsLast'
    BY <1>3, <1>4 DEF PrevIsLast
<1>7. Ordered'
    BY <1>3 DEF Ordered
<1>8. RunsInTurn'
    BY <1>2, <1>3, <1>4 DEF RunsInTurn
<1>. QED
    BY <1>1, <1>3, <1>5, <1>6, <1>7, <1>8

LEMMA FinishKeeps ==
    ASSUME MutexInv, NEW c \in Calls, Finish(c)
    PROVE  MutexInv'
<1>. USE MutexAssumption DEF MutexInv, MutexTypeOK, Finish, Started
<1>1. MutexTypeOK'
    OBVIOUS
<1>2. stage'[c] = "done" /\ \A d \in Calls \ {c} : stage'[d] = stage[d]
    OBVIOUS
<1>3. \A d \in before[c] : stage[d] = "done"
    BY DEF RunsInTurn
<1>4. \A d \in Calls : stage[d] = "done" => stage'[d] = "done"
    BY <1>2
<1>5. TailIsLast'
    <2>. SUFFICES ASSUME NEW k \in MutexKeys
                  PROVE  IF tails'[k] = Nobody
                          THEN \A d \in Calls : (stage'[d] # "new" /\ key[d] = k) => stage'[d] = "done"
                          ELSE /\ stage'[tails'[k]] \in {"waiting", "running"}
                               /\ key[tails'[k]] = k
                               /\ \A d \in Calls : (stage'[d] # "new" /\ key[d] = k)
                                        => d = tails'[k] \/ d \in before[tails'[k]]
        BY DEF TailIsLast
    <2>0. key[c] \in MutexKeys
        BY DEF Ordered
    <2>1. CASE tails[k] = c
        <3>1. key[c] = k
            BY <2>1 DEF TailIsLast
        <3>2. tails'[k] = Nobody
            BY <2>1, <3>1, <2>0
        <3>. QED
            BY <2>1, <3>1, <3>2, <1>2, <1>3 DEF TailIsLast
    <2>2. CASE tails[k] # c
        <3>1. tails'[k] = tails[k]
            BY <2>2, <2>0
        <3>. QED
            BY <2>2, <3>1, <1>2, <1>4 DEF TailIsLast
    <2>. QED
        BY <2>1, <2>2
<1>6. PrevIsLast'
    BY <1>2, <1>4 DEF PrevIsLast
<1>7. Ordered'
    BY <1>2 DEF Ordered
<1>8. RunsInTurn'
    BY <1>2, <1>3, <1>4 DEF RunsInTurn
<1>. QED
    BY <1>1, <1>2, <1>5, <1>6, <1>7, <1>8

LEMMA MutexStep == MutexInv /\ [MutexNext]_mutexVars => MutexInv'
<1>. SUFFICES ASSUME MutexInv, [MutexNext]_mutexVars PROVE MutexInv'
    OBVIOUS
<1>1. CASE MutexNext
    BY <1>1, EnterKeeps, BeginKeeps, FinishKeeps DEF MutexNext
<1>2. CASE UNCHANGED mutexVars
    BY <1>2 DEF mutexVars, MutexInv, MutexTypeOK, TailIsLast, PrevIsLast, Ordered, RunsInTurn, Started
<1>. QED
    BY <1>1, <1>2

LEMMA MutexInvariant == MutexSpec => []MutexInv
BY MutexInitInv, MutexStep, PTL DEF MutexSpec

----------------------------------------------------------------------------
\* The map and the calls keep their types.
THEOREM MutexTypeCorrect == MutexSpec => []MutexTypeOK
<1>1. MutexInv => MutexTypeOK
    BY DEF MutexInv
<1>. QED
    BY <1>1, MutexInvariant, PTL

\* Calls of a key run in their order of arrival.
THEOREM InTurn == MutexSpec => []RunsInTurn
<1>1. MutexInv => RunsInTurn
    BY DEF MutexInv
<1>. QED
    BY <1>1, MutexInvariant, PTL

\* No two calls of a key are inside the work they guard.
THEOREM Exclusive == MutexSpec => []MutualExclusion
<1>1. MutexInv => MutualExclusion
    BY DEF MutexInv, MutexTypeOK, MutualExclusion, Ordered, RunsInTurn, Started
<1>. QED
    BY <1>1, MutexInvariant, PTL

\* The map has an entry exactly for the keys with a call that is not done.
THEOREM NoLeak == MutexSpec => []MapDoesNotLeak
<1>1. MutexInv => MapDoesNotLeak
    BY MutexAssumption DEF MutexInv, MutexTypeOK, MapDoesNotLeak, TailIsLast, CallsOf, Started
<1>. QED
    BY <1>1, MutexInvariant, PTL

-----------------------------------------------------------------------------
(***************************************************************************)
(* For any number of devices, products and ticks: one push per visit, and  *)
(* one push a day as long as no tick meets a mishap.                       *)
(*                                                                         *)
(* What makes it true: a visit is open, or claimed by one tick, or told,   *)
(* and never two of these; and a push of today is a row of today, or one   *)
(* that the only tick is about to record.                                  *)
(***************************************************************************)

TickRows == [step : {"read", "write", "send", "record"}, rows : SUBSET Views, slid : SUBSET Views,
             stale : SUBSET Views, view : Views, does : {"close", "defer", "claim"},
             until : 0..(ProductCap + Day), ran : 0..MaxTick, nights : Nat]
ViewRows == [age : 0..(MaxAge + 1), open : BOOLEAN, deferred : 0..(ProductCap + Day)]

Busy(t) == tick[t] # NoTick
Claims(t, v) == tick[t].step = "send" /\ tick[t].view = v /\ v \notin tick[t].slid

\* A visit is open, or claimed once, or told.
OneClaim ==
    \A v \in Views \ reopened :
        /\ told[v] <= 1
        /\ told[v] = 1 => ~view[v].open /\ \A t \in Ticks : ~Claims(t, v)
        /\ view[v].open => \A t \in Ticks : ~Claims(t, v)
        /\ \A t, u \in Ticks : Claims(t, v) /\ Claims(u, v) => t = u

\* Tick t is about to push to the device of its view.
Pushes(t) == (tick[t].step = "write" /\ tick[t].does = "claim") \/ tick[t].step = "send"

\* One tick at a time, and what it pushed today has a row or will have it.
OneADay ==
    ~mishap =>
        /\ \A t, u \in Ticks : Busy(t) /\ Busy(u) => t = u
        /\ \A t \in Ticks : Busy(t) => tick[t].nights = 0
        /\ \A t \in Ticks : Pushes(t) => rowDay[tick[t].view[1]] # 0
        /\ \A d \in Devices : today[d] <= 1
        /\ \A d \in Devices :
              today[d] # 0 => \/ rowDay[d] = 0
                              \/ \E t \in Ticks : tick[t].step = "record" /\ tick[t].view[1] = d

ViewsTypes ==
    /\ hour \in 0..(Day - 1)
    /\ view \in [Views -> ViewRows]
    /\ rowAge \in [Views -> 0..(ProductCap + MaxTick)]
    /\ rowDay \in [Devices -> 0..2]
    /\ tick \in [Ticks -> TickRows \cup {NoTick}]
    /\ told \in [Views -> Nat]
    /\ today \in [Devices -> Nat]
    /\ reopened \subseteq Views
    /\ mishap \in BOOLEAN

ViewsInv == ViewsTypes /\ OneClaim /\ OneADay

LEMMA TickFields ==
    ASSUME NEW row \in TickRows
    PROVE  /\ row # NoTick /\ row.step \in {"read", "write", "send", "record"}
           /\ row.rows \in SUBSET Views /\ row.slid \in SUBSET Views /\ row.stale \in SUBSET Views
           /\ row.view \in Views /\ row.does \in {"close", "defer", "claim"}
           /\ row.until \in 0..(ProductCap + Day) /\ row.ran \in 0..MaxTick /\ row.nights \in Nat
<1>1. row.step \in {"read", "write", "send", "record"} /\ NoTick.step = "idle"
    BY DEF TickRows, NoTick
<1>. QED
    BY <1>1 DEF TickRows

LEMMA NoTickFields == NoTick.step = "idle"
BY DEF NoTick

LEMMA AtWorkRow ==
    ASSUME ViewsTypes, NEW t \in Ticks
    PROVE  /\ tick[t] \in TickRows \/ tick[t] = NoTick
           /\ Busy(t) => tick[t] \in TickRows
           /\ tick[t].step # "idle" => Busy(t)
           /\ \A v : Claims(t, v) => Busy(t)
           /\ Pushes(t) => Busy(t)
BY NoTickFields DEF ViewsTypes, Busy, Claims, Pushes

LEMMA Devicesof == \A v \in Views : v[1] \in Devices
BY DEF Views

\* One tick writes its row.
TickWrites(t, row) ==
    /\ tick' \in [Ticks -> TickRows \cup {NoTick}]
    /\ tick'[t] = row
    /\ \A u \in Ticks \ {t} : tick'[u] = tick[u]

LEMMA TickPut ==
    ASSUME ViewsTypes, NEW t \in Ticks, NEW row \in TickRows \cup {NoTick},
           tick' = [tick EXCEPT ![t] = row]
    PROVE  TickWrites(t, row)
BY DEF ViewsTypes, TickWrites

LEMMA ProceedPut ==
    ASSUME ViewsTypes, NEW t \in Ticks, Busy(t), NEW v, tick' = Proceed(t, v)
    PROVE  \E row \in TickRows :
              /\ TickWrites(t, row) /\ row.step = "read" /\ row.nights = tick[t].nights
<1>1. PICK old \in TickRows : old = tick[t]
    BY AtWorkRow
<1>2. PICK row : row = [old EXCEPT !.step = "read", !.rows = @ \ {v}, !.does = "close", !.until = 0]
    OBVIOUS
<1>3. 0 \in 0..(ProductCap + Day)
    BY ViewsAssumption
<1>4. row \in TickRows /\ row.step = "read" /\ row.nights = old.nights
    BY <1>2, <1>3 DEF TickRows
<1>5. tick' = [tick EXCEPT ![t] = row]
    BY <1>1, <1>2 DEF Proceed
<1>. QED
    BY <1>1, <1>4, <1>5, TickPut

\* Claims only go away, and views only close.
LEMMA FewerClaims ==
    ASSUME OneClaim, UNCHANGED <<told, reopened>>,
           \A v \in Views : view'[v].open => view[v].open,
           \A t \in Ticks : \A v \in Views : Claims(t, v)' => Claims(t, v)
    PROVE  OneClaim'
BY DEF OneClaim

\* A tick that has no claim any more.
LEMMA OtherClaims ==
    ASSUME NEW t \in Ticks, NEW row, TickWrites(t, row), row.step # "send"
    PROVE  /\ \A v : ~Claims(t, v)'
           /\ \A u \in Ticks : \A v : Claims(u, v)' => u # t /\ Claims(u, v)
BY DEF TickWrites, Claims

\* With one tick at most, and no push but its own, the day's limit stays.
LEMMA DayKept ==
    ASSUME ViewsTypes, OneADay, NEW t \in Ticks, NEW row, TickWrites(t, row),
           ~mishap' => ~mishap,
           ~mishap' => \A u \in Ticks \ {t} : ~Busy(u),
           ~mishap' => (row # NoTick => row.nights = 0),
           ~mishap' => (Pushes(t)' => rowDay'[row.view[1]] # 0),
           ~mishap' => \A d \in Devices : today'[d] <= 1,
           ~mishap' => \A d \in Devices :
               today'[d] # 0 => rowDay'[d] = 0 \/ (row.step = "record" /\ row.view[1] = d)
    PROVE  OneADay'
<1>. SUFFICES ASSUME ~mishap'
              PROVE  /\ \A s, u \in Ticks : Busy(s)' /\ Busy(u)' => s = u
                     /\ \A u \in Ticks : Busy(u)' => tick'[u].nights = 0
                     /\ \A u \in Ticks : Pushes(u)' => rowDay'[tick'[u].view[1]] # 0
                     /\ \A d \in Devices : today'[d] <= 1
                     /\ \A d \in Devices :
                           today'[d] # 0 => \/ rowDay'[d] = 0
                                            \/ \E u \in Ticks : tick'[u].step = "record" /\ tick'[u].view[1] = d
    BY DEF OneADay
<1>1. \A u \in Ticks \ {t} : ~Busy(u)' /\ ~Pushes(u)' /\ tick'[u] = NoTick
    BY NoTickFields DEF TickWrites, Busy, Pushes
<1>2. tick'[t] = row
    BY DEF TickWrites
<1>3. \A s, u \in Ticks : Busy(s)' /\ Busy(u)' => s = u
    BY <1>1
<1>4. \A u \in Ticks : Busy(u)' => tick'[u].nights = 0
    BY <1>1, <1>2 DEF Busy
<1>5. \A u \in Ticks : Pushes(u)' => rowDay'[tick'[u].view[1]] # 0
    BY <1>1, <1>2
<1>6. \A d \in Devices :
          today'[d] # 0 => \/ rowDay'[d] = 0
                           \/ \E u \in Ticks : tick'[u].step = "record" /\ tick'[u].view[1] = d
    BY <1>2
<1>. QED
    BY <1>3, <1>4, <1>5, <1>6

\* The only tick at work.
LEMMA OnlyTick ==
    ASSUME ViewsTypes, OneADay, ~mishap, NEW t \in Ticks, Busy(t)
    PROVE  /\ \A u \in Ticks \ {t} : ~Busy(u)
           /\ tick[t].nights = 0
           /\ Pushes(t) => rowDay[tick[t].view[1]] # 0
           /\ \A d \in Devices : today[d] <= 1
           /\ \A d \in Devices :
                 today[d] # 0 => rowDay[d] = 0 \/ (tick[t].step = "record" /\ tick[t].view[1] = d)
<1>1. \A u \in Ticks \ {t} : ~Busy(u)
    BY DEF OneADay
<1>2. \A u \in Ticks \ {t} : tick[u].step # "record"
    BY <1>1, NoTickFields DEF Busy
<1>. QED
    BY <1>1, <1>2 DEF OneADay

LEMMA ViewsInitInv == ViewsInit => ViewsInv
<1>. SUFFICES ASSUME ViewsInit
              PROVE  ViewsInv
    OBVIOUS
<1>1. ViewsTypes
    <2>1. mishap \in BOOLEAN /\ reopened \subseteq Views
        BY DEF ViewsInit
    <2>6. told \in [Views -> Nat]
        BY DEF ViewsInit
    <2>7. today \in [Devices -> Nat]
        BY DEF ViewsInit
    <2>8. rowDay \in [Devices -> 0..2]
        BY DEF ViewsInit
    <2>4. tick \in [Ticks -> TickRows \cup {NoTick}]
        BY DEF ViewsInit
    <2>5. hour \in 0..(Day - 1)
        BY ViewsAssumption DEF ViewsInit
    <2>2. view \in [Views -> ViewRows]
        BY ViewsAssumption DEF ViewsInit, ViewRows
    <2>3. rowAge \in [Views -> 0..(ProductCap + MaxTick)]
        BY ViewsAssumption DEF ViewsInit
    <2>. QED
        BY <2>1, <2>2, <2>3, <2>4, <2>5, <2>6, <2>7, <2>8 DEF ViewsTypes
<1>2. \A t \in Ticks : ~Busy(t) /\ ~Pushes(t) /\ \A v : ~Claims(t, v)
    BY NoTickFields DEF ViewsInit, Busy, Pushes, Claims
<1>3. OneClaim
    BY <1>2 DEF ViewsInit, OneClaim
<1>4. OneADay
    BY <1>2 DEF ViewsInit, OneADay
<1>. QED
    BY <1>1, <1>3, <1>4 DEF ViewsInv

LEMMA VisitKeeps ==
    ASSUME ViewsInv, NEW v \in Views, RecordView(v)
    PROVE  ViewsInv'
<1>1. /\ view' = [view EXCEPT ![v] = [age |-> 0, open |-> TRUE, deferred |-> 0]]
      /\ told' = [told EXCEPT ![v] = 0]
      /\ tick' = [t \in Ticks |-> IF tick[t] = NoTick THEN NoTick
                                  ELSE [tick[t] EXCEPT !.slid = @ \cup {v}]]
      /\ reopened' = reopened \ {v}
      /\ UNCHANGED <<hour, rowAge, rowDay, today, mishap>>
    BY DEF RecordView
<1>2. ViewsTypes
    BY DEF ViewsInv
<1>3. ASSUME NEW t \in Ticks
      PROVE  /\ tick'[t] \in TickRows \cup {NoTick}
             /\ Busy(t)' => Busy(t)
             /\ tick'[t].step = tick[t].step
             /\ Busy(t) => /\ tick'[t].view = tick[t].view /\ tick'[t].does = tick[t].does
                           /\ tick'[t].nights = tick[t].nights
                           /\ tick'[t].slid = tick[t].slid \cup {v}
    <2>1. CASE tick[t] = NoTick
        BY <1>1, <2>1 DEF Busy
    <2>2. CASE tick[t] # NoTick
        <3>1. PICK row \in TickRows : row = tick[t]
            BY <1>2, <2>2, AtWorkRow DEF Busy
        <3>2. tick'[t] = [row EXCEPT !.slid = @ \cup {v}]
            BY <1>1, <2>2, <3>1
        <3>3. [row EXCEPT !.slid = @ \cup {v}] \in TickRows
            BY DEF TickRows
        <3>4. /\ [row EXCEPT !.slid = @ \cup {v}].step = row.step
              /\ [row EXCEPT !.slid = @ \cup {v}].view = row.view
              /\ [row EXCEPT !.slid = @ \cup {v}].does = row.does
              /\ [row EXCEPT !.slid = @ \cup {v}].nights = row.nights
              /\ [row EXCEPT !.slid = @ \cup {v}].slid = row.slid \cup {v}
            BY DEF TickRows
        <3>. QED
            BY <2>2, <3>1, <3>2, <3>3, <3>4 DEF Busy
    <2>. QED
        BY <2>1, <2>2
<1>4. tick' \in [Ticks -> TickRows \cup {NoTick}]
    BY <1>1, <1>3
<1>5. ViewsTypes'
    <2>1. view' \in [Views -> ViewRows]
        BY <1>1, <1>2, ViewsAssumption DEF ViewsTypes, ViewRows
    <2>2. told' \in [Views -> Nat] /\ reopened' \subseteq Views
        BY <1>1, <1>2 DEF ViewsTypes
    <2>. QED
        BY <1>1, <1>2, <1>4, <2>1, <2>2 DEF ViewsTypes
<1>6. \A t \in Ticks : ~Claims(t, v)' /\ \A w \in Views : Claims(t, w)' => Claims(t, w)
    <2>1. SUFFICES ASSUME NEW t \in Ticks, NEW w \in Views, Claims(t, w)'
          PROVE  w # v /\ Claims(t, w)
        BY DEF Views
    <2>2. Busy(t)
        BY <1>2, <1>3, <2>1, AtWorkRow DEF Claims
    <2>. QED
        BY <1>3, <2>1, <2>2 DEF Claims
<1>7. OneClaim'
    <2>1. SUFFICES ASSUME NEW w \in Views, w \notin reopened'
          PROVE  /\ told'[w] <= 1
                 /\ told'[w] = 1 => ~view'[w].open /\ \A t \in Ticks : ~Claims(t, w)'
                 /\ view'[w].open => \A t \in Ticks : ~Claims(t, w)'
                 /\ \A t, u \in Ticks : Claims(t, w)' /\ Claims(u, w)' => t = u
        BY DEF OneClaim
    <2>2. CASE w = v
        BY <1>1, <1>2, <1>6, <2>2 DEF ViewsTypes
    <2>3. CASE w # v
        <3>1. told'[w] = told[w] /\ view'[w] = view[w] /\ w \notin reopened
            BY <1>1, <1>2, <2>1, <2>3 DEF ViewsTypes
        <3>. QED
            BY <1>6, <3>1 DEF ViewsInv, OneClaim
    <2>. QED
        BY <2>2, <2>3
<1>8. OneADay'
    <2>1. \A t \in Ticks : Pushes(t)' => Pushes(t) /\ Busy(t)
        BY <1>2, <1>3, AtWorkRow DEF Pushes
    <2>2. SUFFICES ASSUME ~mishap
          PROVE  /\ \A s, u \in Ticks : Busy(s)' /\ Busy(u)' => s = u
                 /\ \A u \in Ticks : Busy(u)' => tick'[u].nights = 0
                 /\ \A u \in Ticks : Pushes(u)' => rowDay'[tick'[u].view[1]] # 0
                 /\ \A d \in Devices : today'[d] <= 1
                 /\ \A d \in Devices :
                       today'[d] # 0 => \/ rowDay'[d] = 0
                                        \/ \E u \in Ticks : tick'[u].step = "record" /\ tick'[u].view[1] = d
        BY <1>1 DEF OneADay
    <2>3. \A s, u \in Ticks : Busy(s)' /\ Busy(u)' => s = u
        BY <1>3, <2>2 DEF ViewsInv, OneADay
    <2>4. \A u \in Ticks : Busy(u)' => tick'[u].nights = 0
        BY <1>3, <2>2 DEF ViewsInv, OneADay
    <2>5. \A u \in Ticks : Pushes(u)' => rowDay'[tick'[u].view[1]] # 0
        BY <1>1, <1>3, <2>1, <2>2 DEF ViewsInv, OneADay
    <2>6. \A u \in Ticks : tick[u].step = "record" => tick'[u].step = "record" /\ tick'[u].view = tick[u].view
        BY <1>2, <1>3, AtWorkRow
    <2>7. \A d \in Devices :
              today'[d] # 0 => \/ rowDay'[d] = 0
                               \/ \E u \in Ticks : tick'[u].step = "record" /\ tick'[u].view[1] = d
        BY <1>1, <2>2, <2>6 DEF ViewsInv, OneADay
    <2>. QED
        BY <1>1, <2>2, <2>3, <2>4, <2>5, <2>7 DEF ViewsInv, OneADay
<1>. QED
    BY <1>5, <1>7, <1>8 DEF ViewsInv

\* A step of a tick that leaves the views and the rows alone.
LEMMA RowStep ==
    ASSUME ViewsInv, NEW t \in Ticks, NEW row \in TickRows \cup {NoTick}, TickWrites(t, row),
           UNCHANGED <<hour, view, rowAge, rowDay, told, today, reopened>>,
           mishap' \in BOOLEAN, ~mishap' => ~mishap, row.step # "send",
           ~mishap' => \A u \in Ticks \ {t} : ~Busy(u),
           ~mishap' => (row # NoTick => row.nights = 0),
           ~mishap' => (row.step = "write" /\ row.does = "claim" => rowDay[row.view[1]] # 0),
           ~mishap' => tick[t].step # "record"
    PROVE  ViewsInv'
<1>1. ViewsTypes'
    BY DEF ViewsInv, ViewsTypes, TickWrites
<1>2. OneClaim'
    BY OtherClaims, FewerClaims DEF ViewsInv
<1>3. Pushes(t)' => row.step = "write" /\ row.does = "claim"
    BY DEF Pushes, TickWrites
<1>4. ASSUME ~mishap'
      PROVE  /\ \A d \in Devices : today[d] <= 1
             /\ \A d \in Devices : today[d] # 0 => rowDay[d] = 0
    <2>1. \A u \in Ticks : tick[u].step # "record"
        BY <1>4, AtWorkRow, NoTickFields DEF ViewsInv, Busy
    <2>. QED
        BY <1>4, <2>1 DEF ViewsInv, OneADay
<1>5. OneADay'
    BY <1>3, <1>4, DayKept DEF ViewsInv
<1>. QED
    BY <1>1, <1>2, <1>5 DEF ViewsInv

LEMMA StartTickKeeps ==
    ASSUME ViewsInv, NEW t \in Ticks, StartTick(t)
    PROVE  ViewsInv'
<1>1. PICK rows \in SUBSET Due :
          /\ Cardinality(rows) = Least(Batch, Cardinality(Due))
          /\ tick' = [tick EXCEPT ![t] =
                        [step |-> "read", rows |-> rows, slid |-> {},
                         stale |-> {v \in rows : TooOld(v)},
                         view |-> CHOOSE v \in rows : TRUE, does |-> "close",
                         until |-> 0, ran |-> 0, nights |-> 0]]
    BY DEF StartTick
<1>2. /\ tick[t] = NoTick /\ Due # {}
      /\ mishap' = (mishap \/ \E u \in Ticks : tick[u] # NoTick)
      /\ UNCHANGED <<hour, view, rowAge, rowDay, told, today, reopened>>
    BY DEF StartTick
<1>3. rows # {}
    <2>1. IsFiniteSet(Views)
        BY ViewsAssumption, FS_Product DEF Views
    <2>2. IsFiniteSet(Due) /\ Due \in SUBSET Views
        BY <2>1, FS_Subset DEF Due
    <2>3. Cardinality(Due) \in Nat /\ Cardinality(Due) # 0
        BY <1>2, <2>2, FS_CardinalityType, FS_EmptySet
    <2>4. Cardinality(rows) # 0
        BY <1>1, <2>3, ViewsAssumption DEF Least
    <2>. QED
        BY <2>4, FS_EmptySet
<1>4. PICK first : first = CHOOSE v \in rows : TRUE
    OBVIOUS
<1>5. first \in Views /\ rows \subseteq Views
    BY <1>3, <1>4 DEF Due
<1>6. PICK stale : stale = {v \in rows : TooOld(v)}
    OBVIOUS
<1>7. stale \in SUBSET Views
    BY <1>5, <1>6
<1>8. PICK row : row = [step |-> "read", rows |-> rows, slid |-> {}, stale |-> stale, view |-> first,
                        does |-> "close", until |-> 0, ran |-> 0, nights |-> 0]
    OBVIOUS
<1>9. row \in TickRows /\ row.step = "read" /\ row.nights = 0
    <2>1. 0 \in 0..(ProductCap + Day) /\ 0 \in 0..MaxTick
        BY ViewsAssumption
    <2>. QED
        BY <1>5, <1>7, <1>8, <2>1 DEF TickRows
<1>10. TickWrites(t, row)
    <2>1. tick' = [tick EXCEPT ![t] = row]
        BY <1>1, <1>4, <1>6, <1>8
    <2>. QED
        BY <1>9, <2>1, TickPut DEF ViewsInv
<1>11. mishap' \in BOOLEAN /\ (~mishap' => ~mishap /\ \A u \in Ticks \ {t} : ~Busy(u))
    BY <1>2 DEF Busy
<1>12. tick[t].step # "record"
    BY <1>2, NoTickFields
<1>. QED
    BY <1>2, <1>9, <1>10, <1>11, <1>12, RowStep

LEMMA UntilTypes ==
    ASSUME ViewsTypes, NEW t \in Ticks, NEW v \in Views
    PROVE  /\ 0 \in 0..(ProductCap + Day)
           /\ (IF rowAge[v] < ProductCap THEN ProductCap - rowAge[v] ELSE 0) \in 0..(ProductCap + Day)
           /\ UntilMidnight(t) \in 0..(ProductCap + Day)
<1>1. ProductCap \in Nat /\ Day \in Nat
    BY ViewsAssumption
<1>2. hour \in 0..(Day - 1)
    BY DEF ViewsTypes
<1>3. rowAge[v] \in 0..(ProductCap + MaxTick)
    BY DEF ViewsTypes
<1>4. (IF rowAge[v] < ProductCap THEN ProductCap - rowAge[v] ELSE 0) \in 0..(ProductCap + Day)
    BY <1>1, <1>3
<1>5. UntilMidnight(t) \in 0..(ProductCap + Day)
    BY <1>1, <1>2 DEF UntilMidnight
<1>. QED
    BY <1>1, <1>4, <1>5

LEMMA ReadKeeps ==
    ASSUME ViewsInv, NEW t \in Ticks, NEW v \in Views, Read(t, v)
    PROVE  ViewsInv'
<1>1. /\ tick[t].step = "read"
      /\ UNCHANGED <<hour, view, rowAge, rowDay, told, today, reopened, mishap>>
    BY DEF Read
<1>2. Busy(t) /\ ViewsTypes
    BY <1>1, AtWorkRow DEF ViewsInv
<1>3. PICK old \in TickRows : old = tick[t]
    BY <1>2, AtWorkRow
<1>4. /\ ~mishap => \A u \in Ticks \ {t} : ~Busy(u)
      /\ ~mishap => old.nights = 0
    BY <1>2, <1>3, OnlyTick DEF ViewsInv
<1>5. mishap' \in BOOLEAN /\ tick[t].step # "record"
    BY <1>1, <1>2 DEF ViewsTypes
<1>6. ASSUME NEW does \in {"close", "defer", "claim"}, NEW until \in 0..(ProductCap + Day),
             tick' = [tick EXCEPT ![t].step = "write", ![t].view = v,
                                  ![t].does = does, ![t].until = until],
             does = "claim" => ~InDayCap(t, v)
      PROVE  ViewsInv'
    <2>1. PICK row : row = [old EXCEPT !.step = "write", !.view = v, !.does = does, !.until = until]
        OBVIOUS
    <2>2. /\ row \in TickRows /\ row.step = "write" /\ row.view = v /\ row.does = does
          /\ row.nights = old.nights
        BY <2>1 DEF TickRows
    <2>3. tick' = [tick EXCEPT ![t] = row]
        BY <1>3, <1>6, <2>1
    <2>4. TickWrites(t, row)
        BY <1>2, <2>2, <2>3, TickPut
    <2>5. ~mishap' => (row.step = "write" /\ row.does = "claim" => rowDay[row.view[1]] # 0)
        BY <1>1, <1>3, <1>4, <1>6, <2>2 DEF InDayCap
    <2>. QED
        BY <1>1, <1>4, <1>5, <2>2, <2>4, <2>5, RowStep
<1>7. ASSUME tick' = [tick EXCEPT ![t].rows = @ \ {v}]
      PROVE  ViewsInv'
    <2>1. PICK row : row = [old EXCEPT !.rows = @ \ {v}]
        OBVIOUS
    <2>2. row \in TickRows /\ row.step = old.step /\ row.nights = old.nights
        BY <2>1 DEF TickRows
    <2>3. tick' = [tick EXCEPT ![t] = row]
        BY <1>3, <1>7, <2>1
    <2>4. TickWrites(t, row)
        BY <1>2, <2>2, <2>3, TickPut
    <2>. QED
        BY <1>1, <1>3, <1>4, <1>5, <2>2, <2>4, RowStep
<1>8. \/ \E does \in {"close", "defer", "claim"}, until \in 0..(ProductCap + Day) :
            /\ tick' = [tick EXCEPT ![t].step = "write", ![t].view = v,
                                    ![t].does = does, ![t].until = until]
            /\ does = "claim" => ~InDayCap(t, v)
      \/ tick' = [tick EXCEPT ![t].rows = @ \ {v}]
    <2> DEFINE decide(does, until) ==
                   tick' = [tick EXCEPT ![t].step = "write", ![t].view = v,
                                        ![t].does = does, ![t].until = until]
               cap == IF rowAge[v] < ProductCap THEN ProductCap - rowAge[v] ELSE 0
    <2>1. \/ decide("close", 0)
          \/ decide("defer", cap)
          \/ decide("defer", UntilMidnight(t))
          \/ ~InDayCap(t, v) /\ decide("claim", 0)
          \/ tick' = [tick EXCEPT ![t].rows = @ \ {v}]
        BY DEF Read
    <2>2. 0 \in 0..(ProductCap + Day) /\ cap \in 0..(ProductCap + Day)
          /\ UntilMidnight(t) \in 0..(ProductCap + Day)
        BY <1>2, UntilTypes
    <2>. HIDE DEF cap
    <2>. QED
        BY <2>1, <2>2
<1>. QED
    BY <1>6, <1>7, <1>8

LEMMA EndTickKeeps ==
    ASSUME ViewsInv, NEW t \in Ticks, FinishTick(t) \/ TickDies(t)
    PROVE  ViewsInv'
<1>1. /\ tick' = [tick EXCEPT ![t] = NoTick] /\ Busy(t)
      /\ UNCHANGED <<hour, view, rowAge, rowDay, told, today, reopened>>
    BY AtWorkRow DEF FinishTick, TickDies, ViewsInv, Busy
<1>2. mishap' \in BOOLEAN /\ (~mishap' => ~mishap /\ tick[t].step # "record")
    BY DEF FinishTick, TickDies, ViewsInv, ViewsTypes
<1>3. TickWrites(t, NoTick)
    BY <1>1, TickPut DEF ViewsInv
<1>4. ~mishap => \A u \in Ticks \ {t} : ~Busy(u)
    BY <1>1, OnlyTick DEF ViewsInv
<1>. QED
    BY <1>1, <1>2, <1>3, <1>4, NoTickFields, RowStep

LEMMA WriteDecisionKeeps ==
    ASSUME ViewsInv, NEW t \in Ticks, WriteDecision(t)
    PROVE  ViewsInv'
<1>1. /\ tick[t].step = "write"
      /\ UNCHANGED <<hour, rowAge, rowDay, told, today, reopened, mishap>>
    BY DEF WriteDecision
<1>2. Busy(t) /\ ViewsTypes
    BY <1>1, AtWorkRow DEF ViewsInv
<1>3. PICK old \in TickRows : old = tick[t]
    BY <1>2, AtWorkRow
<1>4. PICK v \in Views : v = tick[t].view
    BY <1>3, TickFields
<1>5. \/ /\ view' = view
         /\ tick' = Proceed(t, v)
      \/ /\ view' = [view EXCEPT ![v].deferred = old.until]
         /\ tick' = Proceed(t, v)
      \/ /\ view' = [view EXCEPT ![v].open = FALSE]
         /\ tick' = Proceed(t, v)
      \/ /\ Holds(t, v) /\ old.does = "claim"
         /\ view' = [view EXCEPT ![v].open = FALSE]
         /\ tick' = [tick EXCEPT ![t].step = "send"]
    BY <1>3, <1>4 DEF WriteDecision
<1>6. /\ view' \in [Views -> ViewRows]
      /\ \A w \in Views : view'[w].open => view[w].open
    <2>1. old.until \in 0..(ProductCap + Day)
        BY <1>3, TickFields
    <2>2. view \in [Views -> ViewRows]
        BY <1>2 DEF ViewsTypes
    <2>3. CASE view' = view
        BY <2>2, <2>3
    <2>4. CASE view' = [view EXCEPT ![v].deferred = old.until]
        BY <2>1, <2>2, <2>4 DEF ViewRows
    <2>5. CASE view' = [view EXCEPT ![v].open = FALSE]
        BY <2>2, <2>5 DEF ViewRows
    <2>. QED
        BY <1>5, <2>3, <2>4, <2>5
<1>7. /\ ~mishap => \A u \in Ticks \ {t} : ~Busy(u)
      /\ ~mishap => old.nights = 0
      /\ ~mishap => (Pushes(t) => rowDay[v[1]] # 0)
      /\ ~mishap => \A d \in Devices : today[d] <= 1
      /\ ~mishap => \A d \in Devices : today[d] # 0 => rowDay[d] = 0
    BY <1>1, <1>2, <1>3, <1>4, OnlyTick DEF ViewsInv
<1>8. ASSUME tick' = Proceed(t, v)
      PROVE  ViewsInv'
    <2>1. PICK row \in TickRows : TickWrites(t, row) /\ row.step = "read" /\ row.nights = tick[t].nights
        BY <1>2, <1>8, ProceedPut
    <2>2. ViewsTypes'
        BY <1>1, <1>2, <1>6, <2>1 DEF ViewsTypes, TickWrites
    <2>3. OneClaim'
        BY <1>1, <1>6, <2>1, OtherClaims, FewerClaims DEF ViewsInv
    <2>4. ~Pushes(t)'
        BY <2>1 DEF Pushes, TickWrites
    <2>5. OneADay'
        BY <1>1, <1>2, <1>3, <1>7, <2>1, <2>4, DayKept DEF ViewsInv
    <2>. QED
        BY <2>2, <2>3, <2>5 DEF ViewsInv
<1>9. ASSUME Holds(t, v), old.does = "claim",
             view' = [view EXCEPT ![v].open = FALSE],
             tick' = [tick EXCEPT ![t].step = "send"]
      PROVE  ViewsInv'
    <2>1. PICK row : row = [old EXCEPT !.step = "send"]
        OBVIOUS
    <2>2. /\ row \in TickRows /\ row.step = "send" /\ row.view = v /\ row.slid = old.slid
          /\ row.nights = old.nights
        BY <1>3, <1>4, <2>1 DEF TickRows
    <2>3. tick' = [tick EXCEPT ![t] = row]
        BY <1>3, <1>9, <2>1
    <2>4. TickWrites(t, row)
        BY <1>2, <2>2, <2>3, TickPut
    <2>5. ViewsTypes'
        BY <1>1, <1>2, <1>6, <2>2, <2>4 DEF ViewsTypes, TickWrites
    <2>6. \A u \in Ticks : \A w \in Views : Claims(u, w)' => (u = t /\ w = v) \/ (u # t /\ Claims(u, w))
        BY <2>2, <2>4 DEF TickWrites, Claims
    <2>7. view[v].open /\ ~view'[v].open /\ \A w \in Views \ {v} : view'[w] = view[w]
        BY <1>2, <1>9 DEF Holds, ViewsTypes, ViewRows
    <2>8. OneClaim'
        <3>1. SUFFICES ASSUME NEW w \in Views, w \notin reopened
              PROVE  /\ told[w] <= 1
                     /\ told[w] = 1 => ~view'[w].open /\ \A u \in Ticks : ~Claims(u, w)'
                     /\ view'[w].open => \A u \in Ticks : ~Claims(u, w)'
                     /\ \A s, u \in Ticks : Claims(s, w)' /\ Claims(u, w)' => s = u
            BY <1>1 DEF OneClaim
        <3>2. /\ told[w] <= 1
              /\ told[w] = 1 => ~view[w].open /\ \A u \in Ticks : ~Claims(u, w)
              /\ view[w].open => \A u \in Ticks : ~Claims(u, w)
              /\ \A s, u \in Ticks : Claims(s, w) /\ Claims(u, w) => s = u
            BY <3>1 DEF ViewsInv, OneClaim
        <3>3. CASE w = v
            BY <2>6, <2>7, <3>2, <3>3
        <3>4. CASE w # v
            BY <2>6, <2>7, <3>2, <3>4
        <3>. QED
            BY <3>3, <3>4
    <2>9. Pushes(t)
        BY <1>1, <1>3, <1>9 DEF Pushes
    <2>10. OneADay'
        BY <1>1, <1>2, <1>7, <2>2, <2>4, <2>9, DayKept DEF ViewsInv
    <2>. QED
        BY <2>5, <2>8, <2>10 DEF ViewsInv
<1>. QED
    BY <1>5, <1>8, <1>9

LEMMA DeliverKeepsTypes ==
    ASSUME ViewsTypes, NEW t \in Ticks, NEW v \in Views, Deliver(t, v)
    PROVE  /\ told' \in [Views -> Nat] /\ today' \in [Devices -> Nat]
           /\ \A w \in Views \ {v} : told'[w] = told[w]
           /\ v \in tick[t].slid => told'[v] = told[v]
           /\ v \notin tick[t].slid => told'[v] = told[v] + 1
           /\ today'[v[1]] = today[v[1]] + 1
           /\ \A d \in Devices \ {v[1]} : today'[d] = today[d]
<1>1. v[1] \in Devices
    BY Devicesof
<1>2. today' = [today EXCEPT ![v[1]] = @ + 1]
    BY DEF Deliver
<1>3. today \in [Devices -> Nat] /\ told \in [Views -> Nat]
    BY DEF ViewsTypes
<1>4. /\ today' \in [Devices -> Nat]
      /\ today'[v[1]] = today[v[1]] + 1
      /\ \A d \in Devices \ {v[1]} : today'[d] = today[d]
    BY <1>1, <1>2, <1>3
<1>5. CASE v \in tick[t].slid
    BY <1>3, <1>4, <1>5 DEF Deliver
<1>6. CASE v \notin tick[t].slid
    <2>1. told' = [told EXCEPT ![v] = @ + 1]
        BY <1>6 DEF Deliver
    <2>2. told' \in [Views -> Nat] /\ told'[v] = told[v] + 1 /\ \A w \in Views \ {v} : told'[w] = told[w]
        BY <1>3, <2>1
    <2>. QED
        BY <1>4, <1>6, <2>2
<1>. QED
    BY <1>5, <1>6

\* A claimed push that arrives, or does not: the tick's claim is over.
LEMMA DeliverKeepsClaims ==
    ASSUME ViewsInv, NEW t \in Ticks, NEW v \in Views,
           tick[t].step = "send", tick[t].view = v, Deliver(t, v),
           UNCHANGED <<view, reopened>>,
           NEW row, TickWrites(t, row), row.step # "send"
    PROVE  OneClaim'
<1>1. \A u \in Ticks : \A w \in Views : Claims(u, w)' => u # t /\ Claims(u, w)
    BY OtherClaims
<1>2. ViewsTypes
    BY DEF ViewsInv
<1>3. /\ \A w \in Views \ {v} : told'[w] = told[w]
      /\ v \in tick[t].slid => told'[v] = told[v]
      /\ v \notin tick[t].slid => told'[v] = told[v] + 1
    BY <1>2, DeliverKeepsTypes
<1>4. SUFFICES ASSUME NEW w \in Views, w \notin reopened
      PROVE  /\ told'[w] <= 1
             /\ told'[w] = 1 => ~view[w].open /\ \A u \in Ticks : ~Claims(u, w)'
             /\ view[w].open => \A u \in Ticks : ~Claims(u, w)'
             /\ \A s, u \in Ticks : Claims(s, w)' /\ Claims(u, w)' => s = u
    BY DEF OneClaim
<1>5. /\ told[w] <= 1 /\ told[w] \in Nat
      /\ told[w] = 1 => ~view[w].open /\ \A u \in Ticks : ~Claims(u, w)
      /\ view[w].open => \A u \in Ticks : ~Claims(u, w)
      /\ \A s, u \in Ticks : Claims(s, w) /\ Claims(u, w) => s = u
    BY <1>2, <1>4 DEF ViewsInv, OneClaim, ViewsTypes
<1>6. CASE w = v /\ v \notin tick[t].slid
    <2>1. Claims(t, w)
        BY <1>6 DEF Claims
    <2>2. told[w] # 1 /\ ~view[w].open
        BY <1>5, <2>1
    <2>3. told'[w] = 1
        BY <1>3, <1>5, <1>6, <2>2
    <2>4. \A u \in Ticks : ~Claims(u, w)'
        BY <1>1, <1>5, <2>1
    <2>. QED
        BY <2>2, <2>3, <2>4
<1>7. CASE told'[w] = told[w]
    BY <1>1, <1>5, <1>7
<1>. QED
    BY <1>3, <1>6, <1>7

LEMMA SendKeeps ==
    ASSUME ViewsInv, NEW t \in Ticks, Send(t)
    PROVE  ViewsInv'
<1>1. tick[t].step = "send" /\ UNCHANGED <<hour, rowAge, rowDay>>
    BY DEF Send
<1>2. Busy(t) /\ ViewsTypes /\ Pushes(t)
    BY <1>1, AtWorkRow DEF ViewsInv, Pushes
<1>3. PICK old \in TickRows : old = tick[t]
    BY <1>2, AtWorkRow
<1>4. PICK v \in Views : v = tick[t].view
    BY <1>3, TickFields
<1>5. /\ ~mishap => \A u \in Ticks \ {t} : ~Busy(u)
      /\ ~mishap => old.nights = 0
      /\ ~mishap => rowDay[v[1]] # 0
      /\ ~mishap => \A d \in Devices : today[d] <= 1
      /\ ~mishap => \A d \in Devices : today[d] # 0 => rowDay[d] = 0
    BY <1>1, <1>2, <1>3, <1>4, OnlyTick DEF ViewsInv
<1>6. v[1] \in Devices
    BY Devicesof
<1>7. ASSUME Deliver(t, v), tick' = [tick EXCEPT ![t].step = "record"],
             UNCHANGED <<view, reopened, mishap>>
      PROVE  ViewsInv'
    <2>1. PICK row : row = [old EXCEPT !.step = "record"]
        OBVIOUS
    <2>2. row \in TickRows /\ row.step = "record" /\ row.view = v /\ row.nights = old.nights
        BY <1>3, <1>4, <2>1 DEF TickRows
    <2>3. tick' = [tick EXCEPT ![t] = row]
        BY <1>3, <1>7, <2>1
    <2>4. TickWrites(t, row)
        BY <1>2, <2>2, <2>3, TickPut
    <2>5. /\ told' \in [Views -> Nat] /\ today' \in [Devices -> Nat]
          /\ today'[v[1]] = today[v[1]] + 1
          /\ \A d \in Devices \ {v[1]} : today'[d] = today[d]
        BY <1>2, <1>7, DeliverKeepsTypes
    <2>6. ViewsTypes'
        BY <1>1, <1>2, <1>7, <2>4, <2>5 DEF ViewsTypes, TickWrites
    <2>7. OneClaim'
        BY <1>1, <1>4, <1>7, <2>2, <2>4, DeliverKeepsClaims
    <2>8. ~Pushes(t)'
        BY <2>2, <2>4 DEF Pushes, TickWrites
    <2>9. ASSUME ~mishap
          PROVE  /\ \A d \in Devices : today'[d] <= 1
                 /\ \A d \in Devices :
                       today'[d] # 0 => rowDay'[d] = 0 \/ (row.step = "record" /\ row.view[1] = d)
        <3>1. today[v[1]] = 0 /\ today'[v[1]] = 1
            BY <1>5, <1>6, <2>5, <2>9
        <3>. QED
            BY <1>1, <1>5, <2>2, <2>5, <2>9, <3>1
    <2>10. OneADay'
        BY <1>2, <1>5, <1>7, <2>2, <2>4, <2>8, <2>9, DayKept DEF ViewsInv
    <2>. QED
        BY <2>6, <2>7, <2>10 DEF ViewsInv
<1>8. ASSUME Deliver(t, v), mishap' = TRUE, tick' = Proceed(t, v), UNCHANGED <<view, reopened>>
      PROVE  ViewsInv'
    <2>1. PICK row \in TickRows : TickWrites(t, row) /\ row.step = "read"
        BY <1>2, <1>8, ProceedPut
    <2>2. told' \in [Views -> Nat] /\ today' \in [Devices -> Nat]
        BY <1>2, <1>8, DeliverKeepsTypes
    <2>3. ViewsTypes'
        BY <1>1, <1>2, <1>8, <2>1, <2>2 DEF ViewsTypes, TickWrites
    <2>4. OneClaim'
        BY <1>1, <1>4, <1>8, <2>1, DeliverKeepsClaims
    <2>5. OneADay'
        BY <1>8 DEF OneADay
    <2>. QED
        BY <2>3, <2>4, <2>5 DEF ViewsInv
<1>9. ASSUME tick' = Proceed(t, v), UNCHANGED <<view, told, today, reopened, mishap>>
      PROVE  ViewsInv'
    <2>1. PICK row \in TickRows : TickWrites(t, row) /\ row.step = "read" /\ row.nights = tick[t].nights
        BY <1>2, <1>9, ProceedPut
    <2>. QED
        BY <1>1, <1>2, <1>3, <1>5, <1>9, <2>1, RowStep DEF ViewsTypes
<1>10. ASSUME view' = [view EXCEPT ![v].open = TRUE],
              reopened' = reopened \cup ({v} \cap tick[t].slid),
              tick' = [tick EXCEPT ![t] = NoTick],
              UNCHANGED <<told, today, mishap>>
       PROVE  ViewsInv'
    <2>1. TickWrites(t, NoTick)
        BY <1>2, <1>10, TickPut
    <2>2. view' \in [Views -> ViewRows] /\ \A w \in Views \ {v} : view'[w] = view[w]
        BY <1>2, <1>10 DEF ViewsTypes, ViewRows
    <2>3. reopened' \subseteq Views
        BY <1>2, <1>10 DEF ViewsTypes
    <2>4. ViewsTypes'
        BY <1>1, <1>2, <1>10, <2>1, <2>2, <2>3 DEF ViewsTypes, TickWrites
    <2>5. \A u \in Ticks : \A w \in Views : Claims(u, w)' => u # t /\ Claims(u, w)
        BY <2>1, NoTickFields, OtherClaims
    <2>6. OneClaim'
        <3>1. SUFFICES ASSUME NEW w \in Views, w \notin reopened'
              PROVE  /\ told[w] <= 1
                     /\ told[w] = 1 => ~view'[w].open /\ \A u \in Ticks : ~Claims(u, w)'
                     /\ view'[w].open => \A u \in Ticks : ~Claims(u, w)'
                     /\ \A s, u \in Ticks : Claims(s, w)' /\ Claims(u, w)' => s = u
            BY <1>10 DEF OneClaim
        <3>2. w \notin reopened /\ (w = v => v \notin tick[t].slid)
            BY <1>10, <3>1
        <3>3. /\ told[w] <= 1
              /\ told[w] = 1 => ~view[w].open /\ \A u \in Ticks : ~Claims(u, w)
              /\ view[w].open => \A u \in Ticks : ~Claims(u, w)
              /\ \A s, u \in Ticks : Claims(s, w) /\ Claims(u, w) => s = u
            BY <3>2 DEF ViewsInv, OneClaim
        <3>4. CASE w = v
            <4>1. Claims(t, w)
                BY <1>1, <1>4, <3>2, <3>4 DEF Claims
            <4>2. told[w] # 1 /\ \A u \in Ticks : ~Claims(u, w)'
                BY <2>5, <3>3, <4>1
            <4>. QED
                BY <3>3, <4>2
        <3>5. CASE w # v
            BY <2>2, <2>5, <3>3, <3>5
        <3>. QED
            BY <3>4, <3>5
    <2>7. ~Pushes(t)'
        BY <2>1, NoTickFields DEF Pushes, TickWrites
    <2>8. OneADay'
        BY <1>1, <1>2, <1>5, <1>10, <2>1, <2>7, DayKept DEF ViewsInv
    <2>. QED
        BY <2>4, <2>6, <2>8 DEF ViewsInv
<1>. QED
    BY <1>4, <1>7, <1>8, <1>9, <1>10 DEF Send

LEMMA RecordPushKeeps ==
    ASSUME ViewsInv, NEW t \in Ticks, RecordPush(t)
    PROVE  ViewsInv'
<1>1. tick[t].step = "record" /\ UNCHANGED <<hour, view, told, today, reopened, mishap>>
    BY DEF RecordPush
<1>2. Busy(t) /\ ViewsTypes
    BY <1>1, AtWorkRow DEF ViewsInv
<1>3. PICK old \in TickRows : old = tick[t]
    BY <1>2, AtWorkRow
<1>4. PICK v \in Views : v = tick[t].view
    BY <1>3, TickFields
<1>5. /\ rowAge' = [rowAge EXCEPT ![v] = 0] /\ rowDay' = [rowDay EXCEPT ![v[1]] = 0]
      /\ tick' = Proceed(t, v)
    BY <1>4 DEF RecordPush
<1>6. PICK row \in TickRows : TickWrites(t, row) /\ row.step = "read" /\ row.nights = tick[t].nights
    BY <1>2, <1>5, ProceedPut
<1>7. v[1] \in Devices
    BY Devicesof
<1>8. rowDay' \in [Devices -> 0..2] /\ rowDay'[v[1]] = 0 /\ \A d \in Devices \ {v[1]} : rowDay'[d] = rowDay[d]
    BY <1>2, <1>5, <1>7 DEF ViewsTypes
<1>9. rowAge' \in [Views -> 0..(ProductCap + MaxTick)]
    BY <1>2, <1>5, ViewsAssumption DEF ViewsTypes
<1>10. ViewsTypes'
    BY <1>1, <1>2, <1>6, <1>8, <1>9 DEF ViewsTypes, TickWrites
<1>11. OneClaim'
    BY <1>1, <1>6, OtherClaims, FewerClaims DEF ViewsInv
<1>12. ~Pushes(t)'
    BY <1>6 DEF Pushes, TickWrites
<1>13. /\ ~mishap => \A u \in Ticks \ {t} : ~Busy(u)
       /\ ~mishap => tick[t].nights = 0
       /\ ~mishap => \A d \in Devices : today[d] <= 1
       /\ ~mishap => \A d \in Devices : today[d] # 0 => rowDay[d] = 0 \/ v[1] = d
    BY <1>2, <1>4, OnlyTick DEF ViewsInv
<1>14. ~mishap => \A d \in Devices : today[d] # 0 => rowDay'[d] = 0
    BY <1>8, <1>13
<1>15. OneADay'
    BY <1>1, <1>2, <1>6, <1>12, <1>13, <1>14, DayKept DEF ViewsInv
<1>. QED
    BY <1>10, <1>11, <1>15 DEF ViewsInv

LEMMA HourTypes ==
    /\ \A n \in 0..2 : Older(n, 2) \in 0..2
    /\ \A n \in 0..(MaxAge + 1) : Older(n, MaxAge + 1) \in 0..(MaxAge + 1)
    /\ \A n \in 0..(ProductCap + MaxTick) :
          Older(n, ProductCap + MaxTick) \in 0..(ProductCap + MaxTick)
    /\ \A n \in 0..(ProductCap + Day) : Sooner(n) \in 0..(ProductCap + Day)
<1>1. MaxAge \in Nat /\ ProductCap \in Nat /\ MaxTick \in Nat /\ Day \in Nat
    BY ViewsAssumption
<1>. QED
    BY <1>1 DEF Older, Sooner

LEMMA HourPassesKeeps ==
    ASSUME ViewsInv, HourPasses
    PROVE  ViewsInv'
<1> DEFINE midnight == hour = Day - 1
<1>1. /\ \A t \in Ticks : Busy(t) => tick[t].ran < MaxTick
      /\ hour' = (hour + 1) % Day
      /\ view' = [v \in Views |-> [view[v] EXCEPT !.age = Older(@, MaxAge + 1), !.deferred = Sooner(@)]]
      /\ rowAge' = [v \in Views |-> Older(rowAge[v], ProductCap + MaxTick)]
      /\ tick' = [t \in Ticks |->
                    IF tick[t] = NoTick THEN NoTick
                    ELSE [tick[t] EXCEPT !.ran = @ + 1, !.until = Sooner(@),
                                         !.nights = IF midnight THEN @ + 1 ELSE @]]
      /\ UNCHANGED <<told, reopened>>
    BY DEF HourPasses, Busy
<1>2. \/ /\ midnight
         /\ rowDay' = [d \in Devices |-> Older(rowDay[d], 2)]
         /\ today' = [d \in Devices |-> 0]
         /\ mishap' = (mishap \/ \E t \in Ticks : Busy(t))
      \/ ~midnight /\ UNCHANGED <<rowDay, today, mishap>>
    BY DEF HourPasses, Busy
<1>3. ViewsTypes
    BY DEF ViewsInv
<1>4. ASSUME NEW t \in Ticks
      PROVE  /\ tick'[t] \in TickRows \cup {NoTick}
             /\ Busy(t)' <=> Busy(t)
             /\ tick'[t].step = tick[t].step
             /\ Busy(t) => /\ tick'[t].view = tick[t].view /\ tick'[t].does = tick[t].does
                           /\ tick'[t].slid = tick[t].slid
                           /\ ~midnight => tick'[t].nights = tick[t].nights
    <2>1. CASE tick[t] = NoTick
        BY <1>1, <2>1 DEF Busy
    <2>2. CASE tick[t] # NoTick
        <3>1. PICK old \in TickRows : old = tick[t]
            BY <1>3, <2>2, AtWorkRow DEF Busy
        <3>2. PICK n : n = IF midnight THEN old.nights + 1 ELSE old.nights
            OBVIOUS
        <3>3. n \in Nat /\ (~midnight => n = old.nights)
            BY <3>2, TickFields
        <3>4. old.ran + 1 \in 0..MaxTick /\ Sooner(old.until) \in 0..(ProductCap + Day)
            <4>1. old.ran \in 0..MaxTick /\ old.until \in 0..(ProductCap + Day)
                BY TickFields
            <4>2. old.ran < MaxTick
                BY <1>1, <2>2, <3>1 DEF Busy
            <4>. QED
                BY <4>1, <4>2, HourTypes, ViewsAssumption
        <3>5. PICK row : row = [old EXCEPT !.ran = old.ran + 1, !.until = Sooner(old.until), !.nights = n]
            OBVIOUS
        <3>6. tick'[t] = row
            BY <1>1, <2>2, <3>1, <3>2, <3>5
        <3>7. /\ row \in TickRows /\ row.step = old.step /\ row.view = old.view
              /\ row.does = old.does /\ row.slid = old.slid /\ row.nights = n
            BY <3>3, <3>4, <3>5 DEF TickRows
        <3>. QED
            BY <2>2, <3>1, <3>3, <3>6, <3>7, TickFields DEF Busy
    <2>. QED
        BY <2>1, <2>2
<1>. HIDE DEF midnight
<1>5. tick' \in [Ticks -> TickRows \cup {NoTick}]
    BY <1>1, <1>4
<1>6. view' \in [Views -> ViewRows] /\ \A v \in Views : view'[v].open = view[v].open
    <2>1. SUFFICES ASSUME NEW v \in Views
          PROVE  view'[v] \in ViewRows /\ view'[v].open = view[v].open
        BY <1>1
    <2>2. PICK old \in ViewRows : old = view[v]
        BY <1>3 DEF ViewsTypes
    <2>3. view'[v] = [old EXCEPT !.age = Older(old.age, MaxAge + 1), !.deferred = Sooner(old.deferred)]
        BY <1>1, <2>2
    <2>4. old.age \in 0..(MaxAge + 1) /\ old.deferred \in 0..(ProductCap + Day)
        BY DEF ViewRows
    <2>5. Older(old.age, MaxAge + 1) \in 0..(MaxAge + 1) /\ Sooner(old.deferred) \in 0..(ProductCap + Day)
        BY <2>4, HourTypes
    <2>. QED
        BY <2>2, <2>3, <2>5 DEF ViewRows
<1>7. hour' \in 0..(Day - 1)
    <2>1. hour + 1 \in Nat /\ Day \in Nat \ {0}
        BY <1>3, ViewsAssumption DEF ViewsTypes
    <2>2. \A m \in Nat, n \in Nat \ {0} : m % n \in 0..(n - 1)
        OBVIOUS
    <2>. QED
        BY <1>1, <2>1, <2>2
<1>8. rowAge' \in [Views -> 0..(ProductCap + MaxTick)]
    BY <1>1, <1>3, HourTypes DEF ViewsTypes
<1>9. rowDay' \in [Devices -> 0..2]
    <2>1. rowDay \in [Devices -> 0..2] /\ \A n \in 0..2 : Older(n, 2) \in 0..2
        BY <1>3, HourTypes DEF ViewsTypes
    <2>. QED
        BY <1>2, <2>1
<1>10. today' \in [Devices -> Nat] /\ mishap' \in BOOLEAN
    <2>1. today \in [Devices -> Nat] /\ mishap \in BOOLEAN
        BY <1>3 DEF ViewsTypes
    <2>2. today' = today \/ today' = [d \in Devices |-> 0]
        BY <1>2
    <2>3. today' \in [Devices -> Nat]
        BY <2>1, <2>2
    <2>4. mishap' = mishap \/ mishap' = (mishap \/ \E t \in Ticks : Busy(t))
        BY <1>2
    <2>5. mishap' \in BOOLEAN
        BY <2>1, <2>4, Zenon
    <2>. QED
        BY <2>3, <2>5
<1>11. ViewsTypes'
    BY <1>1, <1>3, <1>5, <1>6, <1>7, <1>8, <1>9, <1>10 DEF ViewsTypes
<1>12. \A t \in Ticks : \A v \in Views : Claims(t, v)' => Claims(t, v)
    <2>1. SUFFICES ASSUME NEW t \in Ticks, NEW v \in Views, Claims(t, v)'
          PROVE  Claims(t, v)
        OBVIOUS
    <2>2. Busy(t)
        BY <1>3, <1>4, <2>1, AtWorkRow DEF Claims
    <2>. QED
        BY <1>4, <2>1, <2>2 DEF Claims
<1>13. OneClaim'
    BY <1>1, <1>6, <1>12, FewerClaims DEF ViewsInv
<1>14. OneADay'
    <2>1. CASE midnight
        <3>1. SUFFICES ASSUME ~mishap'
              PROVE  OneADay'
            BY DEF OneADay
        <3>2. \A t \in Ticks : ~Busy(t)
            BY <1>2, <2>1, <3>1
        <3>3. \A t \in Ticks : ~Busy(t)' /\ ~Pushes(t)'
            BY <1>4, <3>2, <1>3, AtWorkRow DEF Pushes
        <3>4. \A d \in Devices : today'[d] = 0
            BY <1>2, <2>1
        <3>. QED
            BY <3>3, <3>4 DEF OneADay
    <2>2. CASE ~midnight
        <3>1. UNCHANGED <<rowDay, today, mishap>>
            BY <1>2, <2>2
        <3>2. \A t \in Ticks : Pushes(t)' => Pushes(t) /\ Busy(t)
            BY <1>3, <1>4, AtWorkRow DEF Pushes
        <3>3. \A t \in Ticks : tick[t].step = "record" => tick'[t].step = "record" /\ tick'[t].view = tick[t].view
            BY <1>3, <1>4, AtWorkRow
        <3>4. SUFFICES ASSUME ~mishap
              PROVE  /\ \A s, u \in Ticks : Busy(s)' /\ Busy(u)' => s = u
                     /\ \A u \in Ticks : Busy(u)' => tick'[u].nights = 0
                     /\ \A u \in Ticks : Pushes(u)' => rowDay'[tick'[u].view[1]] # 0
                     /\ \A d \in Devices : today'[d] <= 1
                     /\ \A d \in Devices :
                           today'[d] # 0 => \/ rowDay'[d] = 0
                                            \/ \E u \in Ticks : tick'[u].step = "record" /\ tick'[u].view[1] = d
            BY <3>1 DEF OneADay
        <3>5. \A s, u \in Ticks : Busy(s)' /\ Busy(u)' => s = u
            BY <1>4, <3>4 DEF ViewsInv, OneADay
        <3>6. \A u \in Ticks : Busy(u)' => tick'[u].nights = 0
            BY <1>4, <2>2, <3>4 DEF ViewsInv, OneADay
        <3>7. \A u \in Ticks : Pushes(u)' => rowDay'[tick'[u].view[1]] # 0
            BY <1>4, <3>1, <3>2, <3>4 DEF ViewsInv, OneADay
        <3>8. \A d \in Devices :
                  today'[d] # 0 => \/ rowDay'[d] = 0
                                   \/ \E u \in Ticks : tick'[u].step = "record" /\ tick'[u].view[1] = d
            BY <3>1, <3>3, <3>4 DEF ViewsInv, OneADay
        <3>. QED
            BY <3>1, <3>4, <3>5, <3>6, <3>7, <3>8 DEF ViewsInv, OneADay
    <2>. QED
        BY <2>1, <2>2
<1>. QED
    BY <1>11, <1>13, <1>14 DEF ViewsInv

LEMMA ViewsStep == ViewsInv /\ [ViewsNext]_viewsVars => ViewsInv'
<1>1. ASSUME ViewsInv, ViewsNext
      PROVE  ViewsInv'
    BY <1>1, VisitKeeps, StartTickKeeps, ReadKeeps, WriteDecisionKeeps, SendKeeps, RecordPushKeeps,
       EndTickKeeps, HourPassesKeeps DEF ViewsNext
<1>2. ASSUME ViewsInv, UNCHANGED viewsVars
      PROVE  ViewsInv'
    BY <1>2 DEF viewsVars, ViewsInv, ViewsTypes, OneClaim, OneADay, Busy, Claims, Pushes
<1>. QED
    BY <1>1, <1>2

LEMMA ViewsInvariant == ViewsSpec => []ViewsInv
BY ViewsInitInv, ViewsStep, PTL DEF ViewsSpec

\* The views, the rows and the ticks have their types, the tick's list of views
\* included (processDue, decideAbandonedView).
THEOREM ViewsTypeCorrect == ViewsSpec => []ViewsTypeOK
<1>1. ViewsInv => ViewsTypeOK
    <2>1. ASSUME ViewsInv, NEW t \in Ticks
          PROVE  tick[t] = NoTick \/ /\ tick[t].step \in {"read", "write", "send", "record"}
                                     /\ tick[t].rows \subseteq Views
                                     /\ tick[t].ran \in 0..MaxTick
        BY <2>1, AtWorkRow, TickFields DEF ViewsInv
    <2>. QED
        BY <2>1 DEF ViewsInv, ViewsTypes, ViewRows, ViewsTypeOK
<1>. QED
    BY <1>1, ViewsInvariant, PTL

\* However the ticks interleave, die or outlast their lease, a visit of a
\* product is pushed once at most, unless a late tick takes its claim on an
\* earlier visit back: the WHERE of the claim repeats what was read
\* (updateMany of processDue).
THEOREM OncePerVisit == ViewsSpec => []OnePushPerVisit
<1>1. ViewsInv => OnePushPerVisit
    BY DEF ViewsInv, OneClaim, OnePushPerVisit
<1>. QED
    BY <1>1, ViewsInvariant, PTL

\* One push a day for a device (withinDeviceDayCap), if no tick died with a push
\* it had not recorded, lost an answer, met another tick or ran into midnight.
THEOREM DayLimit == ViewsSpec => []DayLimitKept
<1>1. ViewsInv => DayLimitKept
    BY DEF ViewsInv, OneADay, DayLimitKept
<1>. QED
    BY <1>1, ViewsInvariant, PTL

=============================================================================
