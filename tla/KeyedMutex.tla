----------------------------- MODULE KeyedMutex -----------------------------
(* finance/keyed-mutex.ts: one promise chain per key, held in a map.  A call  *)
(* of run reads the tail of its key, puts its own in its place, waits for the *)
(* one it read, and takes its entry out of the map if nobody came after it.   *)
(* What runs between two awaits is one step.                                  *)

CONSTANTS
    Calls,    \* calls of run
    MutexKeys,
    Nobody

ASSUME MutexAssumption == Nobody \notin Calls \cup MutexKeys

VARIABLES
    tails,    \* the map: the call whose tail is stored under a key
    key,      \* of a call
    prev,     \* the call whose tail it read, Nobody for a resolved promise
    stage,    \* of a call
    before    \* history: calls of the same key that came earlier

mutexVars == <<tails, key, prev, stage, before>>

MutexTypeOK ==
    /\ tails \in [MutexKeys -> Calls \cup {Nobody}]
    /\ key \in [Calls -> MutexKeys \cup {Nobody}]
    /\ prev \in [Calls -> Calls \cup {Nobody}]
    /\ stage \in [Calls -> {"new", "waiting", "running", "done"}]
    /\ before \in [Calls -> SUBSET Calls]

MutexInit ==
    /\ tails = [k \in MutexKeys |-> Nobody]
    /\ key = [c \in Calls |-> Nobody]
    /\ prev = [c \in Calls |-> Nobody]
    /\ stage = [c \in Calls |-> "new"]
    /\ before = [c \in Calls |-> {}]

CallsOf(k) == {c \in Calls : key[c] = k /\ stage[c] # "new"}

\* up to the first await
Enter(c, k) ==
    /\ stage[c] = "new"
    /\ key' = [key EXCEPT ![c] = k]
    /\ prev' = [prev EXCEPT ![c] = tails[k]]
    /\ tails' = [tails EXCEPT ![k] = c]
    /\ stage' = [stage EXCEPT ![c] = "waiting"]
    /\ before' = [before EXCEPT ![c] = CallsOf(k)]

\* a tail is resolved once its call has released its gate
ResolvedIfNone(p) == p = Nobody     \* mutant: the gate is never released

Resolved(p) == p # Nobody => stage[p] = "done"

Begin(c) ==
    /\ stage[c] = "waiting"
    /\ Resolved(prev[c])
    /\ stage' = [stage EXCEPT ![c] = "running"]
    /\ UNCHANGED <<tails, key, prev, before>>

FinishDeleting(c) ==                \* mutant: deletes the entry of a later call
    /\ stage[c] = "running"
    /\ stage' = [stage EXCEPT ![c] = "done"]
    /\ tails' = [tails EXCEPT ![key[c]] = Nobody]
    /\ UNCHANGED <<key, prev, before>>

FinishComparingPrev(c) ==           \* mutant: looks at the tail it read, not its own
    /\ stage[c] = "running"
    /\ stage' = [stage EXCEPT ![c] = "done"]
    /\ tails' = IF tails[key[c]] = prev[c] THEN [tails EXCEPT ![key[c]] = Nobody] ELSE tails
    /\ UNCHANGED <<key, prev, before>>

\* the finally block, whether fn returned or threw
Finish(c) ==
    /\ stage[c] = "running"
    /\ stage' = [stage EXCEPT ![c] = "done"]
    /\ tails' = IF tails[key[c]] = c THEN [tails EXCEPT ![key[c]] = Nobody] ELSE tails
    /\ UNCHANGED <<key, prev, before>>

MutexNext == \E c \in Calls : \/ \E k \in MutexKeys : Enter(c, k)
                              \/ Begin(c)
                              \/ Finish(c)

MutexSpec == MutexInit /\ [][MutexNext]_mutexVars

-----------------------------------------------------------------------------
(* Properties.                                                                *)

\* One call of a key runs at a time, in the order of arrival, also when an entry
\* is taken out of the map while others arrive.
RunsInTurn ==
    \A c \in Calls : stage[c] \in {"running", "done"}
                        => \A d \in before[c] : stage[d] = "done"

MutualExclusion ==
    \A c, d \in Calls : (stage[c] = "running" /\ stage[d] = "running" /\ key[c] = key[d])
                            => c = d

\* The map keeps no entry for a key nobody uses, and one for a key in use.
MapDoesNotLeak ==
    \A k \in MutexKeys : tails[k] = Nobody <=> \A c \in CallsOf(k) : stage[c] = "done"

\* Every call gets its turn as long as the work of the others ends.
EveryCallRuns == \A c \in Calls : stage[c] = "waiting" ~> stage[c] = "done"

MutexFairness == \A c \in Calls : WF_mutexVars(Begin(c)) /\ WF_mutexVars(Finish(c))
=============================================================================
