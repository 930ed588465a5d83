--------------------------- MODULE SchedulerLease ---------------------------
(* The row of SchedulerLock that lets one replica at a time run a periodic    *)
(* job (reservations, push, OAuth tokens, reconciliation).  The lease is      *)
(* never renewed, its end is computed with the replica's clock and compared   *)
(* with the database's, and replicas die.  A process that is asked to exit    *)
(* gives its lease back while its tick goes on.  Time is counted in steps.    *)

EXTENDS Integers

CONSTANTS
    Replicas,
    NoReplica,   \* there is no row
    Gone,        \* the row names a process that is gone
    Ttl,         \* length of a lease
    ClockError,  \* how far a replica's clock and the way to the database are off
    Grace        \* longest a process lives after it was asked to exit

ASSUME LeaseAssumption ==
    /\ Ttl \in Nat /\ ClockError \in Nat /\ ClockError < Ttl /\ Grace \in Nat
    /\ NoReplica \notin Replicas /\ Gone \notin Replicas /\ Gone # NoReplica

VARIABLES
    holder,   \* of the row, NoReplica when there is none
    left,     \* until the row expires, by the database's clock
    phase,    \* of a replica: the field running, whether its timer is cleared,
              \* and whether it lives
    ran,      \* how long the tick in progress has had its lease, up to Ttl
    closing   \* time since the shutdown hook ran, Up while it has not

leaseVars == <<holder, left, phase, ran, closing>>

Up == -1

LeaseTypeOK ==
    /\ holder \in Replicas \cup {NoReplica, Gone}
    /\ left \in 0..(Ttl + ClockError)
    /\ phase \in [Replicas -> {"idle", "working", "stopped", "down"}]
    /\ ran \in [Replicas -> 0..Ttl]
    /\ closing \in [Replicas -> -1..Grace]

LeaseInit ==
    /\ holder = NoReplica
    /\ left = 0
    /\ phase = [r \in Replicas |-> "idle"]
    /\ ran = [r \in Replicas |-> 0]
    /\ closing = [r \in Replicas |-> Up]

FreeUntilTaken(r) == holder \in {NoReplica, r}     \* mutant: leases do not expire

\* ON CONFLICT ... WHERE expired or already ours
Free(r) == holder \in {NoReplica, r} \/ left = 0

TryAcquire(r) ==
    /\ phase[r] = "idle"
    /\ Free(r)
    /\ holder' = r
    /\ \E e \in -ClockError..ClockError : left' = Ttl + e
    /\ phase' = [phase EXCEPT ![r] = "working"]
    /\ ran' = [ran EXCEPT ![r] = 0]
    /\ UNCHANGED closing

\* Where a replica goes that is done with a tick.
Rested(r) == IF closing[r] = Up THEN "idle" ELSE "stopped"

EndTickDeleting(r) ==               \* mutant: no WHERE holder on the delete
    /\ phase[r] = "working"
    /\ holder' = NoReplica
    /\ phase' = [phase EXCEPT ![r] = Rested(r)]
    /\ ran' = [ran EXCEPT ![r] = 0]
    /\ UNCHANGED <<left, closing>>

\* the row is deleted if it is still ours; an error of the delete is swallowed
EndTick(r) ==
    /\ phase[r] = "working"
    /\ \/ /\ holder = r
          /\ holder' = NoReplica
       \/ UNCHANGED holder
    /\ phase' = [phase EXCEPT ![r] = Rested(r)]
    /\ ran' = [ran EXCEPT ![r] = 0]
    /\ UNCHANGED <<left, closing>>

\* SIGTERM, which every deploy sends: onModuleDestroy clears the timer and
\* deletes the row if it is ours, best effort.  It does not wait for the tick in
\* progress, which goes on; a tick still waiting for its INSERT may yet get the
\* lease.
Shutdown(r) ==
    /\ phase[r] \in {"idle", "working"} /\ closing[r] = Up
    /\ closing' = [closing EXCEPT ![r] = 0]
    /\ \/ phase[r] = "idle" /\ phase' = [phase EXCEPT ![r] = "stopped"]
       \/ UNCHANGED phase
    /\ \/ holder = r /\ holder' = NoReplica
       \/ UNCHANGED holder
    /\ UNCHANGED <<left, ran>>

\* The process is killed, or ends what Shutdown began: when app.close() is done,
\* and at the latest when the forced exit comes.
Crash(r) ==
    /\ phase[r] # "down"
    /\ phase' = [phase EXCEPT ![r] = "down"]
    /\ ran' = [ran EXCEPT ![r] = 0]
    /\ closing' = [closing EXCEPT ![r] = Up]
    /\ holder' = IF holder = r THEN Gone ELSE holder
    /\ UNCHANGED left

\* the platform starts it again, with a holder name of its own
Restart(r) ==
    /\ phase[r] = "down"
    /\ phase' = [phase EXCEPT ![r] = "idle"]
    /\ UNCHANGED <<holder, left, ran, closing>>

\* Time does not pass the forced exit of a process that was asked to.
Elapse ==
    /\ \A r \in Replicas : closing[r] < Grace
    /\ left' = IF left > 0 THEN left - 1 ELSE 0
    /\ ran' = [r \in Replicas |->
                IF phase[r] = "working" /\ ran[r] < Ttl THEN ran[r] + 1 ELSE ran[r]]
    /\ closing' = [r \in Replicas |-> IF closing[r] = Up THEN Up ELSE closing[r] + 1]
    /\ UNCHANGED <<holder, phase>>

LeaseNext ==
    \/ \E r \in Replicas : TryAcquire(r) \/ EndTick(r) \/ Shutdown(r) \/ Crash(r) \/ Restart(r)
    \/ Elapse

LeaseSpec == LeaseInit /\ [][LeaseNext]_leaseVars

-----------------------------------------------------------------------------
(* Properties.                                                                *)

Overran(r) == ran[r] >= Ttl - ClockError

\* The hook of r gave its lease back, and s took it since.
HandedOver(r, s) == closing[r] # Up /\ ran[s] <= closing[r]

\* The job runs in two replicas only if one of them has kept at it longer than
\* its lease, less the error of the clocks, or was asked to exit before the
\* other began (and then for Grace at most): no crash, no late or lost release
\* and no in-flight INSERT lets a second replica in otherwise.
OverlapNeedsOverrunOrShutdown ==
    \A r, s \in Replicas :
        (r # s /\ phase[r] = "working" /\ phase[s] = "working")
            => Overran(r) \/ Overran(s) \/ HandedOver(r, s) \/ HandedOver(s, r)

\* A replica that dies with the lease, or a release that is lost, does not stop
\* the job for good, as long as some replica stays up.
LeaseIsTakenOver ==
    (\E r \in Replicas : <>[](phase[r] # "down"))
        => (holder # NoReplica ~> \E r \in Replicas : phase[r] = "working")

\* The database's clock goes on, an interval comes up again, a tick ends, and a
\* process that was asked to exit does (setTimeout of main.ts).
LeaseFairness ==
    /\ WF_leaseVars(Elapse /\ left > 0)
    /\ \A r \in Replicas : /\ WF_leaseVars(TryAcquire(r)) /\ WF_leaseVars(EndTick(r))
                            /\ WF_leaseVars(closing[r] # Up /\ Crash(r))
=============================================================================
