----------------------------- MODULE MCProgress -----------------------------
(* Instances for TLC of what is checked under fair scheduling: the parts that *)
(* run beside the orders, and one order with its payments.  They do not share *)
(* state, and run one at a time.                                              *)
EXTENDS SchedulerLease, KeyedMutex, AbandonedViews, PaymentFlow

VARIABLE part

Parts == {"lease", "mutex", "views", "payment"}

progressVars == <<part, leaseVars, mutexVars, viewsVars, vars>>

ProgressInit == part \in Parts /\ LeaseInit /\ MutexInit /\ ViewsInit /\ Init

ProgressNext ==
    /\ \/ part = "lease" /\ LeaseNext /\ UNCHANGED <<mutexVars, viewsVars, vars>>
       \/ part = "mutex" /\ MutexNext /\ UNCHANGED <<leaseVars, viewsVars, vars>>
       \/ part = "views" /\ ViewsNext /\ UNCHANGED <<leaseVars, mutexVars, vars>>
       \/ part = "payment" /\ Next /\ UNCHANGED <<leaseVars, mutexVars, viewsVars>>
    /\ UNCHANGED part

ProgressSpec ==
    /\ ProgressInit /\ [][ProgressNext]_progressVars
    /\ \/ part = "lease" /\ LeaseFairness
       \/ part = "mutex" /\ MutexFairness
       \/ part = "views" /\ ViewsFairness
       \/ part = "payment" /\ Fairness

\* ReservationEnds (PaymentFlow), where the order is what runs.
ItsReservationEnds == part = "payment" => ReservationEnds
============================================================================
