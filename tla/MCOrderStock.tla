---------------------------- MODULE MCOrderStock ----------------------------
(* Instances of OrderStock for TLC. *)
EXTENDS OrderStock, TLC

CONSTANTS o1, o2, p1, p2, c1

MCOwner == [o \in Orders |-> c1]
MCInitOnHand == [p \in Products |-> 2]
MCInitBalance == [c \in Customers |-> 1]
MCBatchDeltas == {-1, 1}

Symmetry == Permutations(Orders) \cup Permutations(Products)
============================================================================
