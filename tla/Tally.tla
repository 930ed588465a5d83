------------------------------- MODULE Tally -------------------------------
(***************************************************************************)
(* The sum of a bounded natural quantity over a finite set, written as the *)
(* size of a set of units so that the proof system can reason about it:    *)
(* element x of S contributes the pairs <<x, 1>> .. <<x, amount[x]>>.      *)
(***************************************************************************)
EXTENDS Integers, FiniteSets

Units(S, amount, bound) == { u \in S \X (1 .. bound) : u[2] <= amount[u[1]] }

Tally(S, amount, bound) == Cardinality(Units(S, amount, bound))
============================================================================
