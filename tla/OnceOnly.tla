------------------------------ MODULE OnceOnly ------------------------------
(* What an idempotency key promises, whatever the operation: under one key    *)
(* the operation takes effect at most once, and every successful answer names *)
(* that one effect.                                                           *)

CONSTANTS Requests, Keys, Effects, Nothing

VARIABLES effect,   \* per key, what it brought about
          asked,    \* per request, its key
          told      \* per request, the effect it was told of

vars == <<effect, asked, told>>

Init == /\ effect = [k \in Keys |-> Nothing]
        /\ asked = [r \in Requests |-> Nothing]
        /\ told = [r \in Requests |-> Nothing]

Ask(r, k) == /\ asked[r] = Nothing
             /\ asked' = [asked EXCEPT ![r] = k]
             /\ UNCHANGED <<effect, told>>

Perform(k, e) == /\ effect[k] = Nothing
                 /\ k \in {asked[r] : r \in Requests}
                 /\ effect' = [effect EXCEPT ![k] = e]
                 /\ UNCHANGED <<asked, told>>

Tell(r) == /\ told[r] = Nothing
           /\ asked[r] \in Keys
           /\ effect[asked[r]] # Nothing
           /\ told' = [told EXCEPT ![r] = effect[asked[r]]]
           /\ UNCHANGED <<effect, asked>>

Next == \/ \E r \in Requests, k \in Keys : Ask(r, k)
        \/ \E k \in Keys, e \in Effects : Perform(k, e)
        \/ \E r \in Requests : Tell(r)

Spec == Init /\ [][Next]_vars
=============================================================================
