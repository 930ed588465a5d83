---------------------------- MODULE TallyProofs ----------------------------
(* Facts about Tally, cited by the proofs of the modules that count with it. *)
EXTENDS Tally, FiniteSetTheorems, TLAPS

\* The units of a finite set are finite, so Tally is a natural number.
LEMMA TallyType ==
    ASSUME NEW S, IsFiniteSet(S), NEW bound \in Nat, NEW amount
    PROVE  IsFiniteSet(Units(S, amount, bound)) /\ Tally(S, amount, bound) \in Nat
<1>1. IsFiniteSet(1 .. bound)
    BY FS_Interval
<1>2. IsFiniteSet(S \X (1 .. bound))
    BY <1>1, FS_Product
<1>3. Units(S, amount, bound) \in SUBSET (S \X (1 .. bound))
    BY DEF Units
<1>4. IsFiniteSet(Units(S, amount, bound))
    BY <1>2, <1>3, FS_Subset
<1>. QED
    BY <1>4, FS_CardinalityType DEF Tally

\* The tally depends only on the amounts of the elements of S.
LEMMA TallySame ==
    ASSUME NEW S, NEW bound, NEW a, NEW b, \A x \in S : a[x] = b[x]
    PROVE  Tally(S, a, bound) = Tally(S, b, bound)
BY DEF Tally, Units

LEMMA TallyEmpty ==
    ASSUME NEW bound, NEW amount
    PROVE  Tally({}, amount, bound) = 0
<1>1. Units({}, amount, bound) = {}
    BY DEF Units
<1>. QED
    BY <1>1, FS_EmptySet DEF Tally

\* A new element adds its amount.
LEMMA TallyAdd ==
    ASSUME NEW S, IsFiniteSet(S), NEW x, x \notin S,
           NEW bound \in Nat, NEW amount, amount[x] \in 0 .. bound
    PROVE  Tally(S \cup {x}, amount, bound) = Tally(S, amount, bound) + amount[x]
<1> DEFINE old   == Units(S, amount, bound)
           fresh == {x} \X (1 .. amount[x])
<1>1. IsFiniteSet(old) /\ Cardinality(old) \in Nat
    BY TallyType DEF Tally
<1>2. IsFiniteSet(1 .. amount[x]) /\ Cardinality(1 .. amount[x]) = amount[x]
    <2>1. amount[x] \in Int /\ 1 \in Int /\ amount[x] >= 0
        OBVIOUS
    <2>2. /\ IsFiniteSet(1 .. amount[x])
          /\ Cardinality(1 .. amount[x]) = IF 1 > amount[x] THEN 0 ELSE amount[x] - 1 + 1
        BY <2>1, FS_Interval
    <2>. QED
        BY <2>1, <2>2
<1>3. IsFiniteSet({x}) /\ Cardinality({x}) = 1
    BY FS_Singleton
<1>4. IsFiniteSet(fresh) /\ Cardinality(fresh) = amount[x]
    <2>1. IsFiniteSet(fresh) /\ Cardinality(fresh) = 1 * Cardinality(1 .. amount[x])
        BY <1>2, <1>3, FS_Product
    <2>. QED
        BY <2>1, <1>2
<1>5. Units(S \cup {x}, amount, bound) = old \cup fresh
    BY DEF Units
<1>6. old \cap fresh = {}
    BY DEF Units
<1>7. Cardinality(old \cup fresh)
        = Cardinality(old) + Cardinality(fresh) - Cardinality(old \cap fresh)
    BY <1>1, <1>4, FS_Union
<1>. HIDE DEF old, fresh
<1>8. Cardinality(old \cap fresh) = 0
    BY <1>6, FS_EmptySet
<1>9. Cardinality(old \cup fresh) = Cardinality(old) + amount[x]
    BY <1>1, <1>4, <1>7, <1>8
<1>. QED
    BY <1>5, <1>9 DEF Tally, old

\* Removing an element takes its amount away, and it was there to take.
LEMMA TallyRemove ==
    ASSUME NEW S, IsFiniteSet(S), NEW x \in S,
           NEW bound \in Nat, NEW amount, amount[x] \in 0 .. bound
    PROVE  /\ Tally(S \ {x}, amount, bound) = Tally(S, amount, bound) - amount[x]
           /\ amount[x] <= Tally(S, amount, bound)
<1>1. IsFiniteSet(S \ {x})
    BY FS_RemoveElement
<1>2. Tally(S \ {x}, amount, bound) \in Nat
    BY <1>1, TallyType
<1>3. (S \ {x}) \cup {x} = S
    OBVIOUS
<1>4. Tally((S \ {x}) \cup {x}, amount, bound)
        = Tally(S \ {x}, amount, bound) + amount[x]
    BY <1>1, TallyAdd
<1>5. Tally(S, amount, bound) = Tally(S \ {x}, amount, bound) + amount[x]
    BY <1>3, <1>4, Zenon
<1>6. amount[x] \in Nat
    OBVIOUS
<1>. QED
    BY <1>2, <1>5, <1>6
\* Amounts of zero count for nothing.
LEMMA TallyZero ==
    ASSUME NEW S, NEW bound \in Nat, NEW amount, \A x \in S : amount[x] = 0
    PROVE  Tally(S, amount, bound) = 0
<1>1. Units(S, amount, bound) = {}
    BY DEF Units
<1>. QED
    BY <1>1, FS_EmptySet DEF Tally

\* Fewer elements of smaller amounts have no greater tally.
LEMMA TallyMono ==
    ASSUME NEW T, IsFiniteSet(T), NEW S \in SUBSET T, NEW bound \in Nat, NEW a, NEW b,
           \A x \in S : a[x] \in Int /\ b[x] \in Int /\ a[x] <= b[x]
    PROVE  Tally(S, a, bound) <= Tally(T, b, bound)
<1>1. Units(S, a, bound) \in SUBSET Units(T, b, bound)
    BY DEF Units
<1>2. IsFiniteSet(Units(T, b, bound))
    BY TallyType
<1>. QED
    BY <1>1, <1>2, FS_Subset DEF Tally

\* The tally of two sets that do not meet is the sum of theirs.
LEMMA TallyUnion ==
    ASSUME NEW S, IsFiniteSet(S), NEW T, IsFiniteSet(T), S \cap T = {},
           NEW bound \in Nat, NEW amount
    PROVE  Tally(S \cup T, amount, bound) = Tally(S, amount, bound) + Tally(T, amount, bound)
<1> DEFINE one   == Units(S, amount, bound)
           other == Units(T, amount, bound)
<1>1. IsFiniteSet(one) /\ IsFiniteSet(other) /\ Cardinality(one) \in Nat /\ Cardinality(other) \in Nat
    BY TallyType DEF Tally
<1>2. Units(S \cup T, amount, bound) = one \cup other
    BY DEF Units
<1>3. one \cap other = {}
    BY DEF Units
<1>. HIDE DEF one, other
<1>4. Cardinality(one \cup other)
        = Cardinality(one) + Cardinality(other) - Cardinality(one \cap other)
    BY <1>1, FS_Union
<1>5. Cardinality(one \cap other) = 0
    BY <1>3, FS_EmptySet
<1>6. Cardinality(one \cup other) = Cardinality(one) + Cardinality(other)
    BY <1>1, <1>4, <1>5
<1>. QED
    BY <1>2, <1>6 DEF Tally, one, other

\* Changing the amount of one element changes the tally by the difference.
LEMMA TallyUpdate ==
    ASSUME NEW S, IsFiniteSet(S), NEW x \in S, NEW bound \in Nat, NEW a, NEW b,
           a[x] \in 0 .. bound, b[x] \in 0 .. bound, \A y \in S \ {x} : a[y] = b[y]
    PROVE  Tally(S, b, bound) = Tally(S, a, bound) - a[x] + b[x]
<1>1. Tally(S \ {x}, a, bound) = Tally(S, a, bound) - a[x]
    BY TallyRemove
<1>2. Tally(S \ {x}, b, bound) = Tally(S, b, bound) - b[x]
    BY TallyRemove
<1>3. Tally(S \ {x}, a, bound) = Tally(S \ {x}, b, bound)
    BY TallySame
<1>4. Tally(S, a, bound) \in Nat /\ Tally(S, b, bound) \in Nat
    BY TallyType
<1>. QED
    BY <1>1, <1>2, <1>3, <1>4
============================================================================
