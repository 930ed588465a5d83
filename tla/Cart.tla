-------------------------------- MODULE Cart --------------------------------
(* The carts of one customer, before and after signing in (CartService), one  *)
(* product line of them: lines do not depend on each other.  Nothing in the   *)
(* schema makes a customer's cart unique, quantities are written as absolute  *)
(* values, and a visitor's cart is read before the transaction that merges it.*)

EXTENDS Tally

CONSTANTS
    CartIds,    \* rows of Cart
    Adds,       \* POST /cart/items requests between their awaits
    Merges,     \* merges of the visitor's cart, one per sign-in
    MaxQty,     \* bound on available units and on a requested quantity
    MaxAsked    \* bound on the units ever asked for

ASSUME CartAssumption ==
    /\ IsFiniteSet(CartIds) /\ IsFiniteSet(Adds)
    /\ MaxQty \in Nat /\ MaxAsked \in Nat

VARIABLES
    owner,      \* of a cart: "user", "guest"; "none" before it exists, then "gone"
    line,       \* quantity of the product in a cart, 0 when it has no such row
    row,        \* how many such rows the cart has had: the identity of the row
    available,  \* qtyOnHand - qtyReserved
    add,        \* requests between read and write
    merge,      \* merges between read and transaction
    asked       \* history: units the customer ever asked for

cartVars == <<owner, line, row, available, add, merge, asked>>

Qty == 0..MaxAsked
Resting == [step |-> "idle"]

CartTypeOK ==
    /\ owner \in [CartIds -> {"none", "guest", "user", "gone"}]
    /\ line \in [CartIds -> Qty]
    /\ row \in [CartIds -> Nat]
    /\ available \in 0..MaxQty
    /\ asked \in Qty
    /\ \A a \in Adds : add[a] = Resting \/ add[a].step \in {"resolve", "create", "line", "write"}
    /\ \A m \in Merges : merge[m] = Resting \/ merge[m].step \in {"resolve", "create", "merge"}

CartInit ==
    /\ owner = [c \in CartIds |-> "none"]
    /\ line = [c \in CartIds |-> 0]
    /\ row = [c \in CartIds |-> 0]
    /\ available = MaxQty
    /\ add = [a \in Adds |-> Resting]
    /\ merge = [m \in Merges |-> Resting]
    /\ asked = 0

CartsOf(who) == {c \in CartIds : owner[c] = who}

Rest(handlers, h) == [handlers EXCEPT ![h] = Resting]

-----------------------------------------------------------------------------
(* addItem.                                                                   *)

ReadProduct(a, who, qty) ==
    /\ add[a] = Resting
    /\ qty <= available
    /\ asked + qty <= MaxAsked
    /\ asked' = asked + qty
    /\ add' = [add EXCEPT ![a] = [step |-> "resolve", who |-> who, qty |-> qty,
                                  available |-> available]]
    /\ UNCHANGED <<owner, line, row, available, merge>>

ResolveForAdd(a) ==
    /\ add[a].step = "resolve"
    /\ \/ \E c \in CartsOf(add[a].who) :
             add' = [add EXCEPT ![a] = [step |-> "line", cart |-> c, qty |-> add[a].qty,
                                        available |-> add[a].available]]
       \/ /\ CartsOf(add[a].who) = {}
          /\ add' = [add EXCEPT ![a].step = "create"]
    /\ UNCHANGED <<owner, line, row, available, merge, asked>>

\* whoever else may have created one since none was found
CreateForAdd(a) ==
    /\ add[a].step = "create"
    /\ \E c \in CartsOf("none") :
          /\ owner' = [owner EXCEPT ![c] = add[a].who]
          /\ add' = [add EXCEPT ![a] = [step |-> "line", cart |-> c, qty |-> add[a].qty,
                                        available |-> add[a].available]]
    /\ UNCHANGED <<line, row, available, merge, asked>>

ReadLine(a) ==
    LET existing == line[add[a].cart]
    IN  /\ add[a].step = "line"
        /\ \/ /\ existing > 0
              /\ existing + add[a].qty > add[a].available
              /\ add' = Rest(add, a)
           \/ /\ existing = 0 \/ existing + add[a].qty <= add[a].available
              /\ add' = [add EXCEPT ![a] = [step |-> "write", cart |-> add[a].cart,
                                            row |-> IF existing > 0 THEN row[add[a].cart] ELSE 0,
                                            qty |-> existing + add[a].qty]]
        /\ UNCHANGED <<owner, line, row, available, merge, asked>>

\* An update needs the row that was read; an insert needs that there still is
\* none and that the cart still exists.  Otherwise the request fails.
WriteLine(a) ==
    LET c == add[a].cart
    IN  /\ add[a].step = "write"
        /\ \/ /\ add[a].row > 0
              /\ line[c] > 0
              /\ add[a].row = row[c]
              /\ line' = [line EXCEPT ![c] = add[a].qty]
              /\ UNCHANGED row
           \/ /\ add[a].row = 0
              /\ line[c] = 0
              /\ owner[c] # "gone"
              /\ line' = [line EXCEPT ![c] = add[a].qty]
              /\ row' = [row EXCEPT ![c] = @ + 1]
           \/ /\ \/ line[c] = 0 <=> add[a].row > 0
                 \/ add[a].row > 0 /\ add[a].row # row[c]
                 \/ owner[c] = "gone"
              /\ UNCHANGED <<line, row>>
        /\ add' = Rest(add, a)
        /\ UNCHANGED <<owner, available, merge, asked>>

-----------------------------------------------------------------------------
(* The other endpoints, and the stock.                                        *)

UpdateItem(c, qty) ==
    /\ line[c] > 0
    /\ qty \in 1..available
    /\ asked + qty <= MaxAsked
    /\ asked' = asked + qty
    /\ line' = [line EXCEPT ![c] = qty]
    /\ UNCHANGED <<owner, row, available, add, merge>>

\* removeItem, clear, and the checkout that orders the cart
RemoveItem(c) ==
    /\ line[c] > 0
    /\ line' = [line EXCEPT ![c] = 0]
    /\ UNCHANGED <<owner, row, available, add, merge, asked>>

\* getCart of a customer without one
GetCart(who) ==
    /\ CartsOf(who) = {}
    /\ \E c \in CartsOf("none") : owner' = [owner EXCEPT ![c] = who]
    /\ UNCHANGED <<line, row, available, add, merge, asked>>

AvailableMoves ==
    /\ available' \in 0..MaxQty \ {available}
    /\ UNCHANGED <<owner, line, row, add, merge, asked>>

-----------------------------------------------------------------------------
(* mergeGuestIntoUser.                                                        *)

\* an empty visitor's cart is deleted and there is nothing to merge
ReadGuestCart(m) ==
    /\ merge[m] = Resting
    /\ \E c \in CartsOf("guest") :
          \/ /\ line[c] = 0
             /\ owner' = [owner EXCEPT ![c] = "gone"]
             /\ UNCHANGED merge
          \/ /\ line[c] > 0
             /\ merge' = [merge EXCEPT ![m] = [step |-> "resolve", guest |-> c,
                                               qty |-> line[c], available |-> available]]
             /\ UNCHANGED owner
    /\ UNCHANGED <<line, row, available, add, asked>>

ResolveForMerge(m) ==
    /\ merge[m].step = "resolve"
    /\ \/ \E c \in CartsOf("user") :
             merge' = [merge EXCEPT ![m] = [step |-> "merge", guest |-> merge[m].guest,
                                            cart |-> c, qty |-> merge[m].qty,
                                            available |-> merge[m].available]]
       \/ /\ CartsOf("user") = {}
          /\ merge' = [merge EXCEPT ![m].step = "create"]
    /\ UNCHANGED <<owner, line, row, available, add, asked>>

CreateForMerge(m) ==
    /\ merge[m].step = "create"
    /\ \E c \in CartsOf("none") :
          /\ owner' = [owner EXCEPT ![c] = "user"]
          /\ merge' = [merge EXCEPT ![m] = [step |-> "merge", guest |-> merge[m].guest,
                                            cart |-> c, qty |-> merge[m].qty,
                                            available |-> merge[m].available]]
    /\ UNCHANGED <<line, row, available, add, asked>>

AtMost(n, limit) == IF n <= limit THEN n ELSE limit

CanMergeAgain(m) == TRUE            \* mutant: deleteMany, which never throws

\* Deleting a cart that is gone throws: the transaction is rolled back.
CanMerge(m) == owner[merge[m].guest] = "guest"

MergeCarts(m) ==
    LET g == merge[m].guest
        c == merge[m].cart
        merged == IF merge[m].available > 0
                    THEN AtMost(line[c] + merge[m].qty, merge[m].available)
                    ELSE line[c]
    IN  /\ merge[m].step = "merge"
        /\ IF CanMerge(m)
             THEN /\ line' = [line EXCEPT ![c] = merged, ![g] = 0]
                  /\ row' = IF line[c] = 0 /\ merged > 0 THEN [row EXCEPT ![c] = @ + 1] ELSE row
                  /\ owner' = [owner EXCEPT ![g] = "gone"]
             ELSE UNCHANGED <<line, row, owner>>
        /\ merge' = Rest(merge, m)
        /\ UNCHANGED <<available, add, asked>>

\* the process dies between two awaits
LoseAdd(a) == /\ add[a] # Resting
              /\ add' = Rest(add, a)
              /\ UNCHANGED <<owner, line, row, available, merge, asked>>

LoseMerge(m) == /\ merge[m] # Resting
                /\ merge' = Rest(merge, m)
                /\ UNCHANGED <<owner, line, row, available, add, asked>>

-----------------------------------------------------------------------------
CartNext ==
    \/ \E a \in Adds, who \in {"guest", "user"}, qty \in 1..MaxQty : ReadProduct(a, who, qty)
    \/ \E a \in Adds : ResolveForAdd(a) \/ CreateForAdd(a) \/ ReadLine(a) \/ WriteLine(a) \/ LoseAdd(a)
    \/ \E c \in CartIds, qty \in 1..MaxQty : UpdateItem(c, qty)
    \/ \E c \in CartIds : RemoveItem(c)
    \/ \E who \in {"guest", "user"} : GetCart(who)
    \/ AvailableMoves
    \/ \E m \in Merges : \/ ReadGuestCart(m) \/ ResolveForMerge(m) \/ CreateForMerge(m)
                         \/ MergeCarts(m) \/ LoseMerge(m)

CartSpec == CartInit /\ [][CartNext]_cartVars

\* Signing in twice at once, or adding while a merge runs, never multiplies what
\* the customer asked for: a visitor's cart is merged once.
NothingInvented == Tally(CartIds, line, MaxAsked) <= asked
=============================================================================
