------------------------------ MODULE Checkout ------------------------------
(* POST /orders of one customer (OrdersService.create): the Idempotency-Key,  *)
(* its record, and the cart, which is read long before the transaction that   *)
(* orders it and empties it.  A step is what runs between two awaits; the     *)
(* transaction is one step.  A request may die anywhere.                      *)

CONSTANTS
    Requests,   \* the POSTs; each is sent at most once
    IdemKeys,   \* Idempotency-Key values
    Bodies,     \* address, coupon and cashback of a body
    Contents,   \* non-empty contents of a cart
    Absent      \* no row, an empty cart, nothing read yet

ASSUME CheckoutAssumption ==
    /\ Absent \notin Contents \cup Requests \cup IdemKeys \cup Bodies
    /\ Absent \notin Bodies \X (Contents \cup {Absent})
    /\ \A k \in IdemKeys, h \in Bodies \X (Contents \cup {Absent}) :
          Absent # [key |-> k, hash |-> h]

VARIABLES
    cart,       \* contents of the customer's cart, Absent when empty
    inStock,    \* the contents that the stock covers now
    record,     \* IdempotencyRecord of a key
    order,      \* orders, named by the request that made them
    req         \* requests

checkoutVars == <<cart, inStock, record, order, req>>

CartContents == Contents \cup {Absent}

\* canonicalOrderHash: equal exactly when body and items are
Hash == Bodies \X CartContents

Answers == {"none", "order", "reused", "short", "refused", "dead"}
Steps == {"unsent", "record", "cart", "claim", "reread", "raced", "check",
          "commit", "complete", "done"}

CheckoutTypeOK ==
    /\ cart \in CartContents
    /\ inStock \subseteq Contents
    /\ record \in [IdemKeys -> [status : {"none", "pending", "completed"},
                            hash : Hash \cup {Absent},
                            response : Requests \cup {Absent}]]
    /\ order \in [Requests -> [key : IdemKeys, hash : Hash] \cup {Absent}]
    /\ req \in [Requests -> [step : Steps, key : IdemKeys \cup {Absent},
                             body : Bodies \cup {Absent}, items : CartContents,
                             covered : BOOLEAN,
                             sawOrder : Requests \cup {Absent},
                             sawRecord : [status : {"none", "pending", "completed"},
                                          hash : Hash \cup {Absent},
                                          response : Requests \cup {Absent}],
                             answer : Answers, told : Requests \cup {Absent}]]
    /\ \A r \in Requests : req[r].answer = "order" => req[r].told # Absent

NoRecord == [status |-> "none", hash |-> Absent, response |-> Absent]

CheckoutInit ==
    /\ cart = Absent
    /\ inStock = Contents
    /\ record = [k \in IdemKeys |-> NoRecord]
    /\ order = [r \in Requests |-> Absent]
    /\ req = [r \in Requests |->
                [step |-> "unsent", key |-> Absent, body |-> Absent,
                 items |-> Absent, covered |-> FALSE, sawOrder |-> Absent,
                 sawRecord |-> NoRecord, answer |-> "none", told |-> Absent]]

-----------------------------------------------------------------------------
OrdersOf(k) == {o \in Requests : order[o] # Absent /\ order[o].key = k}

\* loadExistingOrder: (userId, idempotencyKey) is unique
OrderOf(k) == IF OrdersOf(k) = {} THEN Absent ELSE CHOOSE o \in OrdersOf(k) : TRUE

\* a record's hash is compared only when the record has one
DiffersNever(rec, h) == FALSE       \* mutant: the hashes are not compared

Differs(rec, h) == rec.status # "none" /\ rec.hash # h

Completed(rec) == rec.status = "completed"

Goto(r, step) == req' = [req EXCEPT ![r].step = step]
Reply(r, answer, o) ==
    req' = [req EXCEPT ![r].step = "done", ![r].answer = answer, ![r].told = o]

HashOf(r) == <<req[r].body, req[r].items>>

\* What the record's hash is compared with: a replay stands for the items of its
\* order, not for those of the cart.
ComparedWithCart(r, replay) ==      \* mutant: the emptied cart is compared
    <<req[r].body, cart>>

ComparedWith(r, replay) ==
    <<req[r].body, IF replay THEN order[req[r].sawOrder].hash[2] ELSE cart>>

-----------------------------------------------------------------------------
(* The world around a checkout.                                               *)

\* the cart's endpoints
EditCart == /\ \E c \in CartContents \ {cart} : cart' = c
            /\ UNCHANGED <<inStock, record, order, req>>

\* others buy, administrators edit
StockMoves == /\ \E s \in SUBSET Contents \ {inStock} : inStock' = s
              /\ UNCHANGED <<cart, record, order, req>>

-----------------------------------------------------------------------------
(* create, from its first read.                                               *)

ReadOrder(r, k, b) ==
    /\ req[r].step = "unsent"
    /\ req' = [req EXCEPT ![r].step = "record", ![r].key = k, ![r].body = b,
                          ![r].sawOrder = OrderOf(k)]
    /\ UNCHANGED <<cart, inStock, record, order>>

ReadRecord(r) ==
    /\ req[r].step = "record"
    /\ req' = [req EXCEPT ![r].step = "cart", ![r].sawRecord = record[req[r].key]]
    /\ UNCHANGED <<cart, inStock, record, order>>

\* What create decides once it has read order, record and cart.  A completed
\* record whose order was not seen is answered without comparing.
\* What was read of the record is used no more after it.
ReadCart(r) ==
    LET saw == req[r].sawOrder
        rec == req[r].sawRecord
        replay == saw # Absent /\ (Completed(rec) \/ cart = Absent)
        conflict == (Completed(rec) => saw # Absent) /\ Differs(rec, ComparedWith(r, replay))
        found == IF Completed(rec) THEN rec.response ELSE saw
        read == [req[r] EXCEPT !.items = cart, !.covered = cart \in inStock,
                               !.sawRecord = NoRecord]
    IN  /\ req[r].step = "cart"
        /\ \/ /\ conflict
              /\ req' = [req EXCEPT ![r] = [read EXCEPT !.step = "done", !.answer = "reused"]]
           \/ /\ ~conflict
              /\ found # Absent
              /\ req' = [req EXCEPT ![r] = [read EXCEPT !.step = "done", !.answer = "order",
                                                       !.told = found]]
           \/ /\ ~conflict
              /\ found = Absent
              /\ req' = [req EXCEPT ![r] = [read EXCEPT !.step = "claim"]]
        /\ UNCHANGED <<cart, inStock, record, order>>

\* insert the record as pending; on a duplicate key read it again
Claim(r) ==
    LET k == req[r].key
    IN  /\ req[r].step = "claim"
        /\ \/ /\ record[k].status = "none"
              /\ record' = [record EXCEPT ![k] = [status |-> "pending",
                                                  hash |-> HashOf(r),
                                                  response |-> Absent]]
              /\ Goto(r, "check")
           \/ /\ record[k].status # "none"
              /\ Goto(r, "reread")
              /\ UNCHANGED record
        /\ UNCHANGED <<cart, inStock, order>>

Reread(r) ==
    LET rec == record[req[r].key]
    IN  /\ req[r].step = "reread"
        /\ \/ /\ Differs(rec, HashOf(r))
              /\ Reply(r, "reused", Absent)
           \/ /\ ~Differs(rec, HashOf(r))
              /\ Completed(rec)
              /\ Reply(r, "order", rec.response)
           \/ /\ ~Differs(rec, HashOf(r))
              /\ ~Completed(rec)
              /\ Goto(r, "raced")
        /\ UNCHANGED <<cart, inStock, record, order>>

ReadRaced(r) ==
    /\ req[r].step = "raced"
    /\ IF OrderOf(req[r].key) # Absent
         THEN Reply(r, "order", OrderOf(req[r].key))
         ELSE Goto(r, "check")
    /\ UNCHANGED <<cart, inStock, record, order>>

\* address, empty cart, stock as read with the cart, coupon, cashback, freight
Preflight(r) ==
    /\ req[r].step = "check"
    /\ \/ /\ req[r].items # Absent
          /\ ~req[r].covered
          /\ Reply(r, "short", Absent)
       \/ Reply(r, "refused", Absent)
       \/ /\ req[r].items # Absent
          /\ req[r].covered
          /\ Goto(r, "commit")
    /\ UNCHANGED <<cart, inStock, record, order>>

CanOrderAgain(r) ==                 \* mutant: no unique order per key
    req[r].items \in inStock

CanOrder(r) == OrderOf(req[r].key) = Absent /\ req[r].items \in inStock

\* The transaction.  An order of the key found in it is the answer, and so is
\* one met as a duplicate key, which skips the update of the record.  Stock,
\* coupon or cashback may be gone by now.  It empties the cart as it is now,
\* whatever was read from it.
Commit(r) ==
    LET k == req[r].key
    IN  /\ req[r].step = "commit"
        /\ \/ /\ OrderOf(k) # Absent
              /\ \/ req' = [req EXCEPT ![r].step = "complete", ![r].told = OrderOf(k)]
                 \/ Reply(r, "order", OrderOf(k))
              /\ UNCHANGED <<cart, order>>
           \/ /\ OrderOf(k) = Absent
              /\ \/ req[r].items \notin inStock /\ Reply(r, "short", Absent)
                 \/ Reply(r, "refused", Absent)
              /\ UNCHANGED <<cart, order>>
           \/ /\ CanOrder(r)
              /\ order' = [order EXCEPT ![r] = [key |-> k, hash |-> HashOf(r)]]
              /\ cart' = Absent
              /\ req' = [req EXCEPT ![r].step = "complete", ![r].told = r]
        /\ UNCHANGED <<inStock, record>>

\* best effort: an error is swallowed
Complete(r) ==
    /\ req[r].step = "complete"
    /\ \/ record' = [record EXCEPT ![req[r].key] = [status |-> "completed",
                                                    hash |-> HashOf(r),
                                                    response |-> req[r].told]]
       \/ UNCHANGED record
    /\ Reply(r, "order", req[r].told)
    /\ UNCHANGED <<cart, inStock, order>>

\* the process dies, or the answer is lost
Die(r) ==
    /\ req[r].step \notin {"unsent", "done"}
    /\ Reply(r, "dead", Absent)
    /\ UNCHANGED <<cart, inStock, record, order>>

-----------------------------------------------------------------------------
CheckoutStep(r) == \/ \E k \in IdemKeys, b \in Bodies : ReadOrder(r, k, b)
           \/ ReadRecord(r) \/ ReadCart(r) \/ Claim(r) \/ Reread(r)
           \/ ReadRaced(r) \/ Preflight(r) \/ Commit(r) \/ Complete(r)
           \/ Die(r)

CheckoutNext == EditCart \/ StockMoves \/ \E r \in Requests : CheckoutStep(r)

CheckoutSpec == CheckoutInit /\ [][CheckoutNext]_checkoutVars

-----------------------------------------------------------------------------
(* Properties.                                                                *)

\* A key makes one order, its record holds the hash of what that order
\* contains, and a completed record answers with that very order, however the
\* requests that share the key interleave.
RecordTellsTheOrder ==
    \A k \in IdemKeys :
        /\ \A o, p \in OrdersOf(k) : o = p
        /\ \A o \in OrdersOf(k) : record[k].status # "none" /\ record[k].hash = order[o].hash
        /\ record[k].status = "completed" => record[k].response \in OrdersOf(k)

\* A retry that finds the order made and the cart emptied by it, as it is after
\* a crash before the record was completed, is refused only if its body is not
\* the order's.
RetryFindsTheOrder ==
    \A r \in Requests :
        (req[r].answer = "reused" /\ req[r].sawOrder # Absent /\ req[r].items = Absent)
            => req[r].body # order[req[r].sawOrder].hash[1]

\* A retry that finds the order is answered with it only if it asks for the same:
\* a request told of an order with another body looked before that order was made.
ToldOfItsOwn ==
    \A r \in Requests :
        (req[r].answer = "order" /\ req[r].sawOrder # Absent)
            => req[r].body = order[req[r].told].hash[1]

\* The checkout is an operation that takes effect once for its key.
Once == INSTANCE OnceOnly WITH
            Keys <- IdemKeys, Effects <- Requests, Nothing <- Absent,
            effect <- [k \in IdemKeys |-> OrderOf(k)],
            asked <- [r \in Requests |-> req[r].key],
            told <- [r \in Requests |-> IF req[r].answer = "order" THEN req[r].told
                                        ELSE Absent]
ImplementsOnceOnly == Once!Spec

\* What the storefront tells its customers: an order refused for its stock is
\* put right in the cart.  So the key, kept for the retry, is not refused as
\* used with other contents while it has made no order.
FixedCartIsAccepted ==
    \A r, q \in Requests :
        (/\ req[q].answer = "short" /\ req[r].answer = "reused"
         /\ req[q].key = req[r].key /\ req[q].body = req[r].body)
            => OrdersOf(req[r].key) # {}
=============================================================================
