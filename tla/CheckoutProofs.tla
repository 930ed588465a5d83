--------------------------- MODULE CheckoutProofs ---------------------------
(***************************************************************************)
(* For any number of requests, keys, bodies and cart contents: a key makes *)
(* one order, its record tells that very order, a retry finds it, and the  *)
(* checkout implements OnceOnly.                                           *)
(*                                                                         *)
(* What makes it true: the hash in a record never changes once written,    *)
(* and whoever gets past the claim holds the same hash; so an order made   *)
(* under the key, by whichever request, has the hash of the record.        *)
(***************************************************************************)
EXTENDS Checkout, TLAPS

RecordRow == [status : {"none", "pending", "completed"},
              hash : Hash \cup {Absent}, response : Requests \cup {Absent}]
OrderRow == [key : IdemKeys, hash : Hash]
RequestRow == [step : Steps, key : IdemKeys \cup {Absent}, body : Bodies \cup {Absent},
               items : CartContents, covered : BOOLEAN, sawOrder : Requests \cup {Absent},
               sawRecord : RecordRow, answer : Answers, told : Requests \cup {Absent}]

Types ==
    /\ cart \in CartContents
    /\ inStock \subseteq Contents
    /\ record \in [IdemKeys -> RecordRow]
    /\ order \in [Requests -> OrderRow \cup {Absent}]
    /\ req \in [Requests -> RequestRow]

IsOrder(o, k, ord) == o \in Requests /\ ord[o] # Absent /\ ord[o].key = k

\* Orders and records agree.
Agree(rec, ord) ==
    /\ \A o \in Requests : ord[o] # Absent =>
          /\ rec[ord[o].key].status # "none"
          /\ rec[ord[o].key].hash = ord[o].hash
    /\ \A o \in Requests, p \in Requests :
          (ord[o] # Absent /\ ord[p] # Absent /\ ord[o].key = ord[p].key) => o = p
    /\ \A k \in IdemKeys : rec[k].status = "completed" => IsOrder(rec[k].response, k, ord)

\* What a request has read is still true, if late; past the claim it holds the
\* hash of the record.
Holding == {"raced", "check", "commit", "complete"}
Claiming == Holding \cup {"claim", "reread"}

RowOK(q, rec, ord) ==
    /\ q.step = "unsent" => q.key = Absent /\ q.sawOrder = Absent
    /\ q.step # "unsent" => q.key \in IdemKeys /\ q.body \in Bodies
    /\ q.step # "done" => q.answer = "none"
    /\ q.sawOrder # Absent => IsOrder(q.sawOrder, q.key, ord)
    /\ (q.step = "cart" /\ q.sawRecord.status # "none") =>
          /\ rec[q.key].status # "none"
          /\ q.sawRecord.hash = rec[q.key].hash
          /\ q.sawRecord.status = "completed" => IsOrder(q.sawRecord.response, q.key, ord)
    /\ q.step \in Claiming => q.sawOrder = Absent
    /\ q.step = "reread" => rec[q.key].status # "none"
    /\ q.step \in Holding => /\ rec[q.key].status # "none"
                             /\ rec[q.key].hash = <<q.body, q.items>>
    /\ (q.step = "complete" \/ q.answer = "order") => IsOrder(q.told, q.key, ord)
    /\ (q.answer = "reused" /\ q.sawOrder # Absent /\ q.items = Absent)
          => q.body # ord[q.sawOrder].hash[1]
    /\ (q.step = "cart" /\ q.sawOrder # Absent) => q.sawRecord.status # "none"
    /\ (q.answer = "order" /\ q.sawOrder # Absent) => q.body = ord[q.told].hash[1]

\* The strengthening.
CheckoutInv ==
    /\ Types
    /\ Agree(record, order)
    /\ \A r \in Requests : RowOK(req[r], record, order)

\* How orders and records move in a step.
Grow ==
    /\ \A o \in Requests : order[o] # Absent => order'[o] = order[o]
    /\ \A k \in IdemKeys : record[k].status # "none" =>
          record'[k].status # "none" /\ record'[k].hash = record[k].hash

----------------------------------------------------------------------------
LEMMA TypesOK ==
    (Types /\ \A r \in Requests : RowOK(req[r], record, order)) => CheckoutTypeOK
BY CheckoutAssumption
   DEF CheckoutTypeOK, Types, RecordRow, OrderRow, RequestRow, RowOK, IsOrder

LEMMA CheckoutInitInv == CheckoutInit => CheckoutInv
<1>. SUFFICES ASSUME CheckoutInit PROVE CheckoutInv
    OBVIOUS
<1>. USE DEF CheckoutInit, NoRecord
<1>1. Types
    BY DEF Types, CartContents, RecordRow, OrderRow, RequestRow, Steps, Answers
<1>2. Agree(record, order)
    BY DEF Agree
<1>3. ASSUME NEW r \in Requests PROVE RowOK(req[r], record, order)
    BY DEF RowOK, Claiming, Holding
<1>. QED
    BY <1>1, <1>2, <1>3 DEF CheckoutInv

\* What held of a row that does not move goes on holding.
LEMMA RowPersists ==
    ASSUME Types, Grow, NEW q \in RequestRow, RowOK(q, record, order)
    PROVE  RowOK(q, record', order')
<1>1. \A o, k : IsOrder(o, k, order) => IsOrder(o, k, order') /\ order'[o] = order[o]
    BY DEF IsOrder, Grow
<1>2. q.step # "unsent" => q.key \in IdemKeys
    BY DEF RowOK
<1>3. q.step \in Claiming \cup {"cart"} => q.step # "unsent"
    BY DEF Claiming, Holding
<1>. QED
    BY <1>1, <1>2, <1>3 DEF RowOK, Grow, Claiming, Holding

\* A step of one request keeps the invariant if it keeps types and agreement,
\* and does right by its own row.
LEMMA OneRow ==
    ASSUME CheckoutInv, NEW r \in Requests, Types', Grow, Agree(record, order)',
           \A q \in Requests \ {r} : req'[q] = req[q],
           RowOK(req[r], record, order)'
    PROVE  CheckoutInv'
<1>1. ASSUME NEW q \in Requests PROVE RowOK(req[q], record, order)'
    <2>1. CASE q = r
        BY <2>1
    <2>2. CASE q # r
        <3>1. req'[q] = req[q] /\ req[q] \in RequestRow
            BY <2>2 DEF CheckoutInv, Types
        <3>. QED
            BY <3>1, RowPersists DEF CheckoutInv
    <2>. QED
        BY <2>1, <2>2
<1>. QED
    BY <1>1 DEF CheckoutInv

LEMMA OrderOfKey ==
    ASSUME Types, Agree(record, order), NEW k \in IdemKeys
    PROVE  /\ OrderOf(k) # Absent => IsOrder(OrderOf(k), k, order)
           /\ \A o \in Requests : IsOrder(o, k, order) => o = OrderOf(k)
           /\ OrderOf(k) \in Requests \cup {Absent}
<1>1. CASE OrdersOf(k) = {}
    BY <1>1 DEF OrderOf, OrdersOf, IsOrder
<1>2. CASE OrdersOf(k) # {}
    <2>1. OrderOf(k) \in OrdersOf(k)
        BY <1>2 DEF OrderOf
    <2>. QED
        BY <2>1 DEF OrdersOf, IsOrder, Agree
<1>. QED
    BY <1>1, <1>2

----------------------------------------------------------------------------
(* The steps of a request. *)

LEMMA ReadOrderKeeps ==
    ASSUME CheckoutInv, NEW r \in Requests, NEW k \in IdemKeys, NEW b \in Bodies,
           ReadOrder(r, k, b)
    PROVE  CheckoutInv'
<1>1. /\ Types /\ Agree(record, order) /\ RowOK(req[r], record, order) /\ req[r] \in RequestRow
      /\ UNCHANGED <<cart, inStock, record, order>>
      /\ req[r].step = "unsent"
      /\ req' = [req EXCEPT ![r] = [req[r] EXCEPT !.step = "record", !.key = k, !.body = b,
                                                 !.sawOrder = OrderOf(k)]]
    BY DEF CheckoutInv, Types, ReadOrder
<1>2. /\ OrderOf(k) # Absent => IsOrder(OrderOf(k), k, order)
      /\ OrderOf(k) \in Requests \cup {Absent}
    BY <1>1, OrderOfKey
<1>3. Types'
    BY <1>1, <1>2 DEF Types, RequestRow, Steps
<1>4. RowOK(req[r], record, order)'
    BY <1>1, <1>2 DEF Types, RequestRow, RowOK, Claiming, Holding
<1>5. Agree(record, order)' /\ Grow
    BY <1>1 DEF Agree, Grow, IsOrder
<1>6. \A q \in Requests \ {r} : req'[q] = req[q]
    BY <1>1 DEF Types
<1>. QED
    BY <1>3, <1>4, <1>5, <1>6, OneRow

LEMMA ReadRecordKeeps ==
    ASSUME CheckoutInv, NEW r \in Requests, ReadRecord(r)
    PROVE  CheckoutInv'
<1>1. /\ Types /\ Agree(record, order) /\ RowOK(req[r], record, order) /\ req[r] \in RequestRow
      /\ UNCHANGED <<cart, inStock, record, order>>
      /\ req[r].step = "record"
      /\ req' = [req EXCEPT ![r] = [req[r] EXCEPT !.step = "cart",
                                                 !.sawRecord = record[req[r].key]]]
    BY DEF CheckoutInv, Types, ReadRecord
<1>2. req[r].key \in IdemKeys
    BY <1>1 DEF RowOK
<1>3. Types'
    BY <1>1, <1>2 DEF Types, RequestRow, Steps
<1>4. RowOK(req[r], record, order)'
    <2>1. req[r].sawOrder # Absent => record[req[r].key].status # "none"
        BY <1>1 DEF RowOK, IsOrder, Agree
    <2>2. req'[r] = [req[r] EXCEPT !.step = "cart", !.sawRecord = record[req[r].key]]
        BY <1>1 DEF Types
    <2>3. /\ req'[r].step = "cart" /\ req'[r].sawRecord = record[req[r].key]
          /\ req'[r].key = req[r].key /\ req'[r].body = req[r].body
          /\ req'[r].answer = req[r].answer /\ req'[r].sawOrder = req[r].sawOrder
        BY <2>2, <1>1 DEF RequestRow
    <2>. QED
        BY <2>1, <2>3, <1>1, <1>2 DEF RowOK, Claiming, Holding, Agree
<1>5. Agree(record, order)' /\ Grow
    BY <1>1 DEF Agree, Grow, IsOrder
<1>6. \A q \in Requests \ {r} : req'[q] = req[q]
    BY <1>1 DEF Types
<1>. QED
    BY <1>3, <1>4, <1>5, <1>6, OneRow

LEMMA ReadCartKeeps ==
    ASSUME CheckoutInv, NEW r \in Requests, ReadCart(r)
    PROVE  CheckoutInv'
<1>. DEFINE saw == req[r].sawOrder
            rec == req[r].sawRecord
            replay == saw # Absent /\ (Completed(rec) \/ cart = Absent)
            conflict == /\ Completed(rec) => saw # Absent
                        /\ Differs(rec, ComparedWith(r, replay))
            found == IF Completed(rec) THEN rec.response ELSE saw
            read == [req[r] EXCEPT !.items = cart, !.covered = cart \in inStock,
                                   !.sawRecord = NoRecord]
<1>0. /\ Types /\ Agree(record, order) /\ RowOK(req[r], record, order) /\ req[r] \in RequestRow
      /\ UNCHANGED <<cart, inStock, record, order>>
      /\ req[r].step = "cart"
    BY DEF CheckoutInv, Types, ReadCart
<1>1. \/ /\ conflict
         /\ req' = [req EXCEPT ![r] = [read EXCEPT !.step = "done", !.answer = "reused"]]
      \/ /\ ~conflict /\ found # Absent
         /\ req' = [req EXCEPT ![r] = [read EXCEPT !.step = "done", !.answer = "order",
                                                  !.told = found]]
      \/ /\ found = Absent
         /\ req' = [req EXCEPT ![r] = [read EXCEPT !.step = "claim"]]
    BY DEF ReadCart
<1>2. /\ read \in RequestRow /\ read.key = req[r].key /\ read.body = req[r].body
      /\ read.items = cart /\ read.sawOrder = saw /\ read.answer = req[r].answer
    <2>1. NoRecord \in RecordRow /\ (cart \in inStock) \in BOOLEAN
        BY DEF NoRecord, RecordRow
    <2>. QED
        BY <1>0, <2>1 DEF Types, RequestRow
<1>3. /\ req[r].key \in IdemKeys /\ req[r].body \in Bodies /\ req[r].answer = "none"
      /\ saw # Absent => IsOrder(saw, req[r].key, order)
      /\ rec.status # "none" => rec.hash = record[req[r].key].hash
      /\ Completed(rec) => IsOrder(rec.response, req[r].key, order)
    BY <1>0 DEF RowOK, Completed
<1>4. /\ found \in Requests \cup {Absent}
      /\ found # Absent => IsOrder(found, req[r].key, order)
      /\ found = Absent => saw = Absent
    BY <1>0, <1>3, CheckoutAssumption DEF RequestRow, RecordRow, IsOrder, Completed
<1>5. (conflict /\ saw # Absent /\ cart = Absent) => req[r].body # order[saw].hash[1]
    <2>. SUFFICES ASSUME conflict, saw # Absent, cart = Absent,
                         req[r].body = order[saw].hash[1]
                  PROVE  FALSE
        OBVIOUS
    <2>1. rec.status # "none" /\ rec.hash # <<req[r].body, order[saw].hash[2]>>
        BY DEF Differs, ComparedWith
    <2>2. order[saw] \in OrderRow /\ order[saw].key = req[r].key
        BY <1>0, <1>3 DEF Types, IsOrder
    <2>3. rec.hash = order[saw].hash
        BY <1>0, <1>3, <2>1, <2>2 DEF Agree, IsOrder
    <2>4. order[saw].hash = <<order[saw].hash[1], order[saw].hash[2]>>
        BY <2>2 DEF OrderRow, Hash
    <2>. QED
        BY <2>1, <2>3, <2>4
<1>own. (~conflict /\ saw # Absent) => req[r].body = order[found].hash[1]
    <2>. SUFFICES ASSUME ~conflict, saw # Absent
                  PROVE  req[r].body = order[found].hash[1]
        OBVIOUS
    <2>1. order[saw] \in OrderRow /\ order[saw].key = req[r].key
        BY <1>0, <1>3 DEF Types, IsOrder
    <2>2. rec.status # "none" /\ rec.hash = order[saw].hash
        BY <1>0, <1>3, <2>1 DEF RowOK, Agree, IsOrder
    <2>3. found = saw
        BY <1>0, <1>3 DEF Agree, IsOrder
    <2>4. rec.hash = ComparedWith(r, replay)
        BY <2>2 DEF Differs
    <2>5. ComparedWith(r, replay)[1] = req[r].body
        BY DEF ComparedWith
    <2>. QED
        BY <2>2, <2>3, <2>4, <2>5
<1>. HIDE DEF read, found, conflict, replay, saw, rec
<1>6. Types'
    <2>1. [read EXCEPT !.step = "done", !.answer = "reused"] \in RequestRow
        BY <1>2 DEF RequestRow, Steps, Answers
    <2>2. [read EXCEPT !.step = "done", !.answer = "order", !.told = found] \in RequestRow
        BY <1>2, <1>4 DEF RequestRow, Steps, Answers
    <2>3. [read EXCEPT !.step = "claim"] \in RequestRow
        BY <1>2 DEF RequestRow, Steps
    <2>4. \A row \in RequestRow : [req EXCEPT ![r] = row] \in [Requests -> RequestRow]
        BY <1>0 DEF Types
    <2>5. req' \in [Requests -> RequestRow]
        BY <1>1, <2>1, <2>2, <2>3, <2>4
    <2>. QED
        BY <1>0, <2>5 DEF Types
<1>7. RowOK(req[r], record, order)'
    <2>1. CASE conflict /\ req' = [req EXCEPT ![r] = [read EXCEPT !.step = "done", !.answer = "reused"]]
        <3>1. req'[r] = [read EXCEPT !.step = "done", !.answer = "reused"]
            BY <2>1, <1>0 DEF Types
        <3>2. /\ req'[r].step = "done" /\ req'[r].answer = "reused" /\ req'[r].key = req[r].key
              /\ req'[r].body = req[r].body /\ req'[r].items = cart /\ req'[r].sawOrder = saw
            BY <3>1, <1>2 DEF RequestRow
        <3>. QED
            BY <2>1, <3>2, <1>0, <1>3, <1>5 DEF RowOK, Claiming, Holding
    <2>2. CASE ~conflict /\ found # Absent /\ req' = [req EXCEPT ![r] = [read EXCEPT !.step = "done",
                                              !.answer = "order", !.told = found]]
        <3>1. req'[r] = [read EXCEPT !.step = "done", !.answer = "order", !.told = found]
            BY <2>2, <1>0 DEF Types
        <3>2. /\ req'[r].step = "done" /\ req'[r].answer = "order" /\ req'[r].key = req[r].key
              /\ req'[r].body = req[r].body /\ req'[r].sawOrder = saw /\ req'[r].told = found
            BY <3>1, <1>2 DEF RequestRow
        <3>. QED
            BY <2>2, <3>2, <1>0, <1>3, <1>4, <1>own DEF RowOK, Claiming, Holding
    <2>3. CASE found = Absent /\ req' = [req EXCEPT ![r] = [read EXCEPT !.step = "claim"]]
        <3>1. req'[r] = [read EXCEPT !.step = "claim"]
            BY <2>3, <1>0 DEF Types
        <3>2. /\ req'[r].step = "claim" /\ req'[r].answer = "none" /\ req'[r].key = req[r].key
              /\ req'[r].body = req[r].body /\ req'[r].sawOrder = Absent
            BY <2>3, <3>1, <1>2, <1>3, <1>4 DEF RequestRow
        <3>. QED
            BY <3>2, <1>0, <1>3 DEF RowOK, Claiming, Holding
    <2>. QED
        BY <1>1, <2>1, <2>2, <2>3
<1>8. Agree(record, order)' /\ Grow
    BY <1>0 DEF Agree, Grow, IsOrder
<1>9. \A q \in Requests \ {r} : req'[q] = req[q]
    BY <1>0, <1>1 DEF Types
<1>. QED
    BY <1>6, <1>7, <1>8, <1>9, OneRow

\* The row of a request that goes on, and of one that is answered.
LEMMA GoneOn ==
    ASSUME Types, NEW r \in Requests, NEW step \in Steps, Goto(r, step)
    PROVE  /\ req' \in [Requests -> RequestRow]
           /\ req'[r] = [req[r] EXCEPT !.step = step]
           /\ \A q \in Requests \ {r} : req'[q] = req[q]
BY DEF Types, Goto, RequestRow

LEMMA Answered ==
    ASSUME Types, NEW r \in Requests, NEW answer \in Answers, NEW o \in Requests \cup {Absent},
           Reply(r, answer, o)
    PROVE  /\ req' \in [Requests -> RequestRow]
           /\ req'[r] = [req[r] EXCEPT !.step = "done", !.answer = answer, !.told = o]
           /\ \A q \in Requests \ {r} : req'[q] = req[q]
<1>. DEFINE row == [req[r] EXCEPT !.step = "done", !.answer = answer, !.told = o]
<1>1. row \in RequestRow
    BY DEF Types, RequestRow, Steps
<1>2. req' = [req EXCEPT ![r] = row]
    BY DEF Reply
<1>. QED
    BY <1>1, <1>2 DEF Types

\* Answers that need no more than their row.
LEMMA RowAnswered ==
    ASSUME CheckoutInv, NEW r \in Requests, req[r].step \notin {"unsent", "done"},
           NEW answer \in Answers, NEW o \in Requests \cup {Absent},
           Reply(r, answer, o),
           answer = "order" => IsOrder(o, req[r].key, order),
           answer \in {"order", "reused"} => req[r].sawOrder = Absent,
           UNCHANGED <<cart, inStock, record, order>>
    PROVE  CheckoutInv'
<1>1. Types /\ Agree(record, order) /\ RowOK(req[r], record, order) /\ req[r] \in RequestRow
    BY DEF CheckoutInv, Types
<1>2. /\ req' \in [Requests -> RequestRow]
      /\ req'[r] = [req[r] EXCEPT !.step = "done", !.answer = answer, !.told = o]
      /\ \A q \in Requests \ {r} : req'[q] = req[q]
    BY <1>1, Answered
<1>3. Types' /\ Agree(record, order)' /\ Grow
    BY <1>1, <1>2 DEF Types, Agree, Grow, IsOrder
<1>4. RowOK(req[r], record, order)'
    BY <1>1, <1>2 DEF RowOK, RequestRow, Claiming, Holding
<1>. QED
    BY <1>2, <1>3, <1>4, OneRow

\* Going on within the same claim.
LEMMA RowGoesOn ==
    ASSUME CheckoutInv, NEW r \in Requests, NEW step \in Holding \ {"complete"}, Goto(r, step),
           \/ req[r].step \in Holding
           \/ /\ req[r].step \in Claiming
              /\ record[req[r].key].status # "none"
              /\ record[req[r].key].hash = HashOf(r),
           UNCHANGED <<cart, inStock, record, order>>
    PROVE  CheckoutInv'
<1>1. Types /\ Agree(record, order) /\ RowOK(req[r], record, order) /\ req[r] \in RequestRow
    BY DEF CheckoutInv, Types
<1>2. step \in Steps
    BY DEF Steps, Holding
<1>3. /\ req' \in [Requests -> RequestRow]
      /\ req'[r] = [req[r] EXCEPT !.step = step]
      /\ \A q \in Requests \ {r} : req'[q] = req[q]
    BY <1>1, <1>2, GoneOn
<1>4. Types' /\ Agree(record, order)' /\ Grow
    BY <1>1, <1>3 DEF Types, Agree, Grow, IsOrder
<1>5. RowOK(req[r], record, order)'
    BY <1>1, <1>3 DEF RowOK, RequestRow, Claiming, Holding, HashOf
<1>. QED
    BY <1>3, <1>4, <1>5, OneRow

LEMMA ClaimKeeps ==
    ASSUME CheckoutInv, NEW r \in Requests, Claim(r)
    PROVE  CheckoutInv'
<1>. DEFINE k == req[r].key
<1>1. /\ Types /\ Agree(record, order) /\ RowOK(req[r], record, order) /\ req[r] \in RequestRow
      /\ UNCHANGED <<cart, inStock, order>>
      /\ req[r].step = "claim"
    BY DEF CheckoutInv, Types, Claim
<1>2. k \in IdemKeys /\ req[r].body \in Bodies /\ HashOf(r) \in Hash
      /\ HashOf(r) = <<req[r].body, req[r].items>>
    BY <1>1 DEF RowOK, HashOf, Hash, RequestRow
<1>3. CASE record[k].status = "none"
    <2>1. /\ record' = [record EXCEPT ![k] = [status |-> "pending", hash |-> HashOf(r),
                                             response |-> Absent]]
          /\ Goto(r, "check")
        BY <1>3 DEF Claim
    <2>2. /\ req' \in [Requests -> RequestRow]
          /\ req'[r] = [req[r] EXCEPT !.step = "check"]
          /\ \A q \in Requests \ {r} : req'[q] = req[q]
        BY <1>1, <2>1, GoneOn DEF Steps
    <2>3. record' \in [IdemKeys -> RecordRow]
        BY <1>1, <1>2, <2>1 DEF Types, RecordRow
    <2>4. Types'
        BY <1>1, <2>2, <2>3 DEF Types
    <2>5. /\ record'[k].status = "pending" /\ record'[k].hash = HashOf(r)
          /\ \A j \in IdemKeys \ {k} : record'[j] = record[j]
        BY <1>1, <1>2, <2>1 DEF Types
    <2>6. Grow
        BY <1>1, <1>3, <2>5 DEF Grow
    <2>7. \A o \in Requests : order[o] # Absent => order[o].key \in IdemKeys \ {k}
        BY <1>1, <1>3 DEF Agree, Types, OrderRow
    <2>8. Agree(record, order)'
        BY <1>1, <2>5, <2>7 DEF Agree, IsOrder
    <2>9. RowOK(req[r], record, order)'
        BY <1>1, <1>2, <2>2, <2>5 DEF RowOK, RequestRow, Claiming, Holding
    <2>. QED
        BY <2>2, <2>4, <2>6, <2>8, <2>9, OneRow
<1>4. CASE record[k].status # "none"
    <2>1. Goto(r, "reread") /\ record' = record
        BY <1>4 DEF Claim
    <2>2. /\ req' \in [Requests -> RequestRow]
          /\ req'[r] = [req[r] EXCEPT !.step = "reread"]
          /\ \A q \in Requests \ {r} : req'[q] = req[q]
        BY <1>1, <2>1, GoneOn DEF Steps
    <2>3. Types' /\ Agree(record, order)' /\ Grow
        BY <1>1, <2>1, <2>2 DEF Types, Agree, Grow, IsOrder
    <2>4. RowOK(req[r], record, order)'
        BY <1>1, <1>4, <2>1, <2>2 DEF RowOK, RequestRow, Claiming, Holding
    <2>. QED
        BY <2>2, <2>3, <2>4, OneRow
<1>. QED
    BY <1>3, <1>4

LEMMA RereadKeeps ==
    ASSUME CheckoutInv, NEW r \in Requests, Reread(r)
    PROVE  CheckoutInv'
<1>. DEFINE rec == record[req[r].key]
<1>1. /\ Types /\ Agree(record, order) /\ RowOK(req[r], record, order) /\ req[r] \in RequestRow
      /\ UNCHANGED <<cart, inStock, record, order>>
      /\ req[r].step = "reread"
    BY DEF CheckoutInv, Types, Reread
<1>2. req[r].key \in IdemKeys /\ rec.status # "none" /\ req[r].sawOrder = Absent
    BY <1>1 DEF RowOK, Claiming
<1>3. CASE Reply(r, "reused", Absent)
    BY <1>1, <1>2, <1>3, RowAnswered DEF Answers
<1>4. CASE Completed(rec) /\ Reply(r, "order", rec.response)
    <2>1. IsOrder(rec.response, req[r].key, order)
        BY <1>1, <1>2, <1>4 DEF Completed, Agree
    <2>2. rec.response \in Requests \cup {Absent}
        BY <2>1 DEF IsOrder
    <2>. QED
        BY <1>1, <1>2, <1>4, <2>1, <2>2, RowAnswered DEF Answers
<1>5. CASE ~Differs(rec, HashOf(r)) /\ Goto(r, "raced")
    BY <1>1, <1>2, <1>5, RowGoesOn DEF Differs, Holding, Claiming
<1>. QED
    BY <1>3, <1>4, <1>5 DEF Reread

LEMMA ReadRacedKeeps ==
    ASSUME CheckoutInv, NEW r \in Requests, ReadRaced(r)
    PROVE  CheckoutInv'
<1>1. /\ Types /\ Agree(record, order) /\ RowOK(req[r], record, order)
      /\ UNCHANGED <<cart, inStock, record, order>>
      /\ req[r].step = "raced"
    BY DEF CheckoutInv, Types, ReadRaced
<1>2. req[r].key \in IdemKeys /\ req[r].sawOrder = Absent
    BY <1>1 DEF RowOK, Claiming, Holding
<1>3. CASE OrderOf(req[r].key) # Absent
    <2>1. /\ IsOrder(OrderOf(req[r].key), req[r].key, order)
          /\ OrderOf(req[r].key) \in Requests \cup {Absent}
        BY <1>1, <1>2, <1>3, OrderOfKey
    <2>2. Reply(r, "order", OrderOf(req[r].key))
        BY <1>3 DEF ReadRaced
    <2>. QED
        BY <1>1, <1>2, <2>1, <2>2, RowAnswered DEF Answers
<1>4. CASE OrderOf(req[r].key) = Absent
    <2>1. Goto(r, "check")
        BY <1>4 DEF ReadRaced
    <2>. QED
        BY <1>1, <2>1, RowGoesOn DEF Holding
<1>. QED
    BY <1>3, <1>4

LEMMA PreflightKeeps ==
    ASSUME CheckoutInv, NEW r \in Requests, Preflight(r)
    PROVE  CheckoutInv'
<1>1. /\ UNCHANGED <<cart, inStock, record, order>>
      /\ req[r].step = "check"
    BY DEF Preflight
<1>2. CASE Reply(r, "short", Absent)
    BY <1>1, <1>2, RowAnswered DEF Answers
<1>3. CASE Reply(r, "refused", Absent)
    BY <1>1, <1>3, RowAnswered DEF Answers
<1>4. CASE Goto(r, "commit")
    BY <1>1, <1>4, RowGoesOn DEF Holding
<1>. QED
    BY <1>2, <1>3, <1>4 DEF Preflight

LEMMA DieKeeps ==
    ASSUME CheckoutInv, NEW r \in Requests, Die(r)
    PROVE  CheckoutInv'
BY RowAnswered DEF Die, Answers

LEMMA CompleteKeeps ==
    ASSUME CheckoutInv, NEW r \in Requests, Complete(r)
    PROVE  CheckoutInv'
<1>. DEFINE k == req[r].key
            o == req[r].told
<1>1. /\ Types /\ Agree(record, order) /\ RowOK(req[r], record, order) /\ req[r] \in RequestRow
      /\ UNCHANGED <<cart, inStock, order>>
      /\ req[r].step = "complete"
      /\ Reply(r, "order", o)
    BY DEF CheckoutInv, Types, Complete
<1>2. /\ k \in IdemKeys /\ HashOf(r) \in Hash /\ IsOrder(o, k, order) /\ o \in Requests
      /\ record[k].status # "none" /\ record[k].hash = HashOf(r)
      /\ req[r].sawOrder = Absent
    BY <1>1 DEF RowOK, IsOrder, HashOf, Hash, RequestRow, Claiming, Holding
<1>3. CASE record' = record
    BY <1>1, <1>2, <1>3, RowAnswered DEF Answers
<1>4. CASE record' = [record EXCEPT ![k] = [status |-> "completed", hash |-> HashOf(r),
                                            response |-> o]]
    <2>1. /\ req' \in [Requests -> RequestRow]
          /\ req'[r] = [req[r] EXCEPT !.step = "done", !.answer = "order", !.told = o]
          /\ \A q \in Requests \ {r} : req'[q] = req[q]
        BY <1>1, <1>2, Answered DEF Answers
    <2>2. record' \in [IdemKeys -> RecordRow]
        BY <1>1, <1>2, <1>4 DEF Types, RecordRow
    <2>3. Types'
        BY <1>1, <2>1, <2>2 DEF Types
    <2>4. /\ record'[k].status = "completed" /\ record'[k].hash = record[k].hash
          /\ record'[k].response = o
          /\ \A j \in IdemKeys \ {k} : record'[j] = record[j]
        BY <1>1, <1>2, <1>4 DEF Types
    <2>5. Grow
        BY <1>1, <2>4 DEF Grow
    <2>6. \A p \in Requests : order[p] # Absent => order[p].key \in IdemKeys
        BY <1>1 DEF Types, OrderRow
    <2>7. Agree(record, order)'
        BY <1>1, <1>2, <2>4, <2>6 DEF Agree, IsOrder
    <2>8. RowOK(req[r], record, order)'
        BY <1>1, <1>2, <2>1, <2>4 DEF RowOK, RequestRow, Claiming, Holding, IsOrder
    <2>. QED
        BY <2>1, <2>3, <2>5, <2>7, <2>8, OneRow
<1>. QED
    BY <1>3, <1>4 DEF Complete

\* An order carries the name of the request that makes it at the very end.
Made == \A r \in Requests : order[r] # Absent => req[r].step \in {"complete", "done"}

LEMMA CommitKeeps ==
    ASSUME CheckoutInv, Made, NEW r \in Requests, Commit(r)
    PROVE  CheckoutInv'
<1>. DEFINE k == req[r].key
            row == [req[r] EXCEPT !.step = "complete", !.told = r]
<1>1. /\ Types /\ Agree(record, order) /\ RowOK(req[r], record, order) /\ req[r] \in RequestRow
      /\ UNCHANGED <<inStock, record>>
      /\ req[r].step = "commit"
    BY DEF CheckoutInv, Types, Commit
<1>2. /\ k \in IdemKeys /\ HashOf(r) \in Hash /\ req[r].answer = "none"
      /\ req[r].sawOrder = Absent /\ HashOf(r) = <<req[r].body, req[r].items>>
      /\ record[k].status # "none" /\ record[k].hash = HashOf(r)
    BY <1>1 DEF RowOK, HashOf, Hash, RequestRow, Holding, Claiming
<1>3. CASE OrderOf(k) # Absent /\ UNCHANGED <<cart, order>>
    <2>1. IsOrder(OrderOf(k), k, order) /\ OrderOf(k) \in Requests
        BY <1>1, <1>2, <1>3, OrderOfKey DEF IsOrder
    <2>2. CASE Reply(r, "order", OrderOf(k))
        BY <1>1, <1>2, <1>3, <2>1, <2>2, RowAnswered DEF Answers
    <2>3. CASE req' = [req EXCEPT ![r].step = "complete", ![r].told = OrderOf(k)]
        <3>. DEFINE found == [req[r] EXCEPT !.step = "complete", !.told = OrderOf(k)]
        <3>1. found \in RequestRow
            BY <1>1, <2>1 DEF RequestRow, Steps
        <3>2. req' = [req EXCEPT ![r] = found]
            BY <2>3
        <3>3. /\ req' \in [Requests -> RequestRow] /\ req'[r] = found
              /\ \A q \in Requests \ {r} : req'[q] = req[q]
            BY <1>1, <3>1, <3>2 DEF Types
        <3>4. Types' /\ Agree(record, order)' /\ Grow
            BY <1>1, <1>3, <3>3 DEF Types, Agree, Grow, IsOrder
        <3>5. /\ found.step = "complete" /\ found.told = OrderOf(k) /\ found.answer = "none"
              /\ found.key = k /\ found.sawOrder = Absent
              /\ found.body = req[r].body /\ found.items = req[r].items
            BY <1>1, <1>2 DEF RequestRow
        <3>6. RowOK(req[r], record, order)'
            BY <1>1, <1>2, <1>3, <2>1, <3>3, <3>5 DEF RowOK, Claiming, Holding
        <3>. QED
            BY <3>3, <3>4, <3>6, OneRow
    <2>. QED
        BY <1>1, <1>3, <2>2, <2>3 DEF Commit, CanOrder
<1>4. CASE Reply(r, "short", Absent) /\ UNCHANGED <<cart, order>>
    BY <1>1, <1>4, RowAnswered DEF Answers
<1>5. CASE Reply(r, "refused", Absent) /\ UNCHANGED <<cart, order>>
    BY <1>1, <1>5, RowAnswered DEF Answers
<1>6. CASE /\ CanOrder(r)
           /\ order' = [order EXCEPT ![r] = [key |-> k, hash |-> HashOf(r)]]
           /\ cart' = Absent
           /\ req' = [req EXCEPT ![r].step = "complete", ![r].told = r]
    <2>1. OrderOf(k) = Absent /\ order[r] = Absent
        BY <1>1, <1>6 DEF CanOrder, Made
    <2>2. \A o \in Requests : ~IsOrder(o, k, order)
        BY <1>1, <1>2, <2>1, OrderOfKey, CheckoutAssumption DEF IsOrder, Types
    <2>3. /\ order'[r] = [key |-> k, hash |-> HashOf(r)]
          /\ \A o \in Requests \ {r} : order'[o] = order[o]
          /\ order' \in [Requests -> OrderRow \cup {Absent}]
        BY <1>1, <1>2, <1>6 DEF Types, OrderRow
    <2>4. order'[r] # Absent
        BY <1>2, <2>3, CheckoutAssumption DEF Hash, CartContents
    <2>5. row \in RequestRow
        BY <1>1 DEF RequestRow, Steps
    <2>6. /\ req' \in [Requests -> RequestRow] /\ req'[r] = row
          /\ \A q \in Requests \ {r} : req'[q] = req[q]
        BY <1>1, <1>6, <2>5 DEF Types
    <2>7. /\ row.step = "complete" /\ row.told = r /\ row.answer = "none"
          /\ row.key = k /\ row.sawOrder = Absent
          /\ row.body = req[r].body /\ row.items = req[r].items
        BY <1>1, <1>2 DEF RequestRow
    <2>8. Types'
        BY <1>1, <1>6, <2>3, <2>6 DEF Types, CartContents
    <2>9. Grow
        BY <1>1, <2>1, <2>3 DEF Grow
    <2>10. IsOrder(r, k, order')
        BY <2>3, <2>4 DEF IsOrder
    <2>11. \A o, j : IsOrder(o, j, order) => IsOrder(o, j, order')
        BY <2>1, <2>3 DEF IsOrder
    <2>12. Agree(record, order)'
        BY <1>1, <1>2, <2>2, <2>3, <2>4, <2>11 DEF Agree, IsOrder
    <2>13. RowOK(req[r], record, order)'
        BY <1>1, <1>2, <2>6, <2>7, <2>10 DEF RowOK, Claiming, Holding
    <2>. QED
        BY <2>6, <2>8, <2>9, <2>12, <2>13, OneRow
<1>. QED
    BY <1>3, <1>4, <1>5, <1>6 DEF Commit

----------------------------------------------------------------------------
(* The invariants hold throughout. *)

\* A step of r moves r's row and r's order only, and r makes its order, if at
\* all, as it goes from commit to complete.
LEMMA StepIsOwn ==
    ASSUME Types, NEW r \in Requests, CheckoutStep(r)
    PROVE  /\ \A q \in Requests \ {r} : req'[q] = req[q] /\ order'[q] = order[q]
           /\ req[r].step # "done"
           /\ req[r].step = "complete" => req'[r].step = "done"
           /\ order'[r] = order[r] \/ req'[r].step = "complete"
<1>1. CASE \E k \in IdemKeys, b \in Bodies : ReadOrder(r, k, b)
    BY <1>1 DEF Types, ReadOrder
<1>2. CASE ReadRecord(r)
    BY <1>2 DEF Types, ReadRecord
<1>3. CASE ReadCart(r)
    BY <1>3 DEF Types, ReadCart
<1>4. CASE Claim(r)
    BY <1>4 DEF Types, Claim, Goto
<1>5. CASE Reread(r)
    BY <1>5 DEF Types, Reread, Reply, Goto
<1>6. CASE ReadRaced(r)
    BY <1>6 DEF Types, ReadRaced, Reply, Goto
<1>7. CASE Preflight(r)
    BY <1>7 DEF Types, Preflight, Reply, Goto
<1>8. CASE Commit(r)
    BY <1>8 DEF Types, Commit, Reply, RequestRow
<1>9. CASE Complete(r)
    <2>1. Reply(r, "order", req[r].told) /\ order' = order /\ req[r].step = "complete"
        BY <1>9 DEF Complete
    <2>2. /\ req'[r].step = "done" /\ \A q \in Requests \ {r} : req'[q] = req[q]
        BY <2>1 DEF Types, Reply, RequestRow
    <2>. QED
        BY <2>1, <2>2
<1>10. CASE Die(r)
    <2>1. Reply(r, "dead", Absent) /\ order' = order /\ req[r].step \notin {"unsent", "done"}
        BY <1>10 DEF Die
    <2>2. /\ req'[r] = [req[r] EXCEPT !.step = "done", !.answer = "dead", !.told = Absent]
          /\ \A q \in Requests \ {r} : req'[q] = req[q]
        BY <2>1, Answered DEF Answers
    <2>. QED
        BY <2>1, <2>2 DEF Types, RequestRow
<1>. QED
    BY <1>1, <1>2, <1>3, <1>4, <1>5, <1>6, <1>7, <1>8, <1>9, <1>10 DEF CheckoutStep

LEMMA StepKeeps ==
    ASSUME CheckoutInv, Made, NEW r \in Requests, CheckoutStep(r)
    PROVE  CheckoutInv'
BY ReadOrderKeeps, ReadRecordKeeps, ReadCartKeeps, ClaimKeeps, RereadKeeps,
   ReadRacedKeeps, PreflightKeeps, CommitKeeps, CompleteKeeps, DieKeeps
   DEF CheckoutStep

\* The world moves neither orders nor records nor requests.
LEMMA WorldKeeps ==
    ASSUME CheckoutInv, Made, EditCart \/ StockMoves \/ UNCHANGED checkoutVars
    PROVE  CheckoutInv' /\ Made'
<1>1. UNCHANGED <<record, order, req>> /\ cart' \in CartContents /\ inStock' \subseteq Contents
    BY DEF CheckoutInv, Types, EditCart, StockMoves, checkoutVars
<1>2. Types' /\ Agree(record, order)' /\ Made'
    BY <1>1 DEF CheckoutInv, Types, Agree, IsOrder, Made
<1>3. \A r \in Requests : RowOK(req[r], record, order)'
    BY <1>1 DEF CheckoutInv
<1>. QED
    BY <1>2, <1>3 DEF CheckoutInv

LEMMA NextKeeps ==
    ASSUME CheckoutInv, Made, [CheckoutNext]_checkoutVars
    PROVE  CheckoutInv' /\ Made'
<1>1. CASE \E r \in Requests : CheckoutStep(r)
    <2>1. PICK r \in Requests : CheckoutStep(r)
        BY <1>1
    <2>2. CheckoutInv'
        BY <2>1, StepKeeps
    <2>3. Made'
        BY <2>1, StepIsOwn DEF CheckoutInv, Made
    <2>. QED
        BY <2>2, <2>3
<1>. QED
    BY <1>1, WorldKeeps DEF CheckoutNext

\* Records, orders and requests are as their types say, and what is answered
\* with an order names it.
THEOREM CheckoutTypeCorrect == CheckoutSpec => []CheckoutTypeOK
<1>1. CheckoutInit => CheckoutInv /\ Made
    BY CheckoutInitInv DEF CheckoutInit, Made
<1>2. CheckoutInv => CheckoutTypeOK
    BY TypesOK DEF CheckoutInv
<1>. QED
    BY <1>1, <1>2, NextKeeps, PTL DEF CheckoutSpec

\* A key makes one order, and its record tells that order: with its hash, and,
\* once completed, as its response (OrdersService.create).
THEOREM RecordTells == CheckoutSpec => []RecordTellsTheOrder
<1>1. CheckoutInit => CheckoutInv /\ Made
    BY CheckoutInitInv DEF CheckoutInit, Made
<1>2. CheckoutInv => RecordTellsTheOrder
    BY DEF CheckoutInv, Agree, RecordTellsTheOrder, OrdersOf, IsOrder
<1>. QED
    BY <1>1, <1>2, NextKeeps, PTL DEF CheckoutSpec

\* A retry that finds the order and the cart emptied by it is refused only for
\* a body that is not the order's (the replay of OrdersService.create).
THEOREM RetryFinds == CheckoutSpec => []RetryFindsTheOrder
<1>1. CheckoutInit => CheckoutInv /\ Made
    BY CheckoutInitInv DEF CheckoutInit, Made
<1>2. CheckoutInv => RetryFindsTheOrder
    BY DEF CheckoutInv, RowOK, RetryFindsTheOrder
<1>. QED
    BY <1>1, <1>2, NextKeeps, PTL DEF CheckoutSpec

\* Who sees the order before it is answered with one, is answered with the order
\* of its own body (the comparison of the hashes in OrdersService.create).
THEOREM ToldOfTheirOwn == CheckoutSpec => []ToldOfItsOwn
<1>1. CheckoutInit => CheckoutInv /\ Made
    BY CheckoutInitInv DEF CheckoutInit, Made
<1>2. CheckoutInv => ToldOfItsOwn
    BY DEF CheckoutInv, RowOK, ToldOfItsOwn
<1>. QED
    BY <1>1, <1>2, NextKeeps, PTL DEF CheckoutSpec

\* All the requests of a key that are answered with an order are answered with
\* the same one, whatever their bodies (OrdersService.create).
THEOREM AnswersAgree ==
    CheckoutSpec => [](\A q, r \in Requests :
                          (/\ req[q].answer = "order" /\ req[r].answer = "order"
                           /\ req[q].key = req[r].key) => req[q].told = req[r].told)
<1>. DEFINE Same == \A q, r \in Requests :
                       (/\ req[q].answer = "order" /\ req[r].answer = "order"
                        /\ req[q].key = req[r].key) => req[q].told = req[r].told
<1>1. CheckoutInit => CheckoutInv /\ Made
    BY CheckoutInitInv DEF CheckoutInit, Made
<1>2. CheckoutInv => Same
    BY DEF CheckoutInv, RowOK, IsOrder, Agree
<1>. HIDE DEF Same
<1>3. CheckoutSpec => []Same
    BY <1>1, <1>2, NextKeeps, PTL DEF CheckoutSpec
<1>. QED
    BY <1>3 DEF Same

----------------------------------------------------------------------------
(* The checkout implements OnceOnly. *)

Effect == [k \in IdemKeys |-> OrderOf(k)]
Asked == [r \in Requests |-> req[r].key]
Told == [r \in Requests |-> IF req[r].answer = "order" THEN req[r].told ELSE Absent]

OnceStep == Once!Next \/ UNCHANGED <<Effect, Asked, Told>>

\* A step of a request that makes no order and keeps its key tells of the order
\* of the key, or of nothing.
LEMMA TellsOrStutters ==
    ASSUME CheckoutInv, CheckoutInv', NEW r \in Requests, order' = order,
           \A q \in Requests \ {r} : req'[q] = req[q],
           req[r].step \notin {"unsent", "done"}, req'[r].key = req[r].key
    PROVE  OnceStep
<1>1. /\ req[r].key \in IdemKeys /\ req[r].answer = "none"
      /\ req'[r].answer = "order" => IsOrder(req'[r].told, req'[r].key, order)
    BY DEF CheckoutInv, RowOK
<1>2. Effect' = Effect /\ Asked' = Asked
    BY DEF Effect, Asked, OrderOf, OrdersOf
<1>3. CASE req'[r].answer # "order"
    <2>1. Told' = Told
        BY <1>1, <1>3 DEF Told
    <2>. QED
        BY <1>2, <2>1 DEF OnceStep
<1>4. CASE req'[r].answer = "order"
    <2>1. req'[r].told = OrderOf(req[r].key) /\ OrderOf(req[r].key) # Absent
        <3>1. req'[r].told = OrderOf(req[r].key) /\ req'[r].told \in Requests
            BY <1>1, <1>4, OrderOfKey DEF CheckoutInv, IsOrder
        <3>. QED
            BY <3>1, CheckoutAssumption
    <2>2. Told' = [Told EXCEPT ![r] = OrderOf(req[r].key)]
        BY <1>1, <1>4, <2>1 DEF Told
    <2>3. Told[r] = Absent /\ Asked[r] = req[r].key /\ Effect[Asked[r]] = OrderOf(req[r].key)
        BY <1>1 DEF Told, Asked, Effect
    <2>4. Once!Tell(r)
        BY <1>1, <1>2, <2>1, <2>2, <2>3 DEF Once!Tell, Effect, Asked, Told
    <2>. QED
        BY <2>4 DEF OnceStep, Once!Next
<1>. QED
    BY <1>3, <1>4

\* The first step of a request asks.
LEMMA ReadOrderAsks ==
    ASSUME CheckoutInv, NEW r \in Requests, NEW k \in IdemKeys, NEW b \in Bodies,
           ReadOrder(r, k, b)
    PROVE  OnceStep
<1>1. /\ req \in [Requests -> RequestRow] /\ req[r] \in RequestRow
      /\ req[r].key = Absent /\ order' = order
      /\ req' = [req EXCEPT ![r] = [req[r] EXCEPT !.step = "record", !.key = k, !.body = b,
                                                 !.sawOrder = OrderOf(k)]]
    BY DEF CheckoutInv, Types, RowOK, ReadOrder
<1>2. /\ req'[r].key = k /\ req'[r].answer = req[r].answer /\ req'[r].told = req[r].told
      /\ \A q \in Requests \ {r} : req'[q] = req[q]
    BY <1>1 DEF RequestRow
<1>3. Effect' = Effect
    BY <1>1 DEF Effect, OrderOf, OrdersOf
<1>4. Told' = Told
    BY <1>2 DEF Told
<1>5. Asked[r] = Absent /\ Asked' = [Asked EXCEPT ![r] = k]
    BY <1>1, <1>2 DEF Asked
<1>6. Once!Ask(r, k)
    BY <1>3, <1>4, <1>5 DEF Once!Ask, Effect, Asked, Told
<1>. QED
    BY <1>6 DEF OnceStep, Once!Next

\* The transaction that makes an order performs the operation.
LEMMA OrderingPerforms ==
    ASSUME CheckoutInv, CheckoutInv', Made, NEW r \in Requests, req[r].step = "commit",
           CanOrder(r),
           order' = [order EXCEPT ![r] = [key |-> req[r].key, hash |-> HashOf(r)]],
           req' = [req EXCEPT ![r].step = "complete", ![r].told = r]
    PROVE  OnceStep
<1>. DEFINE k == req[r].key
<1>1. /\ req \in [Requests -> RequestRow] /\ req[r] \in RequestRow
      /\ order \in [Requests -> OrderRow \cup {Absent}] /\ order[r] = Absent
      /\ k \in IdemKeys /\ req[r].answer = "none" /\ OrderOf(k) = Absent
    BY DEF CheckoutInv, Types, RowOK, Made, CanOrder
<1>2. /\ req'[r].key = k /\ req'[r].answer = "none" /\ req'[r].step = "complete"
      /\ req'[r].told = r /\ \A q \in Requests \ {r} : req'[q] = req[q]
    BY <1>1 DEF RequestRow
<1>3. Told' = Told /\ Asked' = Asked
    BY <1>1, <1>2 DEF Told, Asked
<1>4. OrderOf(k)' = r
    <2>1. IsOrder(r, k, order')
        BY <1>2 DEF CheckoutInv, RowOK
    <2>2. \A o \in Requests : IsOrder(o, k, order') => o = r
        BY <2>1 DEF CheckoutInv, Agree, IsOrder
    <2>3. OrdersOf(k)' = {r}
        BY <1>1, <2>1, <2>2 DEF OrdersOf, IsOrder
    <2>. QED
        BY <2>3 DEF OrderOf
<1>5. ASSUME NEW j \in IdemKeys \ {k} PROVE OrderOf(j)' = OrderOf(j)
    <2>1. order'[r] = [key |-> k, hash |-> HashOf(r)] /\ order'[r].key = k
        BY <1>1
    <2>2. \A o \in Requests \ {r} : order'[o] = order[o]
        BY <1>1
    <2>3. OrdersOf(j)' = OrdersOf(j)
        BY <1>1, <2>1, <2>2 DEF OrdersOf
    <2>. QED
        BY <2>3 DEF OrderOf
<1>6. Effect' = [Effect EXCEPT ![k] = r]
    <2>1. Effect'[k] = r
        BY <1>1, <1>2, <1>4 DEF Effect
    <2>2. \A j \in IdemKeys \ {k} : Effect'[j] = Effect[j]
        BY <1>5 DEF Effect
    <2>3. /\ Effect = [j \in IdemKeys |-> Effect[j]]
          /\ Effect' = [j \in IdemKeys |-> Effect'[j]]
        BY DEF Effect
    <2>. QED
        BY <1>1, <2>1, <2>2, <2>3
<1>7. Effect[k] = Absent /\ k \in {Asked[q] : q \in Requests}
    BY <1>1 DEF Effect, Asked
<1>8. Once!Perform(k, r)
    BY <1>3, <1>6, <1>7 DEF Once!Perform, Effect, Asked, Told
<1>. QED
    BY <1>1, <1>8 DEF OnceStep, Once!Next

\* No other step makes an order, and none but the first sets the key.
LEMMA StepTells ==
    ASSUME CheckoutInv, CheckoutInv', Made, NEW r \in Requests, CheckoutStep(r)
    PROVE  OnceStep
<1>1. CASE \E k \in IdemKeys, b \in Bodies : ReadOrder(r, k, b)
    BY <1>1, ReadOrderAsks
<1>2. CASE Commit(r) /\ order' # order
    BY <1>2, OrderingPerforms DEF Commit, CanOrder
<1>3. CASE order' = order /\ ~\E k \in IdemKeys, b \in Bodies : ReadOrder(r, k, b)
    <2>1. req \in [Requests -> RequestRow] /\ req[r] \in RequestRow
        BY DEF CheckoutInv, Types
    <2>2. \A q \in Requests \ {r} : req'[q] = req[q]
        BY StepIsOwn DEF CheckoutInv
    <2>3. req[r].step \notin {"unsent", "done"} /\ req'[r].key = req[r].key
        <3>1. CASE ReadRecord(r)
            BY <2>1, <3>1 DEF ReadRecord, RequestRow
        <3>2. CASE ReadCart(r)
            <4>. DEFINE read == [req[r] EXCEPT !.items = cart, !.covered = cart \in inStock,
                                               !.sawRecord = NoRecord]
                        found == IF Completed(req[r].sawRecord) THEN req[r].sawRecord.response
                                 ELSE req[r].sawOrder
            <4>1. read.key = req[r].key /\ {"key", "step", "answer", "told"} \subseteq DOMAIN read
                BY <2>1 DEF RequestRow
            <4>2. req[r].step = "cart"
                BY <3>2 DEF ReadCart
            <4>3. \/ req' = [req EXCEPT ![r] = [read EXCEPT !.step = "done", !.answer = "reused"]]
                  \/ req' = [req EXCEPT ![r] = [read EXCEPT !.step = "done", !.answer = "order",
                                                           !.told = found]]
                  \/ req' = [req EXCEPT ![r] = [read EXCEPT !.step = "claim"]]
                BY <3>2 DEF ReadCart
            <4>. HIDE DEF read, found
            <4>4. req'[r].key = read.key
                BY <2>1, <4>1, <4>3
            <4>. QED
                BY <4>1, <4>2, <4>4
        <3>3. CASE Claim(r) \/ Reread(r) \/ ReadRaced(r) \/ Preflight(r)
            BY <2>1, <3>3 DEF Claim, Reread, ReadRaced, Preflight, Goto, Reply, RequestRow
        <3>4. CASE Commit(r) \/ Complete(r) \/ Die(r)
            BY <2>1, <3>4 DEF Commit, Complete, Die, Reply, RequestRow
        <3>. QED
            BY <1>3, <3>1, <3>2, <3>3, <3>4 DEF CheckoutStep
    <2>. QED
        BY <1>3, <2>2, <2>3, TellsOrStutters
<1>4. order' = order \/ Commit(r)
    BY DEF CheckoutStep, ReadOrder, ReadRecord, ReadCart, Claim, Reread, ReadRaced,
           Preflight, Complete, Die
<1>. QED
    BY <1>1, <1>2, <1>3, <1>4

LEMMA NextTells ==
    ASSUME CheckoutInv, CheckoutInv', Made, [CheckoutNext]_checkoutVars
    PROVE  OnceStep
<1>1. CASE \E r \in Requests : CheckoutStep(r)
    BY <1>1, StepTells
<1>2. CASE UNCHANGED <<order, req>>
    BY <1>2 DEF OnceStep, Effect, Asked, Told, OrderOf, OrdersOf
<1>. QED
    BY <1>1, <1>2 DEF CheckoutNext, EditCart, StockMoves, checkoutVars

\* POST /orders takes effect once for its Idempotency-Key, and every answer with
\* an order tells of that one (OrdersService.create).
THEOREM CheckoutImplementsOnceOnly == CheckoutSpec => ImplementsOnceOnly
<1>1. CheckoutInit => CheckoutInv /\ Made
    BY CheckoutInitInv DEF CheckoutInit, Made
<1>2. CheckoutInit => Once!Init
    BY DEF CheckoutInit, Once!Init, OrderOf, OrdersOf
<1>3. (CheckoutInv /\ CheckoutInv' /\ Made /\ [CheckoutNext]_checkoutVars)
          => [Once!Next]_(Once!vars)
    BY NextTells DEF OnceStep, Once!vars, Effect, Asked, Told
<1>. QED
    BY <1>1, <1>2, <1>3, NextKeeps, PTL DEF CheckoutSpec, ImplementsOnceOnly, Once!Spec
============================================================================
