----------------------------- MODULE PlaceOrder -----------------------------
(***************************************************************************)
(* Placing an order (order/pkg/service/service.go, CreateOrder): the part  *)
(* OrderSaga has as one step.  A request looks its idempotency key up,     *)
(* prices its lines one call at a time, takes an order number, reserves    *)
(* stock in the product service, and inserts order, key and event in one   *)
(* transaction; when that fails it gives the stock back and looks the key  *)
(* up again.  Any call may fail, and a call that succeeded may lose its    *)
(* reply.  Clients send a request again as they like.                      *)
(***************************************************************************)
EXTENDS Inventory, SequencesExt

CONSTANTS
  Client,        \* requests under way at once
  Keys,          \* idempotency keys of one customer
  NoKey,         \* a request without one
  Inputs,        \* what is asked for: lines, method, discount
  Prices,        \* prices the catalog gives a variant; 0: not on sale
  ShippingFee,   \* configured delivery fee
  SurchargeBps,  \* configured card surcharge, in basis points
  MaxOrders,     \* bound on the order sequence
  MaxChanges,    \* bound on changes to catalog and stock
  Faults,        \* kinds of fault that happen
  MaxFaults      \* bound on them

ASSUME PlacingAssumption ==
  /\ {ShippingFee, SurchargeBps, MaxOrders, MaxChanges, MaxFaults} \subseteq Nat
  /\ Prices \subseteq Nat
  /\ NoKey \notin Keys
  /\ Faults \subseteq {"died", "reserve lost", "insert failed", "insert lost", "release failed"}

VARIABLES
  price,       \* the catalog now
  ordered,     \* id_sequences row 'order'
  order,       \* tables orders and order_items, by order number
  keyed,       \* table order_idempotency_keys, by key
  req,         \* the request each client has under way
  answers,     \* history: what requests were answered
  changed, faults

placeVars == <<price, ordered, order, keyed, req, answers, changed, faults>>
allVars   == <<vars, placeVars>>

Number  == 1..MaxOrders
NoRow   == [status |-> "none"]
Idle    == [at |-> "idle"]

SumOf(seqOfNumbers) == FoldLeft(+, 0, seqOfNumbers)

\* Lines that name one sku twice are added up (resolveReservationItems).
UnitsAsked(input) ==
  [s \in Sku |-> SumOf([i \in DOMAIN input.lines |->
                          IF input.lines[i].sku = s THEN input.lines[i].units ELSE 0])]

Subtotal(input, unitPrices) ==
  SumOf([i \in DOMAIN input.lines |-> input.lines[i].units * unitPrices[i]])

NormalizePaymentMethod(method) == IF method = "" THEN "credit_card" ELSE method

CardSurchargeWon(base) == (base * SurchargeBps) \div 10000

Surcharge(input, unitPrices) ==
  IF NormalizePaymentMethod(input.method) = "credit_card"
    THEN CardSurchargeWon(Subtotal(input, unitPrices) - input.discount + ShippingFee)
    ELSE 0

\* NewOrder, SetTier and ApplyPaymentMethod accept the order.
ValidOrder(input, unitPrices) ==
  /\ input.discount <= Subtotal(input, unitPrices)
  /\ input.tier <= input.discount
  /\ NormalizePaymentMethod(input.method) \in {"credit_card", "bypass"}

(* The stored hash is of the sorted lines, so their order does not matter;  *)
(* of the method as it was sent, so naming the default one does.            *)
Times(line, input) == Cardinality({i \in DOMAIN input.lines : input.lines[i] = line})
SameRequest(a, b) ==
  /\ a.method = b.method
  /\ a.discount = b.discount
  /\ \A line \in ToSet(a.lines) \cup ToSet(b.lines) : Times(line, a) = Times(line, b)

NewOrder(r) ==
  [status   |-> "pending",
   key      |-> r.key,
   input    |-> r.input,
   hold     |-> r.hold,
   total    |-> Subtotal(r.input, r.prices) - r.input.discount + ShippingFee
                  + Surcharge(r.input, r.prices),
   subtotal |-> Subtotal(r.input, r.prices)]

(* What is asked for: at least one line, a discount, and the part of it    *)
(* that is a tier's.  Stock is reserved for the units of all lines.  The    *)
(* last two conjuncts hold of every sum: it is a number, and its order does *)
(* not matter.                                                              *)
ASSUME BodyAssumption ==
  /\ \A input \in Inputs :
       /\ input.lines \in Seq([sku : Sku, units : Nat]) /\ input.lines # <<>>
       /\ input.discount \in Nat /\ input.tier \in Nat
       /\ UnitsAsked(input) \in Requests
       /\ \A unitPrices \in [DOMAIN input.lines -> Prices] : Subtotal(input, unitPrices) \in Nat
  /\ \A a, b \in Inputs : SameRequest(a, b) => UnitsAsked(a) = UnitsAsked(b)

DistinctLines(input) ==
  \A i, j \in DOMAIN input.lines : input.lines[i].sku = input.lines[j].sku => i = j

----------------------------------------------------------------------------
PlaceInit ==
  /\ Init
  /\ price \in [Sku -> Prices]
  /\ ordered = 0
  /\ order = [o \in Number |-> NoRow]
  /\ keyed = [k \in Keys |-> 0]
  /\ req = [c \in Client |-> Idle]
  /\ answers = {}
  /\ changed = 0
  /\ faults = 0

GoOn(c, r) == req' = [req EXCEPT ![c] = r]
End(c)     == GoOn(c, Idle)

Answer(c, key, input, o) ==
  /\ answers' = answers \cup {[key |-> key, input |-> input, order |-> o]}
  /\ End(c)

\* A fault of this kind happens now.
Suffer(kind) ==
  /\ kind \in Faults
  /\ faults < MaxFaults
  /\ faults' = faults + 1

KnownKey(key) == key \in Keys /\ keyed[key] # 0

\* The stored hash tells a retry from another request under the same key.
Replay(c, key, input) ==
  /\ KnownKey(key)
  /\ IF SameRequest(order[keyed[key]].input, input)
       THEN Answer(c, key, input, keyed[key])
       ELSE End(c) /\ UNCHANGED answers

(* The lookup at the start; a key nobody used goes on to pricing.           *)
(* POST /orders carries a key at most; completing a checkout session brings  *)
(* a discount and no key.                                                   *)
LookUpKey(c, key, input) ==
  /\ req[c] = Idle
  /\ input.discount > 0 => key = NoKey
  /\ \/ Replay(c, key, input)
     \/ /\ ~KnownKey(key)
        /\ GoOn(c, [at |-> "price", key |-> key, input |-> input, prices |-> <<>>, hold |-> 0, order |-> 0])
        /\ UNCHANGED answers
  /\ UNCHANGED <<vars, price, ordered, order, keyed, changed, faults>>

(* One call to the catalog per line; a variant that is not on sale, or has  *)
(* no price, refuses the request before anything was taken.                 *)
PriceLine(c) ==
  LET i == Len(req[c].prices) + 1
      p == price[req[c].input.lines[i].sku]
  IN
  /\ req[c].at = "price"
  /\ IF p = 0 THEN End(c)
       ELSE GoOn(c, [req[c] EXCEPT !.prices = Append(@, p),
                                   !.at = IF i = Len(req[c].input.lines) THEN "reserve" ELSE "price"])
  /\ UNCHANGED <<vars, price, ordered, order, keyed, answers, changed, faults>>

InStock(want) == \A s \in Wanted(want) : s \in rows /\ Available(s) >= want[s]

(* An order number is taken and used up, whatever becomes of the request;   *)
(* the product service reserves all lines or none.  A reply that is lost    *)
(* leaves the request with an error and the reservation open.               *)
ReserveStock(c) ==
  LET want == UnitsAsked(req[c].input) IN
  /\ req[c].at = "reserve"
  /\ ordered < MaxOrders
  /\ ordered' = ordered + 1
  /\ \/ /\ CreateReservation(want)
        /\ \/ GoOn(c, [req[c] EXCEPT !.at = "insert", !.hold = seq', !.order = ordered']) /\ UNCHANGED faults
           \/ Suffer("reserve lost") /\ End(c)
     \/ ~InStock(want) /\ End(c) /\ UNCHANGED <<vars, faults>>
  /\ UNCHANGED <<price, order, keyed, answers, changed>>

\* Slip: the key is not unique.
MayInsertAnyKey(r) == ValidOrder(r.input, r.prices) /\ DistinctLines(r.input)

\* The domain checks before the insert, and what the unique keys of
\* order_items and order_idempotency_keys let in.
MayInsert(r) ==
  /\ ValidOrder(r.input, r.prices)
  /\ DistinctLines(r.input)
  /\ ~KnownKey(r.key)

Inserted(r) ==
  /\ order' = [order EXCEPT ![r.order] = NewOrder(r)]
  /\ keyed' = IF r.key = NoKey THEN keyed ELSE [keyed EXCEPT ![r.key] = r.order]

Undo(c) == GoOn(c, [req[c] EXCEPT !.at = "undo"])

(* One transaction.  It is refused, or fails, or commits and the reply is   *)
(* lost: for the request the last two are one.                              *)
InsertOrderRow(c) ==
  /\ req[c].at = "insert"
  /\ \/ MayInsert(req[c]) /\ Inserted(req[c]) /\ Answer(c, req[c].key, req[c].input, req[c].order) /\ UNCHANGED faults
     \/ ~MayInsert(req[c]) /\ Undo(c) /\ UNCHANGED <<order, keyed, answers, faults>>
     \/ Suffer("insert failed") /\ Undo(c) /\ UNCHANGED <<order, keyed, answers>>
     \/ /\ MayInsert(req[c])
        /\ Suffer("insert lost")
        /\ Inserted(req[c])
        /\ Undo(c)
        /\ UNCHANGED answers
  /\ UNCHANGED <<vars, price, ordered, changed>>

\* Slip: a request that lost the race for its key forgets its reservation.
KeepHold(c) ==
  /\ req[c].at = "undo"
  /\ GoOn(c, [req[c] EXCEPT !.at = "reload"])
  /\ UNCHANGED <<vars, price, ordered, order, keyed, answers, changed, faults>>

(* The error of ReleaseReservation is ignored. *)
GiveStockBack(c) ==
  /\ req[c].at = "undo"
  /\ \/ FinalizeReservation(req[c].hold, "released") /\ UNCHANGED faults
     \/ Suffer("release failed") /\ UNCHANGED vars
  /\ GoOn(c, [req[c] EXCEPT !.at = "reload"])
  /\ UNCHANGED <<price, ordered, order, keyed, answers, changed>>

(* After a failed insert the key is looked up once more: the winner of a    *)
(* race is the order to answer with.  A refused order, or a request without *)
(* a key, is an error.                                                      *)
ReloadByKey(c) ==
  /\ req[c].at = "reload"
  /\ \/ ValidOrder(req[c].input, req[c].prices) /\ Replay(c, req[c].key, req[c].input)
     \/ /\ ~(ValidOrder(req[c].input, req[c].prices) /\ KnownKey(req[c].key))
        /\ End(c)
        /\ UNCHANGED answers
  /\ UNCHANGED <<vars, price, ordered, order, keyed, changed, faults>>

(* The process dies, or the caller hangs up and every further call fails. *)
Die(c) ==
  /\ req[c] # Idle
  /\ Suffer("died")
  /\ End(c)
  /\ UNCHANGED <<vars, price, ordered, order, keyed, answers, changed>>

Reprice(s, p) ==
  /\ changed < MaxChanges
  /\ p # price[s]
  /\ changed' = changed + 1
  /\ price' = [price EXCEPT ![s] = p]
  /\ UNCHANGED <<vars, ordered, order, keyed, req, answers, faults>>

Restock(s, q) ==
  /\ changed < MaxChanges
  /\ changed' = changed + 1
  /\ SetQuantity(s, q)
  /\ UNCHANGED <<price, ordered, order, keyed, req, answers, faults>>

PlaceNext ==
  \/ \E c \in Client, key \in Keys \cup {NoKey}, input \in Inputs : LookUpKey(c, key, input)
  \/ \E c \in Client :
       \/ PriceLine(c)
       \/ ReserveStock(c)
       \/ InsertOrderRow(c)
       \/ GiveStockBack(c)
       \/ ReloadByKey(c)
       \/ Die(c)
  \/ \E s \in Sku, p \in Prices : Reprice(s, p)
  \/ \E s \in Sku, q \in Quantities : Restock(s, q)

PlaceSpec == PlaceInit /\ [][PlaceNext]_allVars

----------------------------------------------------------------------------
Placed == {o \in Number : order[o] # NoRow}

(* Type invariant of the order service's tables. *)
PlaceTypeOK ==
  /\ ordered \in 0..MaxOrders
  /\ \A o \in Placed : o <= ordered /\ order[o].hold \in 1..seq
  /\ keyed \in [Keys -> {0} \cup Placed]
  /\ faults \in 0..MaxFaults

(* However often and however much at once a request is sent under one key,  *)
(* it places one order, and every answer it gets names that order and       *)
(* answers the body that was sent (docs/endpoints.md:569; the lookup and    *)
(* the insert of CreateOrder are far apart).                                *)
OneOrderPerKey ==
  /\ \A a, b \in Placed : order[a].key = order[b].key /\ order[a].key # NoKey => a = b
  /\ \A t \in answers :
       /\ order[t.order].key = t.key
       /\ UnitsAsked(order[t.order].input) = UnitsAsked(t.input)
       /\ order[t.order].input.method = t.input.method

(* A reservation without an order and without a request that still knows it *)
(* is the trace of a fault, one for each: no refusal and no lost race       *)
(* leaves stock behind (the four releases of CreateOrder).                  *)
Forgotten ==
  {r \in Open : /\ \A o \in Placed : order[o].hold # r
                /\ \A c \in Client : req[c] = Idle \/ req[c].hold # r}

ForgottenHoldsAreFaults == Cardinality(Forgotten) <= faults

(* An order that a client was answered with holds the stock of its lines    *)
(* (docs/payment-service.md:111), and no two orders hold the same.          *)
AnsweredOrderHoldsStock ==
  /\ \A t \in answers : order[t.order].hold \in Open
  /\ \A o \in Placed : lines[order[o].hold] = UnitsAsked(order[o].input)
  /\ \A a, b \in Placed : order[a].hold = order[b].hold => a = b

(* What the customer pays is never less than the delivery, whatever became  *)
(* of the prices since the discount was computed, and a card order carries  *)
(* its surcharge, rounded down, once, of what it otherwise costs            *)
(* (domain/order.go NewOrder, domain/card_surcharge.go).                    *)
TotalIsSound ==
  \A o \in Placed :
    LET net == order[o].subtotal - order[o].input.discount + ShippingFee
        sur == order[o].total - net
    IN  /\ net >= ShippingFee
        /\ IF order[o].input.method = "bypass" THEN sur = 0
             ELSE sur * 10000 <= net * SurchargeBps /\ net * SurchargeBps < (sur + 1) * 10000

(* What a placed order promises: its stock, its total, and nothing held for *)
(* orders that were not placed.                                            *)
PlacedIsSound == ForgottenHoldsAreFaults /\ AnsweredOrderHoldsStock /\ TotalIsSound
============================================================================
