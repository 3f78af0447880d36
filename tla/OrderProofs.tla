---------------------------- MODULE OrderProofs ----------------------------
(* Proofs about the order service, for any orders, payments, clients,       *)
(* concurrent requests and faults: placing an order, and what becomes of it *)
(* until it is shipped or canceled. Both use the stock as Inventory allows. *)
EXTENDS OrderSaga, PlaceOrder, InventoryProofs

(**************************************************************************)
(* OrderSaga: goods only leave once stock of their order was committed;   *)
(* an order that can still ship holds its stock, and no other stock stays *)
(* reserved; a canceled order's money went back first.                    *)
(**************************************************************************)
----------------------------------------------------------------------------
(* What a step may do to each part of the state. *)

\* The stock changes as one transaction of the product service, or not at all.
StockStep ==
  \/ NoStock
  \/ \E o \in Order : Reserve(o)
  \/ \E r \in ResId, to \in Closed : FinalizeReservation(r, to) /\ UNCHANGED holder

\* One row is written, and it is in order afterwards.
RowStep ==
  \/ UNCHANGED orders
  \/ \E o \in Order, r \in OrderRow : RowOK(r, o)' /\ orders' = [orders EXCEPT ![o] = r]

\* One request moves on, and it is in order afterwards.
CallStep ==
  \/ UNCHANGED call
  \/ \E p \in Proc, c \in CallRecord : CallOK(c)' /\ call' = [call EXCEPT ![p] = c]

RestTypeOK ==
  /\ filmed \subseteq Order
  /\ use \in [Order -> {"none", "reserved", "consumed", "released"}]
  /\ payments \in [Payment -> {"none", "open", "failed", "succeeded", "canceled"}]
  /\ refunded \subseteq Payment
  /\ events \subseteq [kind : {"payment.succeeded", "payment.canceled"}, payment : Payment]
  /\ told \subseteq Payment

GoodStep == StockStep /\ RowStep /\ CallStep /\ RestTypeOK'

----------------------------------------------------------------------------
(* Stock transactions only add: a reservation keeps its order and a         *)
(* committed one stays committed.                                           *)
LEMMA StockKept ==
  ASSUME TypeOK, holder \in [ResId -> 0..NumOrders], StockStep
  PROVE  /\ [Next]_vars
         /\ TypeOK'
         /\ holder' \in [ResId -> 0..NumOrders]
         /\ \A x, o : Owns(x, o) => Owns(x, o)'
         /\ \A o : ShippedFor(o) => ShippedFor(o)'
<1>1. CASE NoStock
  BY <1>1, TypeStep DEF NoStock, Owns, ShippedFor, Committed, vars
<1>2. ASSUME NEW o \in Order, Reserve(o)
      PROVE  /\ [Next]_vars
             /\ holder' \in [ResId -> 0..NumOrders]
             /\ \A x, d : Owns(x, d) => Owns(x, d)'
             /\ \A d : ShippedFor(d) => ShippedFor(d)'
  <2>1. ItemsOf[o] \in Requests /\ CreateReservation(ItemsOf[o])
    BY <1>2, OrderAssumption DEF Reserve
  <2>2. [Next]_vars
    BY <2>1 DEF Next
  <2>3. /\ seq + 1 \in ResId /\ status[seq + 1] = "none"
        /\ status' = [status EXCEPT ![seq + 1] = "active"]
        /\ holder' = [holder EXCEPT ![seq + 1] = o]
    BY <1>2, <2>1, InputAssumption DEF Reserve, CreateReservation, TypeOK, ResId
  <2>4. holder' \in [ResId -> 0..NumOrders]
    BY <2>3, OrderAssumption DEF Order
  <2>5. \A x \in ResId : status[x] # "none" => status'[x] = status[x] /\ holder'[x] = holder[x]
    BY <2>3 DEF TypeOK
  <2> QED BY <2>2, <2>4, <2>5 DEF Owns, ShippedFor, Committed
<1>3. ASSUME NEW r \in ResId, NEW to \in Closed, FinalizeReservation(r, to), UNCHANGED holder
      PROVE  /\ [Next]_vars
             /\ holder' \in [ResId -> 0..NumOrders]
             /\ \A x, d : Owns(x, d) => Owns(x, d)'
             /\ \A d : ShippedFor(d) => ShippedFor(d)'
  <2>1. [Next]_vars
    BY <1>3 DEF Next
  <2>2. status[r] = "active" /\ status' = [status EXCEPT ![r] = to] /\ to # "none"
    BY <1>3 DEF FinalizeReservation, Closed
  <2>3. \A x \in ResId : /\ status[x] # "none" => status'[x] # "none"
                         /\ status[x] = "committed" => status'[x] = "committed"
    BY <2>2 DEF TypeOK
  <2> QED BY <2>1, <2>3, <1>3 DEF Owns, ShippedFor, Committed
<1> QED BY <1>1, <1>2, <1>3, TypeStep DEF StockStep

LEMMA RowKept ==
  ASSUME SagaInv, StockStep, NEW r, NEW o, RowOK(r, o)
  PROVE  RowOK(r, o)'
BY StockKept DEF SagaInv, SagaTypeOK, RowOK

LEMMA CallKept ==
  ASSUME SagaInv, StockStep, NEW c, CallOK(c)
  PROVE  CallOK(c)'
<1>1. RowOK(c.row, c.order)' /\ (c.hold # 0 => Owns(c.hold, c.order)')
      /\ (c.at = "ship" => ShippedFor(c.order)')
  BY StockKept, RowKept DEF SagaInv, SagaTypeOK, CallOK
<1> QED BY <1>1 DEF CallOK

(* A step that changes each part as above keeps the invariant. *)
LEMMA GoodStepKeepsInv ==
  ASSUME SagaInv, GoodStep
  PROVE  SagaInv'
<1>1. TypeOK' /\ holder' \in [ResId -> 0..NumOrders]
  BY StockKept DEF SagaInv, SagaTypeOK, GoodStep
<1>2. orders' \in [Order -> OrderRow] /\ \A o \in Order : RowOK(orders[o], o)'
  <2>1. \A o \in Order : \A r : RowOK(r, o) => RowOK(r, o)'
    BY RowKept DEF GoodStep
  <2>2. CASE UNCHANGED orders
    <3>1. \A o \in Order : \A r : r = orders[o] => RowOK(r, o)'
      BY <2>1 DEF SagaInv
    <3> QED BY <3>1, <2>2 DEF SagaInv, SagaTypeOK, RowOK
  <2>3. ASSUME NEW d \in Order, NEW s \in OrderRow, RowOK(s, d)',
               orders' = [orders EXCEPT ![d] = s]
        PROVE  orders' \in [Order -> OrderRow] /\ \A o \in Order : RowOK(orders[o], o)'
    <3>1. orders \in [Order -> OrderRow]
      BY DEF SagaInv, SagaTypeOK
    <3>2. \A o \in Order : \A r : r = orders'[o] => RowOK(r, o)'
      BY <2>1, <2>3, <3>1 DEF SagaInv
    <3> QED BY <3>1, <3>2, <2>3 DEF RowOK
  <2> QED BY <2>2, <2>3 DEF GoodStep, RowStep
<1>3. call' \in [Proc -> CallRecord] /\ \A p \in Proc : CallOK(call[p])'
  <2>1. \A c : CallOK(c) => CallOK(c)'
    BY CallKept DEF GoodStep
  <2>2. CASE UNCHANGED call
    <3>1. \A p \in Proc : \A c : c = call[p] => CallOK(c)'
      BY <2>1 DEF SagaInv
    <3> QED BY <3>1, <2>2 DEF SagaInv, SagaTypeOK, CallOK, RowOK
  <2>3. ASSUME NEW u \in Proc, NEW d \in CallRecord, CallOK(d)', call' = [call EXCEPT ![u] = d]
        PROVE  call' \in [Proc -> CallRecord] /\ \A p \in Proc : CallOK(call[p])'
    <3>1. call \in [Proc -> CallRecord]
      BY DEF SagaInv, SagaTypeOK
    <3>2. \A p \in Proc : \A c : c = call'[p] => CallOK(c)'
      BY <2>1, <2>3, <3>1 DEF SagaInv
    <3> QED BY <3>1, <3>2, <2>3 DEF CallOK, RowOK
  <2> QED BY <2>2, <2>3 DEF GoodStep, CallStep
<1> QED BY <1>1, <1>2, <1>3 DEF SagaInv, SagaTypeOK, GoodStep, RestTypeOK

----------------------------------------------------------------------------
(* The ways a step moves a request or writes a row. *)

\* Steps that need no more than a row that exists.
Plain == Step \ {"idle", "insert", "claim", "undo", "savePaidAgain", "ship", "cancelRefunded"}

LEMMA CallFacts ==
  ASSUME SagaInv, NEW p \in Proc
  PROVE  /\ call[p] \in CallRecord /\ call[p].row \in OrderRow /\ CallOK(call[p])
         /\ call[p].at # "idle" => /\ call[p].order \in Order
                                    /\ Db(p) \in OrderRow
                                    /\ RowOK(Db(p), call[p].order)
BY DEF SagaInv, SagaTypeOK, CallRecord, CallOK, Db

LEMMA RestSame ==
  ASSUME SagaInv, UNCHANGED <<filmed, use, payments, refunded, events, told>>
  PROVE  RestTypeOK'
BY DEF SagaInv, SagaTypeOK, RestTypeOK

LEMMA NewRowType == NewRow \in OrderRow
BY InputAssumption DEF NewRow, OrderRow, OrderStatus

LEMMA NoCallType == NoCall \in CallRecord
BY NewRowType, OrderAssumption, InputAssumption DEF NoCall, CallRecord, Step

LEMMA ReturnStep ==
  ASSUME NEW p \in Proc, Return(p)
  PROVE  CallStep
<1>1. CallOK(NoCall)'
  BY DEF NoCall, CallOK, RowOK, NewRow, Shipped, Shipping
<1> QED BY <1>1, NoCallType DEF Return, CallStep

LEMMA MoveStep ==
  ASSUME SagaInv, StockStep, NEW p \in Proc, NEW c \in CallRecord, CallOK(c),
         call' = [call EXCEPT ![p] = c]
  PROVE  CallStep
<1>1. CallOK(c)'
  BY CallKept
<1> QED BY <1>1 DEF CallStep

LEMMA GotoStep ==
  ASSUME SagaInv, StockStep, NEW p \in Proc, call[p].at # "idle", call[p].row.status # "new",
         NEW at \in Plain, Goto(p, at)
  PROVE  CallStep
<1> DEFINE c == [call[p] EXCEPT !.at = at]
<1>1. c \in CallRecord /\ CallOK(c)
  BY CallFacts DEF CallRecord, Plain, CallOK
<1>2. call' = [call EXCEPT ![p] = c]
  BY DEF Goto, SagaInv, SagaTypeOK
<1> HIDE DEF c
<1> QED BY <1>1, <1>2, MoveStep

LEMMA GotoRowStep ==
  ASSUME SagaInv, StockStep, NEW p \in Proc, call[p].at # "idle", NEW at \in Plain,
         NEW r \in OrderRow, RowOK(r, call[p].order), r.status # "new", GotoWith(p, at, r)
  PROVE  CallStep
<1> DEFINE c == [call[p] EXCEPT !.at = at, !.row = r]
<1>1. c \in CallRecord /\ CallOK(c)
  BY CallFacts DEF CallRecord, Plain, CallOK
<1>2. call' = [call EXCEPT ![p] = c]
  BY DEF GotoWith, SagaInv, SagaTypeOK
<1> HIDE DEF c
<1> QED BY <1>1, <1>2, MoveStep

\* A request that begins with nothing in hand but a row and, maybe, a payment.
LEMMA StartPayingStep ==
  ASSUME SagaInv, StockStep, NEW p \in Proc, NEW o \in Order, NEW at \in Plain,
         NEW r \in OrderRow, RowOK(r, o), r.status # "new",
         NEW q \in Payment \cup {NoPayment},
         call' = [call EXCEPT ![p] =
                    [NoCall EXCEPT !.at = at, !.order = o, !.row = r, !.payment = q]]
  PROVE  CallStep
<1> DEFINE c == [NoCall EXCEPT !.at = at, !.order = o, !.row = r, !.payment = q]
<1>1. c \in CallRecord /\ c.at = at /\ c.order = o /\ c.row = r /\ c.hold = 0
  <2>1. NoCall.hold = 0
    BY DEF NoCall
  <2>2. o \in 0..NumOrders
    BY OrderAssumption DEF Order
  <2> QED BY <2>1, <2>2, NoCallType DEF CallRecord, Plain
<1>2. CallOK(c)
  <2> HIDE DEF c
  <2> QED BY <1>1 DEF CallOK, Plain
<1> HIDE DEF c
<1>3. call' = [call EXCEPT ![p] = c]
  BY DEF c
<1> QED BY <1>1, <1>2, <1>3, MoveStep

LEMMA StartStep ==
  ASSUME SagaInv, StockStep, NEW p \in Proc, NEW o \in Order,
         NEW at \in Plain \cup {"cancelRefunded"}, NEW r \in OrderRow, RowOK(r, o),
         r.status # "new", at = "cancelRefunded" => r.payment # NoPayment,
         Start(p, o, at, r)
  PROVE  CallStep
<1> DEFINE c == [NoCall EXCEPT !.at = at, !.order = o, !.row = r]
<1>1. c \in CallRecord /\ c.at = at /\ c.order = o /\ c.row = r /\ c.hold = 0
  <2>1. NoCall.hold = 0
    BY DEF NoCall
  <2>2. o \in 0..NumOrders
    BY OrderAssumption DEF Order
  <2>3. at \in Step
    BY DEF Plain, Step
  <2> QED BY <2>1, <2>2, <2>3, NoCallType DEF CallRecord
<1>2. CallOK(c)
  <2> HIDE DEF c
  <2> QED BY <1>1 DEF CallOK, Plain
<1> HIDE DEF c
<1>3. call' = [call EXCEPT ![p] = c]
  BY DEF c, Start
<1> QED BY <1>1, <1>2, <1>3, MoveStep

LEMMA WriteStep ==
  ASSUME SagaInv, StockStep, NEW p \in Proc, call[p].at # "idle",
         NEW r \in OrderRow, RowOK(r, call[p].order), Write(p, r)
  PROVE  RowStep
<1>1. PICK o \in Order : o = call[p].order
  BY CallFacts
<1>2. RowOK(r, o)'
  BY <1>1, RowKept
<1> QED BY <1>1, <1>2 DEF Write, RowStep

\* Moving a row to another status leaves it in order.
LEMMA StatusChange ==
  ASSUME NEW r \in OrderRow, NEW o, RowOK(r, o), r.status # "new",
         NEW st \in OrderStatus, st \in Shipped => ShippedFor(o)
  PROVE  /\ [r EXCEPT !.status = st] \in OrderRow
         /\ [r EXCEPT !.status = st].status = st
         /\ RowOK([r EXCEPT !.status = st], o)
BY DEF OrderRow, RowOK

LEMMA ReleaseStep ==
  ASSUME NEW r \in ResId, Release(r)
  PROVE  StockStep
BY DEF Release, StockStep, Closed

LEMMA OnlyCallStep ==
  ASSUME SagaInv, OnlyCall, CallStep
  PROVE  GoodStep
BY RestSame DEF OnlyCall, NoStock, NoOrder, NoPay, orderVars, paymentVars,
                GoodStep, StockStep, RowStep

LEMMA OnlyRowStep ==
  ASSUME SagaInv, OnlyRow, RowStep, CallStep
  PROVE  GoodStep
BY RestSame DEF OnlyRow, NoStock, NoPay, paymentVars, GoodStep, StockStep

LEMMA OnlyStockStep ==
  ASSUME SagaInv, OnlyStock, StockStep, CallStep
  PROVE  GoodStep
BY RestSame DEF OnlyStock, NoOrder, NoPay, orderVars, paymentVars, GoodStep, RowStep

LEMMA StillStock ==
  ASSUME NoStock \/ OnlyCall \/ OnlyRow
  PROVE  StockStep
BY DEF StockStep, OnlyCall, OnlyRow

\* Starting with the row as it is in the database.
LEMMA StartDb ==
  ASSUME SagaInv, OnlyCall, NEW p \in Proc, NEW o \in Order,
         NEW at \in Plain \cup {"cancelRefunded"}, orders[o].status # "new",
         at = "cancelRefunded" => orders[o].payment # NoPayment, Start(p, o, at, orders[o])
  PROVE  GoodStep
<1>1. PICK r \in OrderRow : r = orders[o] /\ RowOK(r, o)
  BY DEF SagaInv, SagaTypeOK
<1>2. Start(p, o, at, r)
  BY <1>1
<1>3. CallStep
  BY <1>1, <1>2, StartStep, StillStock
<1> QED BY <1>3, OnlyCallStep

\* A step that writes a row under way to another status, seen from the database.
LEMMA DbStatus ==
  ASSUME SagaInv, NEW p \in Proc, call[p].at # "idle", Db(p).status # "new",
         NEW st \in OrderStatus, st \in Shipped => ShippedFor(call[p].order),
         Write(p, [Db(p) EXCEPT !.status = st]), StockStep
  PROVE  RowStep
<1>1. PICK r \in OrderRow : r = Db(p) /\ RowOK(r, call[p].order)
  BY CallFacts
<1>2. PICK s \in OrderRow : s = [r EXCEPT !.status = st] /\ RowOK(s, call[p].order)
  BY <1>1, StatusChange
<1>3. Write(p, s)
  BY <1>1, <1>2
<1> QED BY <1>2, <1>3, WriteStep

----------------------------------------------------------------------------
(* The actions, one by one. *)

\* The reservation just made: its id is new and it belongs to the order.
LEMMA Reserved ==
  ASSUME SagaInv, NEW o \in Order, Reserve(o)
  PROVE  \E x \in ResId : /\ x = seq + 1
                          /\ x \in 0..MaxReservations /\ x # 0
                          /\ Owns(x, o)'
<1>1. PICK x \in ResId : x = seq + 1
  BY InputAssumption DEF Reserve, CreateReservation, SagaInv, TypeOK, ResId
<1>2. status'[x] = "active" /\ holder'[x] = o
  BY <1>1 DEF Reserve, CreateReservation, SagaInv, SagaTypeOK, TypeOK
<1> QED BY <1>1, <1>2 DEF Owns, ResId

LEMMA PlaceGood ==
  ASSUME SagaInv, NEW p \in Proc, NEW o \in Order, Place(p, o)
  PROVE  GoodStep
<1>1. Reserve(o) /\ StockStep
  BY DEF Place, StockStep
<1>2. PICK x \in ResId : x = seq + 1 /\ x \in 0..MaxReservations /\ x # 0 /\ Owns(x, o)'
  BY <1>1, Reserved
<1> DEFINE c == [NoCall EXCEPT !.at = "insert", !.order = o, !.hold = x]
<1>3. c \in CallRecord /\ c.at = "insert" /\ c.order = o /\ c.hold = x /\ c.row = NewRow
  <2>1. o \in 0..NumOrders
    BY OrderAssumption DEF Order
  <2>2. NoCall.row = NewRow
    BY DEF NoCall
  <2> QED BY <1>2, <2>1, <2>2, NoCallType DEF CallRecord, Step
<1>4. call' = [call EXCEPT ![p] = c]
  BY <1>2 DEF Place
<1> HIDE DEF c
<1>5. NewRow.status = "new" /\ "new" \notin Shipped
  BY DEF NewRow, Shipped, Shipping
<1>6. PICK d \in CallRecord : d = c
  BY <1>3
<1>7. CallOK(d)'
  BY <1>2, <1>3, <1>5, <1>6 DEF CallOK, RowOK
<1> QED BY <1>1, <1>4, <1>6, <1>7, OnlyStockStep DEF Place, CallStep

LEMMA InsertOrderGood ==
  ASSUME SagaInv, NEW p \in Proc, InsertOrder(p)
  PROVE  GoodStep
<1> DEFINE r == [NewRow EXCEPT !.status = "pending", !.reservation = call[p].hold]
<1> DEFINE c == [call[p] EXCEPT !.at = "claim"]
<1>1. call[p].at = "insert" /\ call[p].hold # 0 /\ Owns(call[p].hold, call[p].order)
  BY CallFacts DEF InsertOrder, At, CallOK
<1>2. r \in OrderRow /\ r.status = "pending" /\ r.reservation = call[p].hold
  BY CallFacts, NewRowType DEF CallRecord, OrderRow, OrderStatus
<1>3. RowStep
  <2>1. PICK s \in OrderRow : s = r
    BY <1>2
  <2>2. RowOK(s, call[p].order)
    BY <1>1, <1>2, <2>1 DEF RowOK, Shipped, Shipping
  <2>3. Write(p, s)
    BY <2>1 DEF InsertOrder
  <2> QED BY <1>1, <2>2, <2>3, WriteStep, StillStock DEF InsertOrder
<1>4. c \in CallRecord /\ CallOK(c)
  BY <1>1, CallFacts DEF CallRecord, CallOK, Step
<1>5. call' = [call EXCEPT ![p] = c]
  BY DEF InsertOrder, Goto, SagaInv, SagaTypeOK
<1> HIDE DEF c, r
<1>6. CallStep
  BY <1>4, <1>5, MoveStep, StillStock DEF InsertOrder
<1> QED BY <1>3, <1>6, OnlyRowStep DEF InsertOrder

LEMMA UseGood ==
  ASSUME SagaInv, NEW p \in Proc, ClaimUse(p) \/ ConsumeUse(p) \/ ReleaseUse(p)
  PROVE  GoodStep
<1>1. Return(p) /\ NoStock /\ NoPay /\ UNCHANGED <<orders, filmed, told>>
  BY DEF ClaimUse, ConsumeUse, ReleaseUse
<1>2. use' \in [Order -> {"none", "reserved", "consumed", "released"}]
  <2>1. use \in [Order -> {"none", "reserved", "consumed", "released"}]
    BY DEF SagaInv, SagaTypeOK
  <2>2. CASE ClaimUse(p)
    BY <2>1, <2>2 DEF ClaimUse
  <2>3. CASE ConsumeUse(p)
    BY <2>1, <2>3 DEF ConsumeUse
  <2>4. CASE ReleaseUse(p)
    BY <2>1, <2>4 DEF ReleaseUse
  <2> QED BY <2>2, <2>3, <2>4
<1>3. RestTypeOK'
  BY <1>1, <1>2 DEF RestTypeOK, NoPay, paymentVars, SagaInv, SagaTypeOK
<1> QED BY <1>1, <1>3, ReturnStep DEF GoodStep, StockStep, RowStep

LEMMA MarkPaidGood ==
  ASSUME SagaInv, NEW p \in Proc, NEW q \in Payment, MarkPaid(p, q)
  PROVE  GoodStep
<1>1. PICK o \in Order : o = PaymentOrder[q]
  BY PaymentAssumption
<1>2. PICK r \in OrderRow : r = orders[o] /\ RowOK(r, o)
  BY DEF SagaInv, SagaTypeOK
<1>3. PICK at \in Plain : at = IF r.status = "pending" THEN "reread" ELSE "reinstate"
  BY DEF Plain, Step
<1>4. call' = [call EXCEPT ![p] =
                 [NoCall EXCEPT !.at = at, !.order = o, !.row = r, !.payment = q]]
  BY <1>1, <1>2, <1>3 DEF MarkPaid
<1>5. r.status # "new" /\ OnlyCall
  BY <1>1, <1>2 DEF MarkPaid
<1> QED BY <1>2, <1>4, <1>5, StartPayingStep, StillStock, OnlyCallStep

LEMMA RereadPendingGood ==
  ASSUME SagaInv, NEW p \in Proc, RereadPending(p)
  PROVE  GoodStep
<1>1. OnlyCall /\ At(p, "reread")
  BY DEF RereadPending
<1>2. call[p].at # "idle" /\ call[p].row.status # "new"
  BY <1>1, CallFacts DEF At, CallOK
<1>3. CASE Return(p)
  BY <1>1, <1>3, ReturnStep, OnlyCallStep
<1>4. CASE Db(p).status = "canceled" /\ GotoWith(p, "reinstate", Db(p))
  <2>1. PICK r \in OrderRow : r = Db(p) /\ RowOK(r, call[p].order) /\ r.status # "new"
    BY <1>2, <1>4, CallFacts
  <2>2. "reinstate" \in Plain /\ GotoWith(p, "reinstate", r)
    BY <1>4, <2>1 DEF Plain, Step
  <2> QED BY <1>1, <1>2, <2>1, <2>2, GotoRowStep, StillStock, OnlyCallStep
<1>5. CASE Goto(p, "savePaid")
  <2>1. "savePaid" \in Plain
    BY DEF Plain, Step
  <2> QED BY <1>1, <1>2, <1>5, <2>1, GotoStep, StillStock, OnlyCallStep
<1> QED BY <1>3, <1>4, <1>5 DEF RereadPending

LEMMA ReinstateGood ==
  ASSUME SagaInv, NEW p \in Proc, Reinstate(p)
  PROVE  GoodStep
<1>1. OnlyStock /\ call[p].at \in {"reinstate", "reinstateAgain"}
  BY DEF Reinstate
<1>2. PICK o \in Order : o = call[p].order
  BY <1>1, CallFacts
<1>3. CASE Return(p) /\ NoStock
  BY <1>1, <1>3, ReturnStep, StillStock, OnlyStockStep
<1>4. ASSUME Reserve(o),
             call' = [call EXCEPT ![p].hold = seq + 1,
                                  ![p].at = IF @ = "reinstate" THEN "savePaid" ELSE "savePaidAgain"]
      PROVE  GoodStep
  <2>1. PICK x \in ResId : x = seq + 1 /\ x \in 0..MaxReservations /\ x # 0 /\ Owns(x, o)'
    BY <1>4, Reserved
  <2>2. StockStep
    BY <1>4 DEF StockStep
  <2> DEFINE c == [call[p] EXCEPT !.hold = x,
                     !.at = IF @ = "reinstate" THEN "savePaid" ELSE "savePaidAgain"]
  <2>3. c \in CallRecord /\ c.hold = x /\ c.order = o /\ c.row = call[p].row
        /\ c.at \in {"savePaid", "savePaidAgain"}
    BY <2>1, <1>2, CallFacts DEF CallRecord, Step
  <2>4. call' = [call EXCEPT ![p] = c]
    BY <1>4, <2>1 DEF SagaInv, SagaTypeOK
  <2> HIDE DEF c
  <2>5. PICK d \in CallRecord : d = c
    BY <2>3
  <2>6. PICK r \in OrderRow : r = d.row /\ r.status # "new" /\ RowOK(r, o)
    BY <1>1, <1>2, <2>3, <2>5, CallFacts DEF CallOK
  <2>7. RowOK(r, o)'
    BY <2>2, <2>6, RowKept
  <2>8. CallOK(d)'
    BY <2>1, <2>3, <2>5, <2>6, <2>7 DEF CallOK
  <2>9. CallStep
    BY <2>4, <2>5, <2>8 DEF CallStep
  <2> QED BY <1>1, <2>2, <2>9, OnlyStockStep
<1> QED BY <1>2, <1>3, <1>4 DEF Reinstate

LEMMA GotoUndo ==
  ASSUME SagaInv, StockStep, NEW p \in Proc, call[p].at # "idle", call[p].hold # 0,
         Goto(p, "undo")
  PROVE  CallStep
<1> DEFINE c == [call[p] EXCEPT !.at = "undo"]
<1>1. c \in CallRecord /\ CallOK(c)
  BY CallFacts DEF CallRecord, Step, CallOK
<1>2. call' = [call EXCEPT ![p] = c]
  BY DEF Goto, SagaInv, SagaTypeOK
<1> HIDE DEF c
<1> QED BY <1>1, <1>2, MoveStep

LEMMA SavePaidGood ==
  ASSUME SagaInv, NEW p \in Proc, SavePaid(p)
  PROVE  GoodStep
<1>1. OnlyRow /\ call[p].at \in {"savePaid", "savePaidAgain"} /\ StockStep
  BY StillStock DEF SavePaid
<1>2. PICK o \in Order : o = call[p].order
  BY <1>1, CallFacts
<1>3. call[p].row.status # "new" /\ Owns(call[p].row.reservation, o)
      /\ (call[p].hold # 0 => Owns(call[p].hold, o))
  BY <1>1, <1>2, CallFacts DEF CallOK, RowOK
<1>4. "consume" \in Plain /\ "recheck" \in Plain
  BY DEF Plain, Step
<1> DEFINE x == IF call[p].hold = 0 THEN call[p].row.reservation ELSE call[p].hold
<1> DEFINE r == [Db(p) EXCEPT !.status = "paid", !.payment = call[p].payment, !.reservation = x]
<1>5. CASE Write(p, r) /\ Goto(p, "consume")
  <2>1. r \in OrderRow /\ r.status = "paid" /\ r.reservation = x
    BY <1>1, CallFacts DEF CallRecord, OrderRow, OrderStatus, PreShip
  <2>2. Owns(x, o)
    BY <1>3
  <2> HIDE DEF x, r
  <2>3. PICK s \in OrderRow : s = r
    BY <2>1
  <2>4. RowOK(s, o)
    BY <2>1, <2>2, <2>3 DEF RowOK, Shipped, Shipping
  <2>5. RowStep
    BY <1>1, <1>2, <1>5, <2>3, <2>4, WriteStep
  <2>6. CallStep
    BY <1>1, <1>3, <1>4, <1>5, GotoStep
  <2> QED BY <1>1, <2>5, <2>6, OnlyRowStep
<1>6. CASE UNCHANGED orders /\ Goto(p, IF call[p].at = "savePaid" THEN "recheck" ELSE "undo")
  <2>1. CallStep
    <3>1. CASE Goto(p, "recheck")
      BY <1>1, <1>3, <1>4, <3>1, GotoStep
    <3>2. CASE call[p].at = "savePaidAgain" /\ Goto(p, "undo")
      <4>1. call[p].hold # 0
        BY <3>2, CallFacts DEF CallOK
      <4> QED BY <1>1, <3>2, <4>1, GotoUndo
    <3> QED BY <1>1, <1>6, <3>1, <3>2
  <2> QED BY <1>1, <1>6, <2>1, OnlyRowStep DEF RowStep
<1> QED BY <1>5, <1>6 DEF SavePaid

LEMMA RecheckPaidGood ==
  ASSUME SagaInv, NEW p \in Proc, RecheckPaid(p)
  PROVE  GoodStep
<1>1. OnlyCall /\ call[p].at = "recheck" /\ StockStep
  BY StillStock DEF RecheckPaid, At
<1>2. CASE Db(p).status = "canceled" /\ GotoWith(p, "reinstateAgain", Db(p))
  <2>1. PICK r \in OrderRow : r = Db(p) /\ RowOK(r, call[p].order) /\ r.status # "new"
    BY <1>1, <1>2, CallFacts
  <2>2. "reinstateAgain" \in Plain /\ GotoWith(p, "reinstateAgain", r)
    BY <1>2, <2>1 DEF Plain, Step
  <2> QED BY <1>1, <2>1, <2>2, GotoRowStep, OnlyCallStep
<1>3. CASE Return(p)
  BY <1>1, <1>3, ReturnStep, OnlyCallStep
<1>4. CASE call[p].hold # 0 /\ Goto(p, "undo")
  BY <1>1, <1>4, GotoUndo, OnlyCallStep
<1> QED BY <1>2, <1>3, <1>4 DEF RecheckPaid

LEMMA UndoReinstateGood ==
  ASSUME SagaInv, NEW p \in Proc, UndoReinstate(p)
  PROVE  GoodStep
<1>1. Release(call[p].hold) /\ Return(p) /\ OnlyStock
  BY DEF UndoReinstate
<1>2. call[p].hold \in ResId
  BY CallFacts DEF UndoReinstate, At, CallOK, Owns
<1> QED BY <1>1, <1>2, ReleaseStep, ReturnStep, OnlyStockStep

LEMMA SaveFailsGood ==
  ASSUME SagaInv, NEW p \in Proc, SaveFails(p)
  PROVE  GoodStep
BY GotoUndo, StillStock, OnlyCallStep DEF SaveFails

LEMMA FailGood ==
  ASSUME SagaInv, NEW p \in Proc, Fail(p)
  PROVE  GoodStep
BY ReturnStep, OnlyCallStep DEF Fail

LEMMA ConfirmGood ==
  ASSUME SagaInv, NEW p \in Proc, NEW o \in Order,
         Confirm(p, o) \/ Ship(p, o) \/ Expire(p, o) \/ BeginCancel(p, o)
  PROVE  GoodStep
<1>1. OnlyCall /\ orders[o].status # "new"
      /\ \E at \in Plain : at # "cancelRefunded" /\ Start(p, o, at, orders[o])
  <2>1. {"confirm", "commit", "cancelPending", "refund"} \subseteq Plain
    BY DEF Plain, Step
  <2> QED BY <2>1 DEF Confirm, Ship, Expire, BeginCancel, Cancelable
<1> QED BY <1>1, StartDb

LEMMA ClaimRefusedGood ==
  ASSUME SagaInv, NEW p \in Proc, ClaimRefused(p)
  PROVE  GoodStep
<1>1. call[p].order \in Order
  BY CallFacts DEF ClaimRefused, At
<1> QED BY <1>1, ConfirmGood DEF ClaimRefused

LEMMA ConfirmIfPaidGood ==
  ASSUME SagaInv, NEW p \in Proc, ConfirmIfPaid(p)
  PROVE  GoodStep
<1>1. OnlyRow /\ Return(p) /\ call[p].at # "idle" /\ StockStep
  BY StillStock DEF ConfirmIfPaid, At
<1>2. CASE UNCHANGED orders
  BY <1>1, <1>2, ReturnStep, OnlyRowStep DEF RowStep
<1>3. CASE Db(p).status = "paid" /\ Write(p, [Db(p) EXCEPT !.status = "confirmed"])
  <2>1. "confirmed" \in OrderStatus /\ "confirmed" \notin Shipped
    BY DEF OrderStatus, PreShip, Shipped, Shipping
  <2>2. RowStep
    BY <1>1, <1>3, <2>1, DbStatus
  <2> QED BY <1>1, <2>2, ReturnStep, OnlyRowStep
<1> QED BY <1>2, <1>3 DEF ConfirmIfPaid

LEMMA SetInspectionVideoGood ==
  ASSUME SagaInv, NEW o \in Order, SetInspectionVideo(o)
  PROVE  GoodStep
BY DEF SetInspectionVideo, GoodStep, StockStep, RowStep, CallStep, RestTypeOK,
       NoPay, paymentVars, SagaInv, SagaTypeOK

LEMMA CommitStockGood ==
  ASSUME SagaInv, NEW p \in Proc, CommitStock(p)
  PROVE  GoodStep
<1>1. OnlyStock /\ call[p].at = "commit"
  BY DEF CommitStock, At
<1>2. PICK x \in ResId : x = call[p].row.reservation /\ Owns(x, call[p].order)
  BY <1>1, CallFacts DEF CallOK, RowOK, Owns
<1>3. CASE NoStock /\ Return(p)
  BY <1>1, <1>3, ReturnStep, StillStock, OnlyStockStep
<1>4. ASSUME StockStep, Goto(p, "ship"), status'[x] = "committed", holder'[x] = holder[x]
      PROVE  GoodStep
  <2> DEFINE c == [call[p] EXCEPT !.at = "ship"]
  <2>1. c \in CallRecord /\ c.at = "ship" /\ c.order = call[p].order
        /\ c.row = call[p].row /\ c.hold = call[p].hold
    BY CallFacts DEF CallRecord, Step
  <2>2. call' = [call EXCEPT ![p] = c]
    BY <1>4 DEF Goto, SagaInv, SagaTypeOK
  <2> HIDE DEF c
  <2>3. PICK d \in CallRecord : d = c
    BY <2>1
  <2>4. PICK e \in CallRecord : e = call[p] /\ CallOK(e) /\ CallOK(e)'
    BY <1>4, CallFacts, CallKept
  <2>5. PICK o : o = call[p].order
    OBVIOUS
  <2>6. ShippedFor(o)'
    BY <1>2, <1>4, <2>5 DEF ShippedFor, Committed, Owns
  <2>7. CallOK(d)'
    BY <1>1, <2>1, <2>3, <2>4, <2>5, <2>6 DEF CallOK
  <2> QED BY <1>1, <1>4, <2>2, <2>3, <2>7, OnlyStockStep DEF CallStep
<1>5. CASE /\ status[x] = "active" /\ FinalizeReservation(x, "committed")
           /\ UNCHANGED holder /\ Goto(p, "ship")
  <2>1. StockStep /\ status'[x] = "committed"
    BY <1>5 DEF StockStep, Closed, FinalizeReservation, SagaInv, TypeOK
  <2> QED BY <1>4, <1>5, <2>1
<1>6. CASE status[x] = "committed" /\ NoStock /\ Goto(p, "ship")
  <2>1. StockStep /\ status'[x] = status[x] /\ holder'[x] = holder[x]
    BY <1>6, StillStock DEF NoStock, vars
  <2> QED BY <1>4, <1>6, <2>1
<1> QED BY <1>2, <1>3, <1>5, <1>6 DEF CommitStock, Read

LEMMA ShipIfConfirmedGood ==
  ASSUME SagaInv, NEW p \in Proc, ShipIfConfirmed(p)
  PROVE  GoodStep
<1>1. OnlyRow /\ Return(p) /\ call[p].at = "ship" /\ StockStep
  BY StillStock DEF ShipIfConfirmed, At
<1>2. CASE UNCHANGED orders
  BY <1>1, <1>2, ReturnStep, OnlyRowStep DEF RowStep
<1>3. CASE Db(p).status = "confirmed" /\ Write(p, [Db(p) EXCEPT !.status = "in_transit"])
  <2>1. "in_transit" \in OrderStatus /\ ShippedFor(call[p].order)
    BY <1>1, CallFacts DEF OrderStatus, Shipping, CallOK
  <2>2. RowStep
    BY <1>1, <1>3, <2>1, DbStatus
  <2> QED BY <1>1, <2>2, ReturnStep, OnlyRowStep
<1> QED BY <1>2, <1>3 DEF ShipIfConfirmed

LEMMA CancelForRefundGood ==
  ASSUME SagaInv, NEW p \in Proc, NEW q \in Payment, CancelForRefund(p, q)
  PROVE  GoodStep
<1>1. PICK o \in Order : o = PaymentOrder[q]
  BY PaymentAssumption
<1>2. NoStock /\ NoOrder /\ NoPay
  BY DEF CancelForRefund
<1>3. CASE CancelsOnRefund(orders[o], q) /\ Start(p, o, "cancelRefunded", orders[o])
           /\ UNCHANGED told
  <2>1. orders[o].status # "new" /\ orders[o].payment # NoPayment
    BY <1>3, PaymentAssumption DEF CancelsOnRefund, PreShip
  <2>2. OnlyCall
    BY <1>2, <1>3 DEF OnlyCall
  <2> QED BY <1>3, <2>1, <2>2, StartDb
<1>4. CASE told' = told \cup {q} /\ UNCHANGED call
  BY <1>2, <1>4 DEF NoOrder, NoPay, orderVars, paymentVars, GoodStep, StockStep, RowStep,
                    CallStep, RestTypeOK, SagaInv, SagaTypeOK
<1> QED BY <1>1, <1>2, <1>3, <1>4 DEF CancelForRefund

\* A refund of payment q, by the order service or at the payment service.
LEMMA RefundType ==
  ASSUME SagaInv, NoOrder, UNCHANGED told, NEW q \in Payment,
         payments' = [payments EXCEPT ![q] = "canceled"],
         refunded' = refunded \cup {q},
         events' = events \cup {Event("payment.canceled", q)}
  PROVE  RestTypeOK'
BY DEF NoOrder, orderVars, RestTypeOK, SagaInv, SagaTypeOK, Event

LEMMA RefundCapturedGood ==
  ASSUME SagaInv, NEW p \in Proc, RefundCaptured(p)
  PROVE  GoodStep
<1>1. NoStock /\ NoOrder /\ UNCHANGED told /\ call[p].at = "refund" /\ StockStep /\ RowStep
  BY DEF RefundCaptured, At, StockStep, RowStep, NoOrder, orderVars
<1>2. PICK q : q = call[p].row.payment
  OBVIOUS
<1>3. CallStep
  <2>1. Goto(p, "reget") \/ Return(p)
    BY DEF RefundCaptured
  <2>2. "reget" \in Plain /\ call[p].row.status # "new"
    BY <1>1, CallFacts DEF Plain, Step, CallOK
  <2> QED BY <1>1, <2>1, <2>2, GotoStep, ReturnStep
<1>4. RestTypeOK'
  <2>1. CASE NoPay
    BY <1>1, <2>1, RestSame DEF NoPay, NoOrder, orderVars, paymentVars
  <2>2. CASE /\ q # NoPayment
             /\ payments' = [payments EXCEPT ![q] = "canceled"]
             /\ refunded' = refunded \cup {q}
             /\ events' = events \cup {Event("payment.canceled", q)}
    <3>1. q \in Payment
      BY <1>2, <2>2, CallFacts DEF OrderRow
    <3> QED BY <1>1, <2>2, <3>1, RefundType
  <2> QED BY <1>2, <2>1, <2>2 DEF RefundCaptured, Read
<1> QED BY <1>1, <1>3, <1>4 DEF GoodStep

LEMMA RegetGood ==
  ASSUME SagaInv, NEW p \in Proc, RegetRefunded(p) \/ ReconcileCancel(p)
  PROVE  GoodStep
<1>1. OnlyCall /\ call[p].at # "idle" /\ StockStep
  BY StillStock DEF RegetRefunded, ReconcileCancel, At
<1>2. CASE Return(p)
  BY <1>1, <1>2, ReturnStep, OnlyCallStep
<1>3. CASE /\ Cancelable(Db(p).status)
           /\ \E at \in {"cancelPaid", "cancelSave"} : GotoWith(p, at, Db(p))
  <2>1. PICK at \in Plain : GotoWith(p, at, Db(p))
    BY <1>3 DEF Plain, Step
  <2>2. PICK r \in OrderRow : r = Db(p) /\ RowOK(r, call[p].order) /\ r.status # "new"
    BY <1>1, <1>3, CallFacts DEF Cancelable
  <2> QED BY <1>1, <2>1, <2>2, GotoRowStep, OnlyCallStep
<1> QED BY <1>2, <1>3 DEF RegetRefunded, ReconcileCancel

\* Canceling the row as it is in the database, then giving back what it held.
LEMMA CancelDbGood ==
  ASSUME SagaInv, NEW p \in Proc, StockStep, call[p].at # "idle", Db(p).status # "new",
         Write(p, [Db(p) EXCEPT !.status = "canceled"]), GotoWith(p, "release", Db(p))
  PROVE  RowStep /\ CallStep
<1>1. "canceled" \in OrderStatus /\ "canceled" \notin Shipped /\ "release" \in Plain
  BY DEF OrderStatus, Final, Shipped, Shipping, Plain, Step
<1>2. RowStep
  BY <1>1, DbStatus
<1>3. PICK r \in OrderRow : r = Db(p) /\ RowOK(r, call[p].order) /\ r.status # "new"
  BY CallFacts
<1>4. CallStep
  BY <1>1, <1>3, GotoRowStep
<1> QED BY <1>2, <1>4

LEMMA CancelIfPendingGood ==
  ASSUME SagaInv, NEW p \in Proc, CancelIfPending(p)
  PROVE  GoodStep
<1>1. OnlyRow /\ call[p].at # "idle" /\ StockStep
  BY StillStock DEF CancelIfPending, At
<1>2. CASE UNCHANGED orders /\ Return(p)
  BY <1>1, <1>2, ReturnStep, OnlyRowStep DEF RowStep
<1>3. CASE /\ Db(p).status = "pending"
           /\ Write(p, [Db(p) EXCEPT !.status = "canceled"]) /\ GotoWith(p, "release", Db(p))
  BY <1>1, <1>3, CancelDbGood, OnlyRowStep
<1> QED BY <1>2, <1>3 DEF CancelIfPending

LEMMA CancelIfPaidForRefundGood ==
  ASSUME SagaInv, NEW p \in Proc, CancelIfPaidForRefund(p)
  PROVE  GoodStep
<1>1. /\ NoStock /\ NoPay /\ UNCHANGED <<filmed, use>> /\ StockStep
      /\ call[p].at \in {"cancelPaid", "cancelRefunded"}
  BY StillStock DEF CancelIfPaidForRefund
<1>2. RowStep /\ CallStep
  <2>1. CASE /\ Db(p).status # "new"
             /\ Write(p, [Db(p) EXCEPT !.status = "canceled"]) /\ GotoWith(p, "release", Db(p))
    BY <1>1, <2>1, CancelDbGood
  <2>2. CASE UNCHANGED orders /\ (Goto(p, "reconcile") \/ Return(p))
    <3>1. "reconcile" \in Plain /\ call[p].row.status # "new"
      BY <1>1, CallFacts DEF Plain, Step, CallOK
    <3> QED BY <1>1, <2>2, <3>1, GotoStep, ReturnStep DEF RowStep
  <2> QED BY <2>1, <2>2 DEF CancelIfPaidForRefund, CancelsOnRefund, PreShip
<1>3. RestTypeOK'
  <2>1. CASE UNCHANGED told
    BY <1>1, <2>1, RestSame DEF NoPay, paymentVars
  <2>2. CASE At(p, "cancelRefunded") /\ told' = told \cup {Read(p).payment}
    <3>1. PICK q \in Payment : q = call[p].row.payment
      BY <2>2, CallFacts DEF At, CallOK, OrderRow
    <3> QED BY <1>1, <2>2, <3>1 DEF Read, NoPay, paymentVars, RestTypeOK, SagaInv, SagaTypeOK
  <2> QED BY <2>1, <2>2 DEF CancelIfPaidForRefund
<1> QED BY <1>1, <1>2, <1>3 DEF GoodStep

LEMMA CancelSaveGood ==
  ASSUME SagaInv, NEW p \in Proc, CancelSave(p)
  PROVE  GoodStep
<1>1. OnlyRow /\ call[p].at = "cancelSave" /\ StockStep
  BY StillStock DEF CancelSave, At
<1>2. PICK r \in OrderRow : r = call[p].row /\ RowOK(r, call[p].order) /\ r.status # "new"
  BY <1>1, CallFacts DEF CallOK
<1>3. "canceled" \in OrderStatus /\ "canceled" \notin Shipped /\ "release" \in Plain
  BY DEF OrderStatus, Final, Shipped, Shipping, Plain, Step
<1>4. PICK s \in OrderRow : s = [r EXCEPT !.status = "canceled"] /\ RowOK(s, call[p].order)
  BY <1>2, <1>3, StatusChange
<1>5. RowStep
  BY <1>1, <1>2, <1>4, WriteStep DEF CancelSave, Read
<1>6. CallStep
  BY <1>1, <1>2, <1>3, GotoStep, ReturnStep DEF CancelSave
<1> QED BY <1>1, <1>5, <1>6, OnlyRowStep

LEMMA ReleaseStockGood ==
  ASSUME SagaInv, NEW p \in Proc, ReleaseStock(p)
  PROVE  GoodStep
<1>1. OnlyStock /\ call[p].at = "release" /\ Goto(p, "releaseUse")
  BY DEF ReleaseStock, At
<1>2. call[p].row.reservation \in ResId /\ call[p].row.status # "new"
  BY <1>1, CallFacts DEF CallOK, RowOK, Owns
<1>3. StockStep
  BY <1>2, ReleaseStep, StillStock DEF ReleaseStock, Read
<1>4. "releaseUse" \in Plain
  BY DEF Plain, Step
<1> QED BY <1>1, <1>2, <1>3, <1>4, GotoStep, OnlyStockStep

LEMMA SaveWithOutboxGood ==
  ASSUME SagaInv, NEW p \in Proc, SaveWithOutbox(p)
  PROVE  GoodStep
<1>1. OnlyRow /\ Return(p) /\ call[p].at = "save" /\ StockStep
  BY StillStock DEF SaveWithOutbox, At
<1>2. PICK r \in OrderRow : r = call[p].row /\ RowOK(r, call[p].order)
  BY <1>1, CallFacts DEF CallOK
<1>3. RowStep
  BY <1>1, <1>2, WriteStep DEF SaveWithOutbox, Read
<1> QED BY <1>1, <1>3, ReturnStep, OnlyRowStep

\* A handler that changes the row in memory.
LEMMA AmendGood ==
  ASSUME SagaInv, NEW p \in Proc, NEW handler, NEW o \in Order, NEW from, NEW r \in OrderRow,
         r.status # "new", RowOK(r, o), Amend(p, handler, o, from, r)
  PROVE  GoodStep
<1>1. OnlyCall /\ Start(p, o, "save", r) /\ "save" \in Plain
  BY DEF Amend, Plain, Step
<1> QED BY <1>1, StartStep, StillStock, OnlyCallStep

LEMMA HandlersGood ==
  ASSUME SagaInv, NEW p \in Proc, NEW o \in Order,
         \/ Deliver(p, o) \/ ConfirmReceipt(p, o) \/ ReportNotReceived(p, o)
         \/ ResolveDisputeFulfilled(p, o) \/ Fulfill(p, o)
         \/ RequestCancel(p, o) \/ RejectCancelRequest(p, o)
  PROVE  GoodStep
<1> DEFINE r == orders[o]
<1>1. r \in OrderRow /\ RowOK(r, o) /\ r.status # "new"
  BY DEF SagaInv, SagaTypeOK, Deliver, ConfirmReceipt, ReportNotReceived,
         ResolveDisputeFulfilled, Fulfill, RequestCancel, RejectCancelRequest, Amend
<1>2. r.status \in Shipped => ShippedFor(o)
  BY <1>1 DEF RowOK
<1>3. ASSUME NEW st \in OrderStatus, NEW rq \in BOOLEAN, st # "new",
             st \in Shipped => r.status \in Shipped
      PROVE  LET s == [r EXCEPT !.status = st, !.requested = rq]
             IN  s \in OrderRow /\ s.status # "new" /\ RowOK(s, o)
  BY <1>1, <1>2, <1>3 DEF OrderRow, RowOK
<1>4. {"in_transit", "delivered", "disputed", "fulfilled"} = Shipped
      /\ Shipped \subseteq OrderStatus /\ "new" \notin Shipped
  BY DEF Shipped, Shipping, OrderStatus, Final
<1>5. ASSUME NEW st \in Shipped, r.status \in Shipped
      PROVE  LET s == [r EXCEPT !.status = st]
             IN  s \in OrderRow /\ s.status # "new" /\ RowOK(s, o)
  BY <1>1, <1>2, <1>4, <1>5 DEF OrderRow, RowOK
<1>6. ASSUME NEW rq \in BOOLEAN
      PROVE  LET s == [r EXCEPT !.requested = rq]
             IN  s \in OrderRow /\ s.status # "new" /\ RowOK(s, o)
  BY <1>1, <1>2 DEF OrderRow, RowOK
<1>7. CASE Deliver(p, o)
  BY <1>4, <1>5, <1>7, AmendGood DEF Deliver, Amend
<1>8. CASE ConfirmReceipt(p, o)
  BY <1>4, <1>5, <1>8, AmendGood DEF ConfirmReceipt, Amend
<1>9. CASE ReportNotReceived(p, o)
  BY <1>3, <1>4, <1>9, AmendGood DEF ReportNotReceived, Amend
<1>10. CASE ResolveDisputeFulfilled(p, o)
  BY <1>4, <1>5, <1>10, AmendGood DEF ResolveDisputeFulfilled, Amend
<1>11. CASE Fulfill(p, o)
  BY <1>4, <1>5, <1>11, AmendGood DEF Fulfill, Amend
<1>12. CASE RequestCancel(p, o)
  BY <1>6, <1>12, AmendGood DEF RequestCancel
<1>13. CASE RejectCancelRequest(p, o)
  BY <1>6, <1>13, AmendGood DEF RejectCancelRequest
<1> QED BY <1>7, <1>8, <1>9, <1>10, <1>11, <1>12, <1>13

LEMMA PaymentServiceGood ==
  ASSUME SagaInv, PaymentService
  PROVE  GoodStep
<1>1. PICK q \in Payment :
        CreatePayment(q) \/ PaymentFails(q) \/ PaymentSucceeds(q) \/ CancelPayment(q)
  BY DEF PaymentService
<1>2. PaymentStep
  BY <1>1 DEF CreatePayment, PaymentFails, PaymentSucceeds, CancelPayment
<1>3. StockStep /\ RowStep /\ CallStep /\ NoOrder /\ UNCHANGED told
  BY <1>2, StillStock DEF PaymentStep, NoOrder, orderVars, RowStep, CallStep
<1>4. RestTypeOK'
  <2>1. CASE CreatePayment(q) \/ PaymentFails(q)
    BY <1>3, <2>1 DEF CreatePayment, PaymentFails, NoOrder, orderVars, RestTypeOK,
                      SagaInv, SagaTypeOK
  <2>2. CASE PaymentSucceeds(q)
    BY <1>3, <2>2 DEF PaymentSucceeds, Event, NoOrder, orderVars, RestTypeOK,
                      SagaInv, SagaTypeOK
  <2>3. CASE CancelPayment(q)
    BY <1>3, <2>3, RefundType DEF CancelPayment
  <2> QED BY <1>1, <2>1, <2>2, <2>3
<1> QED BY <1>3, <1>4 DEF GoodStep

----------------------------------------------------------------------------
(* The theorems. *)

LEMMA StepGood ==
  ASSUME SagaInv, SagaNext
  PROVE  GoodStep
<1>1. ASSUME NEW p \in Proc, StartRequest(p)
      PROVE  GoodStep
  <2>1. ASSUME NEW o \in Order, Place(p, o)
        PROVE  GoodStep
    BY <2>1, PlaceGood
  <2>2. ASSUME NEW o \in Order,
               Confirm(p, o) \/ Ship(p, o) \/ Cancel(p, o) \/ Expire(p, o)
        PROVE  GoodStep
    BY <2>2, ConfirmGood DEF Cancel
  <2>3. ASSUME NEW o \in Order,
               \/ Deliver(p, o) \/ ConfirmReceipt(p, o) \/ ReportNotReceived(p, o)
               \/ ResolveDisputeFulfilled(p, o) \/ Fulfill(p, o)
               \/ RequestCancel(p, o) \/ RejectCancelRequest(p, o)
        PROVE  GoodStep
    BY <2>3, HandlersGood
  <2>4. ASSUME NEW q \in Payment, MarkPaid(p, q) \/ CancelForRefund(p, q)
        PROVE  GoodStep
    BY <2>4, MarkPaidGood, CancelForRefundGood
  <2> QED BY <1>1, <2>1, <2>2, <2>3, <2>4 DEF StartRequest
<1>2. ASSUME NEW p \in Proc, Continue(p)
      PROVE  GoodStep
  <2>1. CASE \/ InsertOrder(p) \/ ClaimUse(p) \/ ClaimRefused(p) \/ ConsumeUse(p)
             \/ ReleaseUse(p) \/ RereadPending(p) \/ Reinstate(p)
    BY <2>1, InsertOrderGood, UseGood, ClaimRefusedGood, RereadPendingGood, ReinstateGood
  <2>2. CASE \/ SavePaid(p) \/ RecheckPaid(p) \/ UndoReinstate(p) \/ ConfirmIfPaid(p)
             \/ CommitStock(p) \/ ShipIfConfirmed(p) \/ RefundCaptured(p)
    BY <2>2, SavePaidGood, RecheckPaidGood, UndoReinstateGood, ConfirmIfPaidGood,
       CommitStockGood, ShipIfConfirmedGood, RefundCapturedGood
  <2>3. CASE \/ RegetRefunded(p) \/ CancelIfPending(p) \/ CancelIfPaidForRefund(p)
             \/ ReconcileCancel(p) \/ CancelSave(p) \/ ReleaseStock(p) \/ SaveWithOutbox(p)
    BY <2>3, RegetGood, CancelIfPendingGood, CancelIfPaidForRefundGood, CancelSaveGood,
       ReleaseStockGood, SaveWithOutboxGood
  <2> QED BY <1>2, <2>1, <2>2, <2>3 DEF Continue
<1>3. ASSUME NEW p \in Proc, Fail(p) \/ SaveFails(p)
      PROVE  GoodStep
  BY <1>3, FailGood, SaveFailsGood
<1>4. ASSUME NEW o \in Order, SetInspectionVideo(o)
      PROVE  GoodStep
  BY <1>4, SetInspectionVideoGood
<1>5. CASE PaymentService
  BY <1>5, PaymentServiceGood
<1> QED BY <1>1, <1>2, <1>3, <1>4, <1>5 DEF SagaNext

LEMMA SagaInvStep == SagaInv /\ [SagaNext]_sagaVars => SagaInv'
<1>1. CASE SagaInv /\ SagaNext
  BY <1>1, StepGood, GoodStepKeepsInv
<1>2. CASE SagaInv /\ UNCHANGED sagaVars
  <2>1. NoStock /\ UNCHANGED <<orders, call, filmed, use, payments, refunded, events, told>>
    BY <1>2 DEF sagaVars, NoStock, vars
  <2>2. GoodStep
    BY <1>2, <2>1, RestSame DEF GoodStep, StockStep, RowStep, CallStep
  <2> QED BY <1>2, <2>2, GoodStepKeepsInv
<1> QED BY <1>1, <1>2

LEMMA SagaInvInit == SagaInit => SagaInv
<1> SUFFICES ASSUME SagaInit PROVE SagaInv
  OBVIOUS
<1>1. TypeOK
  BY TypeInit DEF SagaInit
<1>2. SagaTypeOK
  BY NewRowType, NoCallType, OrderAssumption DEF SagaInit, SagaTypeOK
<1>3. \A o \in Order : RowOK(orders[o], o)
  BY DEF SagaInit, RowOK, NewRow, Shipped, Shipping
<1>4. CallOK(NoCall)
  BY DEF CallOK, RowOK, NoCall, NewRow, Shipped, Shipping
<1>5. \A p \in Proc : CallOK(call[p])
  BY <1>4 DEF SagaInit
<1> QED BY <1>1, <1>2, <1>3, <1>5 DEF SagaInv

LEMMA SagaInductive == SagaSpec => []SagaInv
BY SagaInvInit, SagaInvStep, PTL DEF SagaSpec

(* Rows, requests, payments and events stay well formed, and every row in   *)
(* the database or in a request's memory keeps its type.                    *)
THEOREM SagaTypeCorrect == SagaSpec => []SagaTypeOK
<1>1. SagaInv => SagaTypeOK
  BY DEF SagaInv
<1> QED BY <1>1, SagaInductive, PTL

(* An order shows in transit, delivered, disputed or fulfilled only when    *)
(* stock reserved for that very order was committed: for any number of      *)
(* concurrent requests, late or repeated events, and calls that fail.       *)
THEOREM ShippedWasCommitted == SagaSpec => []ShippedStockCommitted
<1>1. SagaInv => ShippedStockCommitted
  BY DEF SagaInv, RowOK, ShippedStockCommitted
<1> QED BY <1>1, SagaInductive, PTL

LEMMA SagaUsesStock == SagaSpec => Spec
<1>1. SagaInit => Init
  BY DEF SagaInit
<1>2. SagaInv /\ [SagaNext]_sagaVars => [Next]_vars
  <2>1. CASE SagaInv /\ SagaNext
    BY <2>1, StepGood, StockKept DEF GoodStep, SagaInv, SagaTypeOK
  <2>2. CASE UNCHANGED sagaVars
    BY <2>2 DEF sagaVars, vars
  <2> QED BY <2>1, <2>2
<1> QED BY <1>1, <1>2, SagaInductive, PTL DEF SagaSpec, Spec

(* No order saga, however its steps interleave or fail, oversells a row or  *)
(* makes the reserved counter disagree with the open reservations.          *)
THEOREM SagaStockSafe == SagaSpec => [](StockAccounting /\ NoOversell)
<1>1. IInv => StockAccounting /\ NoOversell
  BY DEF IInv
<1> QED BY <1>1, SagaUsesStock, InductiveInvariant, PTL
----------------------------------------------------------------------------
(* The stock of an order that can still ship.                              *)

Live == {"pending"} \cup PreShip

\* The handlers that may save a row that can still ship, as it was before a cancel, do not run.
NoCancelRequests == \A p \in Proc : Serves[p] \cap {"request", "reject"} = {}

\* The steps of a request that still owns the reservation it made.
Owning == {"insert", "savePaid", "recheck", "reinstateAgain", "savePaidAgain", "undo"}
Private(c) == c.hold # 0 /\ c.at \in Owning

\* A row that was never inserted names no reservation.
Unborn(r) == r.status = "new" => r.reservation = 0

\* What a request made and has not handed over is open, and nobody else's.
PrivateHold(p) ==
  Private(call[p]) =>
    /\ status[call[p].hold] = "active"
    /\ \A o \in Order : orders[o].reservation # call[p].hold
    /\ \A u \in Proc : /\ call[u].row.reservation # call[p].hold
                       /\ u # p /\ Private(call[u]) => call[u].hold # call[p].hold

\* What request p on order o counts on at step `at`, with row r and hold h.
HoldAt(p, at, o, r, h) ==
  /\ Unborn(r)
  /\ at \notin {"idle", "insert", "undo"} => orders[o].status # "new"
  /\ at = "insert" =>
       /\ orders[o].status = "new"
       /\ \A u \in Proc : call[u].at = "insert" /\ call[u].order = o => u = p
  /\ at = "save" => r.status \in Shipped
  /\ at = "reread" => h = 0
  /\ at = "release" => ~ (orders[o].status \in Live /\ orders[o].reservation = r.reservation)
  /\ at \in {"reread", "savePaid"} /\ h = 0 /\ orders[o].status = "pending" =>
       orders[o].reservation = r.reservation

HoldSound(p) == HoldAt(p, call[p].at, call[p].order, call[p].row, call[p].hold)

HoldInv ==
  /\ LiveOrderHoldsStock
  /\ \A o \in Order : Unborn(orders[o])
  /\ \A p \in Proc : PrivateHold(p) /\ HoldSound(p)

----------------------------------------------------------------------------
(* The money of a canceled order.                                          *)

OnePaymentPerOrder == \A q, u \in Payment : PaymentOrder[q] = PaymentOrder[u] => q = u

Captured(q, o) == q \in Payment /\ PaymentOrder[q] = o /\ payments[q] \in {"succeeded", "canceled"}
Refunded(o) == PaysFor(o) \subseteq refunded

\* What a row of order o, stored or in a request's memory, says of its payment.
RowMoney(r, o) ==
  /\ r.payment # NoPayment => Captured(r.payment, o)
  /\ r.status \in {"new", "pending"} => r.payment = NoPayment
  /\ r.status \in PreShip \cup Shipped => r.payment # NoPayment
  /\ r.status = "canceled" /\ r.payment # NoPayment => r.payment \in refunded

PaymentMoney(q) ==
  /\ payments[q] = "canceled" => q \in refunded
  /\ Event("payment.succeeded", q) \in events => payments[q] \in {"succeeded", "canceled"}
  /\ Event("payment.canceled", q) \in events => q \in refunded

\* A request at step `at` on order o, with row r in memory and payment q in hand.
MoneyAt(at, o, r, q) ==
  /\ RowMoney(r, o)
  /\ at \in {"reget", "cancelPaid", "reconcile", "cancelSave"} => Refunded(o)
  /\ at = "cancelRefunded" => r.payment \in refunded
  /\ at = "refund" => r.payment # NoPayment
  /\ at \in {"reread", "reinstate", "savePaid", "recheck", "reinstateAgain", "savePaidAgain"} =>
       Captured(q, o)

CallMoney(c) == MoneyAt(c.at, c.order, c.row, c.payment)

MoneyInv ==
  /\ \A o \in Order : RowMoney(orders[o], o)
  /\ \A q \in Payment : PaymentMoney(q)
  /\ \A p \in Proc : CallMoney(call[p])

----------------------------------------------------------------------------
(* How a step leaves the requests. *)

Keeps(p) == \A u \in Proc : u # p => call'[u] = call[u]

Becomes(p, at, o, r, q, h) ==
  /\ Keeps(p)
  /\ call'[p].at = at /\ call'[p].order = o /\ call'[p].row = r
  /\ call'[p].payment = q /\ call'[p].hold = h

LEMMA Shapes ==
  ASSUME SagaInv, NEW p \in Proc, NEW at, NEW c, c = call[p], NEW o, NEW r
  PROVE  /\ Goto(p, at) => Becomes(p, at, c.order, c.row, c.payment, c.hold)
         /\ GotoWith(p, at, r) => Becomes(p, at, c.order, r, c.payment, c.hold)
         /\ Return(p) => Becomes(p, "idle", 0, NewRow, NoPayment, 0)
         /\ Start(p, o, at, r) => Becomes(p, at, o, r, NoPayment, 0)
<1>1. call \in [Proc -> CallRecord]
  BY DEF SagaInv, SagaTypeOK
<1>2. Goto(p, at) => Becomes(p, at, c.order, c.row, c.payment, c.hold)
  BY <1>1 DEF Goto, Becomes, Keeps, CallRecord
<1>3. GotoWith(p, at, r) => Becomes(p, at, c.order, r, c.payment, c.hold)
  BY <1>1 DEF GotoWith, Becomes, Keeps, CallRecord
<1>4. Return(p) => Becomes(p, "idle", 0, NewRow, NoPayment, 0)
  BY <1>1 DEF Return, Becomes, Keeps, NoCall
<1>5. Start(p, o, at, r) => Becomes(p, at, o, r, NoPayment, 0)
  BY <1>1 DEF Start, Becomes, Keeps, NoCall
<1> QED BY <1>2, <1>3, <1>4, <1>5

\* A row is written, or none is.
Writes(o, r) == orders' = [orders EXCEPT ![o] = r]

----------------------------------------------------------------------------
(* The money: what keeps the invariant. *)

\* A request moves and maybe writes a row, no payment changes.
LEMMA MoneyMove ==
  ASSUME SagaInv, MoneyInv, NoPay, NEW p \in Proc, NEW at, NEW o, NEW r, NEW q, NEW h,
         Becomes(p, at, o, r, q, h), MoneyAt(at, o, r, q),
         UNCHANGED orders \/ \E d \in Order : \E s : Writes(d, s) /\ RowMoney(s, d)
  PROVE  MoneyInv'
<1>1. payments' = payments /\ refunded' = refunded /\ events' = events
  BY DEF NoPay, paymentVars
<1>2. \A u \in Proc : CallMoney(call[u])'
  <2>1. CallMoney(call[p])'
    BY <1>1 DEF Becomes, CallMoney, MoneyAt, RowMoney, Captured, Refunded
  <2>2. ASSUME NEW u \in Proc, u # p PROVE CallMoney(call[u])'
    BY <1>1, <2>2 DEF Becomes, Keeps, MoneyInv, CallMoney, MoneyAt, RowMoney, Captured, Refunded
  <2> QED BY <2>1, <2>2
<1>3. \A d \in Order : RowMoney(orders[d], d)'
  <2>1. CASE UNCHANGED orders
    BY <1>1, <2>1 DEF MoneyInv, RowMoney, Captured
  <2>2. ASSUME NEW d \in Order, NEW s, Writes(d, s), RowMoney(s, d)
        PROVE  \A e \in Order : RowMoney(orders[e], e)'
    <3>1. orders'[d] = s /\ \A e \in Order : e # d => orders'[e] = orders[e]
      BY <2>2 DEF Writes, SagaInv, SagaTypeOK
    <3>2. RowMoney(orders[d], d)'
      BY <1>1, <2>2, <3>1 DEF RowMoney, Captured
    <3>3. ASSUME NEW e \in Order, e # d PROVE RowMoney(orders[e], e)'
      BY <1>1, <3>1, <3>3 DEF MoneyInv, RowMoney, Captured
    <3> QED BY <3>2, <3>3
  <2> QED BY <2>1, <2>2
<1>4. \A u \in Payment : PaymentMoney(u)'
  BY <1>1 DEF MoneyInv, PaymentMoney, Event
<1> QED BY <1>2, <1>3, <1>4 DEF MoneyInv

\* A payment is captured or refunded: no row and no request loses what it counts on.
LEMMA MoneyGrows ==
  ASSUME SagaInv, MoneyInv, refunded \subseteq refunded',
         \A q \in Payment : payments[q] \in {"succeeded", "canceled"} =>
                              payments'[q] \in {"succeeded", "canceled"}
  PROVE  /\ \A r, o : RowMoney(r, o) => RowMoney(r, o)'
         /\ \A at, o, r, q : MoneyAt(at, o, r, q) => MoneyAt(at, o, r, q)'
<1>1. \A q, o : Captured(q, o) => Captured(q, o)'
  BY DEF Captured
<1>2. \A r, o : RowMoney(r, o) => RowMoney(r, o)'
  BY <1>1 DEF RowMoney
<1>3. \A o : Refunded(o) => Refunded(o)'
  BY DEF Refunded, PaysFor
<1>4. \A at, o, r, q : MoneyAt(at, o, r, q) => MoneyAt(at, o, r, q)'
  BY <1>1, <1>2, <1>3 DEF MoneyAt
<1> QED BY <1>2, <1>4

\* The same, with every row and request but p's as they were.
LEMMA MoneyPays ==
  ASSUME SagaInv, MoneyInv, refunded \subseteq refunded', UNCHANGED orders,
         \A q \in Payment : payments[q] \in {"succeeded", "canceled"} =>
                              payments'[q] \in {"succeeded", "canceled"},
         \A q \in Payment : PaymentMoney(q)',
         \A u \in Proc : call'[u] = call[u] \/ CallMoney(call[u])'
  PROVE  MoneyInv'
<1>1. ASSUME NEW o \in Order PROVE RowMoney(orders[o], o)'
  <2>1. PICK r : r = orders[o] /\ RowMoney(r, o)
    BY DEF MoneyInv
  <2>2. RowMoney(r, o)'
    BY <2>1, MoneyGrows
  <2> QED BY <2>1, <2>2 DEF RowMoney, Captured
<1>2. ASSUME NEW u \in Proc, call'[u] = call[u] PROVE CallMoney(call[u])'
  <2>1. PICK c : c = call[u] /\ MoneyAt(c.at, c.order, c.row, c.payment)
    BY DEF MoneyInv, CallMoney
  <2>2. MoneyAt(c.at, c.order, c.row, c.payment)'
    BY <2>1, MoneyGrows
  <2> QED BY <1>2, <2>1, <2>2 DEF CallMoney, MoneyAt, RowMoney, Captured, Refunded
<1> QED BY <1>1, <1>2 DEF MoneyInv

----------------------------------------------------------------------------
(* The money: the actions. *)

LEMMA MoneyFacts ==
  ASSUME SagaInv, MoneyInv, NEW p \in Proc
  PROVE  \E c \in CallRecord :
           /\ c = call[p] /\ MoneyAt(c.at, c.order, c.row, c.payment)
           /\ c.at # "idle" => /\ c.order \in Order
                               /\ \E d \in OrderRow : d = orders[c.order] /\ RowMoney(d, c.order)
BY CallFacts DEF MoneyInv, CallMoney, Db

\* A request ends.
LEMMA MoneyReturn ==
  ASSUME SagaInv, MoneyInv, NoPay, NEW p \in Proc, Return(p),
         UNCHANGED orders \/ \E d \in Order : \E s : Writes(d, s) /\ RowMoney(s, d)
  PROVE  MoneyInv'
<1>1. Becomes(p, "idle", 0, NewRow, NoPayment, 0)
  BY Shapes
<1>2. MoneyAt("idle", 0, NewRow, NoPayment)
  BY DEF MoneyAt, RowMoney, NewRow, PreShip, Shipped, Shipping
<1> QED BY <1>1, <1>2, MoneyMove

\* A request goes on at another step.
LEMMA MoneyGoto ==
  ASSUME SagaInv, MoneyInv, NoPay, NEW p \in Proc, NEW c, c = call[p], NEW at, Goto(p, at),
         MoneyAt(at, c.order, c.row, c.payment),
         UNCHANGED orders \/ \E d \in Order : \E s : Writes(d, s) /\ RowMoney(s, d)
  PROVE  MoneyInv'
<1>1. Becomes(p, at, c.order, c.row, c.payment, c.hold)
  BY Shapes
<1> QED BY <1>1, MoneyMove

\* It goes on with another row.
LEMMA MoneyGotoWith ==
  ASSUME SagaInv, MoneyInv, NoPay, NEW p \in Proc, NEW c, c = call[p], NEW at, NEW r,
         GotoWith(p, at, r), MoneyAt(at, c.order, r, c.payment),
         UNCHANGED orders \/ \E d \in Order : \E s : Writes(d, s) /\ RowMoney(s, d)
  PROVE  MoneyInv'
<1>1. Becomes(p, at, c.order, r, c.payment, c.hold)
  BY Shapes
<1> QED BY <1>1, MoneyMove

\* A request begins without a payment in hand.
LEMMA MoneyStart ==
  ASSUME SagaInv, MoneyInv, OnlyCall, NEW p \in Proc, NEW o \in Order, NEW at, NEW r,
         Start(p, o, at, r), RowMoney(r, o),
         at \in {"confirm", "commit", "cancelPending", "refund", "cancelRefunded", "save"},
         at = "cancelRefunded" => r.payment \in refunded,
         at = "refund" => r.payment # NoPayment
  PROVE  MoneyInv'
<1>1. Becomes(p, at, o, r, NoPayment, 0)
  BY Shapes
<1>2. MoneyAt(at, o, r, NoPayment)
  BY DEF MoneyAt
<1> QED BY <1>1, <1>2, MoneyMove DEF OnlyCall, NoOrder, orderVars

\* Steps that ask nothing of the payment.
LEMMA MoneyCalm ==
  ASSUME NEW at, NEW o, NEW r, NEW q, RowMoney(r, o),
         at \in {"claim", "undo", "consume", "ship", "release", "releaseUse"}
  PROVE  MoneyAt(at, o, r, q)
BY DEF MoneyAt

LEMMA MoneyOfPlacing ==
  ASSUME SagaInv, MoneyInv, NEW p \in Proc,
         \/ \E o \in Order : Place(p, o)
         \/ InsertOrder(p) \/ ClaimUse(p) \/ ConsumeUse(p) \/ ReleaseUse(p)
  PROVE  MoneyInv'
<1>1. PICK c \in CallRecord : c = call[p] /\ MoneyAt(c.at, c.order, c.row, c.payment)
                              /\ (c.at # "idle" => c.order \in Order)
  BY MoneyFacts
<1>2. ASSUME NEW o \in Order, Place(p, o) PROVE MoneyInv'
  <2>1. PICK h : h = seq + 1
    OBVIOUS
  <2>2. Becomes(p, "insert", o, NewRow, NoPayment, h)
    BY <1>2, <2>1 DEF Place, Becomes, Keeps, NoCall, SagaInv, SagaTypeOK
  <2>3. MoneyAt("insert", o, NewRow, NoPayment)
    BY DEF MoneyAt, RowMoney, NewRow, PreShip, Shipped, Shipping
  <2> QED BY <1>2, <2>2, <2>3, MoneyMove DEF Place, OnlyStock, NoOrder, orderVars
<1>3. CASE InsertOrder(p)
  <2>1. c.order \in Order /\ NoPay /\ Goto(p, "claim") /\ MoneyAt("claim", c.order, c.row, c.payment)
    BY <1>1, <1>3, MoneyCalm DEF InsertOrder, At, OnlyRow, MoneyAt
  <2>2. PICK s : s = [NewRow EXCEPT !.status = "pending", !.reservation = c.hold]
    OBVIOUS
  <2>3. Writes(c.order, s)
    BY <1>1, <1>3, <2>2 DEF InsertOrder, Write, Writes
  <2>4. RowMoney(s, c.order)
    BY <2>2 DEF NewRow, RowMoney, PreShip, Shipped, Shipping
  <2> QED BY <1>1, <2>1, <2>3, <2>4, MoneyGoto
<1>4. CASE ClaimUse(p) \/ ConsumeUse(p) \/ ReleaseUse(p)
  BY <1>4, MoneyReturn DEF ClaimUse, ConsumeUse, ReleaseUse
<1> QED BY <1>2, <1>3, <1>4

LEMMA MoneyOfMarkPaid ==
  ASSUME SagaInv, MoneyInv, NEW p \in Proc, NEW q \in Payment, MarkPaid(p, q)
  PROVE  MoneyInv'
<1>1. PICK o \in Order : o = PaymentOrder[q]
  BY PaymentAssumption
<1>2. PICK r \in OrderRow : r = orders[o] /\ RowMoney(r, o)
  BY DEF MoneyInv, SagaInv, SagaTypeOK
<1>3. PICK at \in {"reread", "reinstate"} : Becomes(p, at, o, r, q, 0)
  BY <1>1, <1>2 DEF MarkPaid, Becomes, Keeps, NoCall, SagaInv, SagaTypeOK
<1>4. Captured(q, o)
  BY <1>1 DEF MarkPaid, MoneyInv, PaymentMoney, Captured
<1>5. MoneyAt(at, o, r, q)
  BY <1>2, <1>3, <1>4 DEF MoneyAt
<1> QED BY <1>3, <1>5, MoneyMove DEF MarkPaid, OnlyCall, NoOrder, orderVars

LEMMA MoneyOfPaying ==
  ASSUME SagaInv, MoneyInv, NEW p \in Proc,
         \/ RereadPending(p) \/ Reinstate(p) \/ SavePaid(p) \/ RecheckPaid(p)
         \/ UndoReinstate(p) \/ SaveFails(p) \/ Fail(p)
  PROVE  MoneyInv'
<1>1. PICK c \in CallRecord :
        /\ c = call[p] /\ MoneyAt(c.at, c.order, c.row, c.payment)
        /\ c.at # "idle" => /\ c.order \in Order
                            /\ \E d \in OrderRow : d = orders[c.order] /\ RowMoney(d, c.order)
  BY MoneyFacts
<1>2. RowMoney(c.row, c.order)
  BY <1>1 DEF MoneyAt
<1>3. CASE RereadPending(p) \/ RecheckPaid(p)
  <2>1. OnlyCall /\ c.at \in {"reread", "recheck"}
    BY <1>1, <1>3 DEF RereadPending, RecheckPaid, At
  <2>2. PICK d \in OrderRow : d = Db(p) /\ RowMoney(d, c.order)
    BY <1>1, <2>1 DEF Db
  <2>3. Captured(c.payment, c.order)
    BY <1>1, <2>1 DEF MoneyAt
  <2>4. \A at \in {"reinstate", "reinstateAgain"} : MoneyAt(at, c.order, d, c.payment)
    BY <2>2, <2>3 DEF MoneyAt
  <2>5. \A at \in {"savePaid", "undo"} : MoneyAt(at, c.order, c.row, c.payment)
    BY <1>2, <2>3 DEF MoneyAt
  <2>6. \/ Return(p)
        \/ \E at \in {"reinstate", "reinstateAgain"} : GotoWith(p, at, d)
        \/ \E at \in {"savePaid", "undo"} : Goto(p, at)
    BY <1>3, <2>2 DEF RereadPending, RecheckPaid
  <2> QED BY <1>1, <2>1, <2>4, <2>5, <2>6, MoneyReturn, MoneyGoto, MoneyGotoWith
          DEF OnlyCall, NoOrder, orderVars
<1>4. CASE Reinstate(p)
  <2>1. NoPay /\ UNCHANGED orders /\ c.at \in {"reinstate", "reinstateAgain"}
    BY <1>1, <1>4 DEF Reinstate, OnlyStock, NoOrder, orderVars
  <2>2. CASE Return(p)
    BY <2>1, <2>2, MoneyReturn
  <2>3. CASE call' = [call EXCEPT ![p].hold = seq + 1,
                                  ![p].at = IF @ = "reinstate" THEN "savePaid" ELSE "savePaidAgain"]
    <3>1. PICK h : h = seq + 1
      OBVIOUS
    <3>2. PICK at \in {"savePaid", "savePaidAgain"} : Becomes(p, at, c.order, c.row, c.payment, h)
      BY <1>1, <2>3, <3>1 DEF Becomes, Keeps, SagaInv, SagaTypeOK, CallRecord
    <3>3. MoneyAt(at, c.order, c.row, c.payment)
      BY <1>1, <2>1 DEF MoneyAt
    <3> QED BY <2>1, <3>2, <3>3, MoneyMove
  <2> QED BY <1>4, <2>2, <2>3 DEF Reinstate
<1>5. CASE SavePaid(p)
  <2>1. NoPay /\ c.at \in {"savePaid", "savePaidAgain"}
    BY <1>1, <1>5 DEF SavePaid, OnlyRow
  <2>2. PICK d \in OrderRow : d = Db(p) /\ RowMoney(d, c.order)
    BY <1>1, <2>1 DEF Db
  <2>3. Captured(c.payment, c.order)
    BY <1>1, <2>1 DEF MoneyAt
  <2>4. CASE UNCHANGED orders /\ \E at \in {"recheck", "undo"} : Goto(p, at)
    <3>1. \A at \in {"recheck", "undo"} : MoneyAt(at, c.order, c.row, c.payment)
      BY <1>2, <2>3 DEF MoneyAt
    <3> QED BY <1>1, <2>1, <2>4, <3>1, MoneyGoto
  <2>5. ASSUME NEW x, Goto(p, "consume"),
               Write(p, [d EXCEPT !.status = "paid", !.payment = c.payment, !.reservation = x])
        PROVE  MoneyInv'
    <3>1. PICK s : s = [d EXCEPT !.status = "paid", !.payment = c.payment, !.reservation = x]
      OBVIOUS
    <3>2. Writes(c.order, s) /\ c.order \in Order
      BY <1>1, <2>1, <2>5, <3>1 DEF Write, Writes
    <3>3. s.status = "paid" /\ s.payment = c.payment
      BY <3>1 DEF OrderRow
    <3>4. RowMoney(s, c.order)
      BY <2>3, <3>3, PaymentAssumption DEF RowMoney, Captured
    <3>5. MoneyAt("consume", c.order, c.row, c.payment)
      BY <1>2, MoneyCalm
    <3> QED BY <1>1, <2>1, <2>5, <3>2, <3>4, <3>5, MoneyGoto
  <2>6. PICK x : x = IF c.hold = 0 THEN c.row.reservation ELSE c.hold
    OBVIOUS
  <2> QED BY <1>1, <1>5, <2>1, <2>2, <2>4, <2>5, <2>6 DEF SavePaid
<1>6. CASE UndoReinstate(p) \/ Fail(p)
  BY <1>6, MoneyReturn DEF UndoReinstate, Fail, OnlyStock, OnlyCall, NoOrder, orderVars
<1>7. CASE SaveFails(p)
  BY <1>1, <1>2, <1>7, MoneyCalm, MoneyGoto DEF SaveFails, OnlyCall, NoOrder, orderVars
<1> QED BY <1>3, <1>4, <1>5, <1>6, <1>7

\* A row that moves to another status with its payment.
LEMMA MoneyStatus ==
  ASSUME NEW d \in OrderRow, NEW o, NEW st, NEW s, RowMoney(d, o), d.payment # NoPayment,
         s.status = st, s.payment = d.payment,
         st \in PreShip \cup Shipped \/ (st = "canceled" /\ d.payment \in refunded)
  PROVE  RowMoney(s, o)
BY DEF RowMoney, PreShip, Shipped, Shipping

\* The payment of an order whose payments all went back.
LEMMA MoneyBack ==
  ASSUME NEW r, NEW o, RowMoney(r, o), Refunded(o), r.payment # NoPayment
  PROVE  r.payment \in refunded
BY DEF RowMoney, Captured, Refunded, PaysFor

LEMMA MoneyOfShipping ==
  ASSUME SagaInv, MoneyInv, NEW p \in Proc,
         ConfirmIfPaid(p) \/ CommitStock(p) \/ ShipIfConfirmed(p) \/ SaveWithOutbox(p)
  PROVE  MoneyInv'
<1>1. PICK c \in CallRecord :
        /\ c = call[p] /\ MoneyAt(c.at, c.order, c.row, c.payment)
        /\ c.at # "idle" => /\ c.order \in Order
                            /\ \E d \in OrderRow : d = orders[c.order] /\ RowMoney(d, c.order)
  BY MoneyFacts
<1>2. /\ NoPay /\ c.at # "idle" /\ c.order \in Order
      /\ \E d \in OrderRow : d = Db(p) /\ RowMoney(d, c.order)
  BY <1>1 DEF ConfirmIfPaid, CommitStock, ShipIfConfirmed, SaveWithOutbox, At, OnlyRow, OnlyStock, Db
<1>3. PICK d \in OrderRow : d = Db(p) /\ RowMoney(d, c.order)
  BY <1>2
<1>4. ASSUME NEW st \in {"confirmed", "in_transit"}, d.status \in PreShip,
             Write(p, [d EXCEPT !.status = st]), Return(p)
      PROVE  MoneyInv'
  <2>1. PICK s : s = [d EXCEPT !.status = st]
    OBVIOUS
  <2>2. s.status = st /\ s.payment = d.payment
    BY <2>1 DEF OrderRow
  <2>3. RowMoney(s, c.order)
    BY <1>3, <1>4, <2>2, MoneyStatus DEF RowMoney, PreShip, Shipped, Shipping
  <2>4. Writes(c.order, s)
    BY <1>1, <1>4, <2>1 DEF Write, Writes
  <2> QED BY <1>2, <1>4, <2>3, <2>4, MoneyReturn
<1>5. CASE ConfirmIfPaid(p)
  BY <1>2, <1>3, <1>4, <1>5, MoneyReturn DEF ConfirmIfPaid, PreShip
<1>6. CASE ShipIfConfirmed(p)
  BY <1>2, <1>3, <1>4, <1>6, MoneyReturn DEF ShipIfConfirmed, PreShip
<1>7. CASE CommitStock(p)
  <2>1. UNCHANGED orders /\ (Goto(p, "ship") \/ Return(p))
    BY <1>7 DEF CommitStock, OnlyStock, NoOrder, orderVars
  <2>2. MoneyAt("ship", c.order, c.row, c.payment)
    BY <1>1, MoneyCalm DEF MoneyAt
  <2> QED BY <1>1, <1>2, <2>1, <2>2, MoneyReturn, MoneyGoto
<1>8. CASE SaveWithOutbox(p)
  <2>1. PICK s : s = Read(p) /\ RowMoney(s, c.order)
    BY <1>1 DEF Read, MoneyAt
  <2>2. Return(p) /\ Writes(c.order, s)
    BY <1>1, <1>8, <2>1 DEF SaveWithOutbox, Write, Writes
  <2> QED BY <1>2, <2>1, <2>2, MoneyReturn
<1> QED BY <1>5, <1>6, <1>7, <1>8

\* Requests that begin by reading the row.
LEMMA MoneyOfStarts ==
  ASSUME SagaInv, MoneyInv, NEW p \in Proc, NEW o \in Order,
         Confirm(p, o) \/ Ship(p, o) \/ BeginCancel(p, o) \/ Expire(p, o)
  PROVE  MoneyInv'
<1>1. PICK r \in OrderRow : r = orders[o] /\ RowMoney(r, o)
  BY DEF MoneyInv, SagaInv, SagaTypeOK
<1>2. OnlyCall
  BY DEF Confirm, Ship, BeginCancel, Expire
<1>3. CASE Confirm(p, o) \/ Ship(p, o) \/ Expire(p, o)
  BY <1>1, <1>2, <1>3, MoneyStart DEF Confirm, Ship, Expire
<1>4. CASE BeginCancel(p, o)
  <2>1. r.status # "pending" => r.payment # NoPayment
    BY <1>1, <1>4 DEF BeginCancel, Cancelable, Final, RowMoney, OrderRow, OrderStatus, Shipped
  <2>2. CASE r.status = "pending"
    BY <1>1, <1>2, <1>4, <2>2, MoneyStart DEF BeginCancel
  <2>3. CASE r.status # "pending"
    BY <1>1, <1>2, <1>4, <2>1, <2>3, MoneyStart DEF BeginCancel
  <2> QED BY <2>2, <2>3
<1> QED BY <1>3, <1>4

LEMMA MoneyOfHandlers ==
  ASSUME SagaInv, MoneyInv, NEW p \in Proc, NEW o \in Order,
         \/ Deliver(p, o) \/ ConfirmReceipt(p, o) \/ ReportNotReceived(p, o)
         \/ ResolveDisputeFulfilled(p, o) \/ Fulfill(p, o)
         \/ RequestCancel(p, o) \/ RejectCancelRequest(p, o)
  PROVE  MoneyInv'
<1>1. PICK r \in OrderRow : r = orders[o] /\ RowMoney(r, o)
  BY DEF MoneyInv, SagaInv, SagaTypeOK
<1>2. ASSUME NEW handler, NEW from, NEW s, Amend(p, handler, o, from, s), s.payment = r.payment,
             s.status = r.status \/ (r.status \in Shipping /\ s.status \in Shipped)
      PROVE  MoneyInv'
  <2>1. RowMoney(s, o)
    BY <1>1, <1>2 DEF RowMoney, PreShip, Shipped, Shipping
  <2>2. OnlyCall /\ Start(p, o, "save", s)
    BY <1>2 DEF Amend
  <2> QED BY <2>1, <2>2, MoneyStart
<1>3. \A st : [r EXCEPT !.status = st].status = st /\ [r EXCEPT !.status = st].payment = r.payment
  BY DEF OrderRow
<1>4. \A rq : [r EXCEPT !.requested = rq].status = r.status
              /\ [r EXCEPT !.requested = rq].payment = r.payment
  BY DEF OrderRow
<1>5. {"in_transit", "delivered", "disputed"} = Shipping /\ Shipping \subseteq Shipped
      /\ "fulfilled" \in Shipped
  BY DEF Shipping, Shipped
<1>6. CASE Deliver(p, o)
  <2>1. r.status \in Shipping
    BY <1>1, <1>5, <1>6 DEF Deliver, Amend
  <2>2. PICK s : s = [r EXCEPT !.status = "delivered"]
    OBVIOUS
  <2>3. s.status = "delivered" /\ s.payment = r.payment
    BY <1>3, <2>2
  <2>4. \E handler, from : Amend(p, handler, o, from, s)
    BY <1>1, <1>6, <2>2 DEF Deliver
  <2> QED BY <1>2, <1>5, <2>1, <2>3, <2>4
<1>7. CASE ConfirmReceipt(p, o)
  <2>1. r.status \in Shipping
    BY <1>1, <1>5, <1>7 DEF ConfirmReceipt, Amend
  <2>2. PICK s : s = [r EXCEPT !.status = "fulfilled"]
    OBVIOUS
  <2>3. s.status = "fulfilled" /\ s.payment = r.payment
    BY <1>3, <2>2
  <2>4. \E handler, from : Amend(p, handler, o, from, s)
    BY <1>1, <1>7, <2>2 DEF ConfirmReceipt
  <2> QED BY <1>2, <1>5, <2>1, <2>3, <2>4
<1>8. CASE ReportNotReceived(p, o)
  <2>1. r.status \in Shipping
    BY <1>1, <1>5, <1>8 DEF ReportNotReceived, Amend
  <2>2. PICK s : s = [r EXCEPT !.status = "disputed", !.requested = FALSE]
    OBVIOUS
  <2>3. s.status = "disputed" /\ s.payment = r.payment
    BY <2>2 DEF OrderRow
  <2> QED BY <1>1, <1>2, <1>5, <1>8, <2>1, <2>2, <2>3 DEF ReportNotReceived
<1>9. CASE ResolveDisputeFulfilled(p, o)
  <2>1. r.status \in Shipping
    BY <1>1, <1>5, <1>9 DEF ResolveDisputeFulfilled, Amend
  <2>2. PICK s : s = [r EXCEPT !.status = "fulfilled"]
    OBVIOUS
  <2>3. s.status = "fulfilled" /\ s.payment = r.payment
    BY <1>3, <2>2
  <2>4. \E handler, from : Amend(p, handler, o, from, s)
    BY <1>1, <1>9, <2>2 DEF ResolveDisputeFulfilled
  <2> QED BY <1>2, <1>5, <2>1, <2>3, <2>4
<1>10. CASE Fulfill(p, o)
  <2>1. r.status \in Shipping
    BY <1>1, <1>5, <1>10 DEF Fulfill, Amend
  <2>2. PICK s : s = [r EXCEPT !.status = "fulfilled"]
    OBVIOUS
  <2>3. s.status = "fulfilled" /\ s.payment = r.payment
    BY <1>3, <2>2
  <2>4. \E handler, from : Amend(p, handler, o, from, s)
    BY <1>1, <1>10, <2>2 DEF Fulfill
  <2> QED BY <1>2, <1>5, <2>1, <2>3, <2>4
<1>11. CASE RequestCancel(p, o)
  BY <1>1, <1>2, <1>4, <1>11 DEF RequestCancel
<1>12. CASE RejectCancelRequest(p, o)
  BY <1>1, <1>2, <1>4, <1>12 DEF RejectCancelRequest
<1> QED BY <1>6, <1>7, <1>8, <1>9, <1>10, <1>11, <1>12

LEMMA MoneyOfCancel ==
  ASSUME SagaInv, MoneyInv, NEW p \in Proc,
         \/ RegetRefunded(p) \/ CancelIfPending(p) \/ CancelIfPaidForRefund(p)
         \/ ReconcileCancel(p) \/ CancelSave(p) \/ ReleaseStock(p)
  PROVE  MoneyInv'
<1>1. PICK c \in CallRecord :
        /\ c = call[p] /\ MoneyAt(c.at, c.order, c.row, c.payment)
        /\ c.at # "idle" => /\ c.order \in Order
                            /\ \E d \in OrderRow : d = orders[c.order] /\ RowMoney(d, c.order)
  BY MoneyFacts
<1>2. NoPay /\ c.at # "idle" /\ RowMoney(c.row, c.order)
  BY <1>1 DEF RegetRefunded, CancelIfPending, CancelIfPaidForRefund, ReconcileCancel, CancelSave,
              ReleaseStock, At, OnlyCall, OnlyRow, OnlyStock, MoneyAt
<1>3. PICK d \in OrderRow : d = Db(p) /\ RowMoney(d, c.order)
  BY <1>1, <1>2 DEF Db
\* A row that is canceled although paid, if it was, is refunded.
<1>4. ASSUME NEW r \in OrderRow, RowMoney(r, c.order), r.payment # NoPayment => r.payment \in refunded,
             Write(p, [r EXCEPT !.status = "canceled"])
      PROVE  \E o \in Order : \E s : Writes(o, s) /\ RowMoney(s, o)
  <2>1. PICK s : s = [r EXCEPT !.status = "canceled"]
    OBVIOUS
  <2>2. s.status = "canceled" /\ s.payment = r.payment
    BY <2>1 DEF OrderRow
  <2>3. RowMoney(s, c.order)
    BY <1>4, <2>2 DEF RowMoney, PreShip, Shipped, Shipping
  <2>4. Writes(c.order, s)
    BY <1>1, <1>4, <2>1 DEF Write, Writes
  <2> QED BY <1>1, <1>2, <2>3, <2>4
<1>5. CASE RegetRefunded(p) \/ ReconcileCancel(p)
  <2>1. UNCHANGED orders /\ Refunded(c.order)
    BY <1>1, <1>5 DEF RegetRefunded, ReconcileCancel, At, OnlyCall, NoOrder, orderVars, MoneyAt
  <2>2. \A at \in {"cancelPaid", "cancelSave"} : MoneyAt(at, c.order, d, c.payment)
    BY <1>3, <2>1 DEF MoneyAt
  <2>3. Return(p) \/ \E at \in {"cancelPaid", "cancelSave"} : GotoWith(p, at, d)
    BY <1>3, <1>5 DEF RegetRefunded, ReconcileCancel
  <2> QED BY <1>1, <1>2, <2>1, <2>2, <2>3, MoneyReturn, MoneyGotoWith
<1>6. MoneyAt("release", c.order, d, c.payment) /\ MoneyAt("release", c.order, c.row, c.payment)
  BY <1>2, <1>3, MoneyCalm
<1>7. CASE CancelIfPending(p)
  <2>1. CASE UNCHANGED orders /\ Return(p)
    BY <1>2, <2>1, MoneyReturn
  <2>2. CASE /\ d.status = "pending"
             /\ Write(p, [d EXCEPT !.status = "canceled"]) /\ GotoWith(p, "release", d)
    <3>1. d.payment = NoPayment
      BY <1>3, <2>2 DEF RowMoney
    <3> QED BY <1>1, <1>2, <1>3, <1>4, <1>6, <2>2, <3>1, MoneyGotoWith
  <2> QED BY <1>3, <1>7, <2>1, <2>2 DEF CancelIfPending
<1>8. CASE CancelIfPaidForRefund(p)
  <2>1. CASE /\ CancelsOnRefund(d, c.row.payment)
             /\ Write(p, [d EXCEPT !.status = "canceled"]) /\ GotoWith(p, "release", d)
    <3>1. d.payment = c.row.payment
      BY <2>1 DEF CancelsOnRefund
    <3>2. d.payment # NoPayment => d.payment \in refunded
      BY <1>1, <1>2, <1>8, <3>1, MoneyBack DEF CancelIfPaidForRefund, MoneyAt
    <3> QED BY <1>1, <1>2, <1>3, <1>4, <1>6, <2>1, <3>2, MoneyGotoWith
  <2>2. CASE UNCHANGED orders /\ At(p, "cancelPaid") /\ Goto(p, "reconcile")
    <3>1. MoneyAt("reconcile", c.order, c.row, c.payment)
      BY <1>1, <1>2, <2>2 DEF MoneyAt, At
    <3> QED BY <1>1, <1>2, <2>2, <3>1, MoneyGoto
  <2>3. CASE UNCHANGED orders /\ Return(p)
    BY <1>2, <2>3, MoneyReturn
  <2> QED BY <1>1, <1>3, <1>8, <2>1, <2>2, <2>3 DEF CancelIfPaidForRefund, Read
<1>9. CASE CancelSave(p)
  <2>1. c.row.payment # NoPayment => c.row.payment \in refunded
    BY <1>1, <1>2, <1>9, MoneyBack DEF CancelSave, At, MoneyAt
  <2>2. c.row \in OrderRow /\ Write(p, [c.row EXCEPT !.status = "canceled"])
        /\ (Return(p) \/ Goto(p, "release"))
    BY <1>1, <1>9 DEF CancelSave, Read, CallRecord
  <2>3. \E o \in Order : \E s : Writes(o, s) /\ RowMoney(s, o)
    BY <1>2, <1>4, <2>1, <2>2
  <2> QED BY <1>1, <1>2, <1>6, <2>2, <2>3, MoneyReturn, MoneyGoto
<1>10. CASE ReleaseStock(p)
  <2>1. UNCHANGED orders /\ Goto(p, "releaseUse")
    BY <1>10 DEF ReleaseStock, OnlyStock, NoOrder, orderVars
  <2>2. MoneyAt("releaseUse", c.order, c.row, c.payment)
    BY <1>2, MoneyCalm
  <2> QED BY <1>1, <1>2, <2>1, <2>2, MoneyGoto
<1> QED BY <1>5, <1>7, <1>8, <1>9, <1>10

\* What a refund leaves of the payments.
LEMMA MoneyRefund ==
  ASSUME SagaInv, MoneyInv, NEW q \in Payment, payments[q] = "succeeded",
         payments' = [payments EXCEPT ![q] = "canceled"], refunded' = refunded \cup {q},
         events' = events \cup {Event("payment.canceled", q)}
  PROVE  /\ \A u \in Payment : PaymentMoney(u)'
         /\ \A u \in Payment : payments[u] \in {"succeeded", "canceled"} =>
                                 payments'[u] \in {"succeeded", "canceled"}
BY DEF MoneyInv, PaymentMoney, Event, SagaInv, SagaTypeOK

LEMMA MoneyOfRefund ==
  ASSUME SagaInv, MoneyInv, OnePaymentPerOrder, NEW p \in Proc, RefundCaptured(p)
  PROVE  MoneyInv'
<1>1. PICK c \in CallRecord :
        /\ c = call[p] /\ MoneyAt(c.at, c.order, c.row, c.payment)
        /\ c.at # "idle" => c.order \in Order
  BY MoneyFacts
<1>2. PICK q \in Payment : q = c.row.payment /\ Captured(q, c.order) /\ RowMoney(c.row, c.order)
  BY <1>1 DEF RefundCaptured, At, MoneyAt, RowMoney, Captured
<1>3. PaysFor(c.order) = {q} /\ q # NoPayment /\ UNCHANGED orders
  BY <1>2, PaymentAssumption DEF OnePaymentPerOrder, Captured, PaysFor, RefundCaptured,
                                 NoOrder, orderVars
<1>4. CASE NoPay
  <2>1. q \in refunded
    BY <1>1, <1>2, <1>3, <1>4 DEF RefundCaptured, Read, Captured, NoPay, paymentVars, MoneyInv,
                                  PaymentMoney
  <2>2. MoneyAt("reget", c.order, c.row, c.payment)
    BY <1>2, <1>3, <2>1 DEF MoneyAt, Refunded
  <2> QED BY <1>1, <1>3, <1>4, <2>2, MoneyReturn, MoneyGoto DEF RefundCaptured
<1>5. CASE /\ payments[q] = "succeeded"
           /\ payments' = [payments EXCEPT ![q] = "canceled"]
           /\ refunded' = refunded \cup {q}
           /\ events' = events \cup {Event("payment.canceled", q)}
           /\ Goto(p, "reget")
  <2>1. Becomes(p, "reget", c.order, c.row, c.payment, c.hold)
    BY <1>1, <1>5, Shapes
  <2>2. RowMoney(c.row, c.order)' /\ refunded \subseteq refunded'
    BY <1>2, <1>5, MoneyRefund, MoneyGrows
  <2>3. Refunded(c.order)'
    BY <1>3, <1>5 DEF Refunded, PaysFor
  <2>4. CallMoney(call[p])'
    BY <2>1, <2>2, <2>3 DEF Becomes, CallMoney, MoneyAt, RowMoney, Captured, Refunded, PaysFor
  <2> QED BY <1>3, <1>5, <2>1, <2>2, <2>4, MoneyRefund, MoneyPays DEF Becomes, Keeps
<1> QED BY <1>1, <1>2, <1>3, <1>4, <1>5 DEF RefundCaptured, Read

LEMMA MoneyOfCancelForRefund ==
  ASSUME SagaInv, MoneyInv, NEW p \in Proc, NEW q \in Payment, CancelForRefund(p, q)
  PROVE  MoneyInv'
<1>1. PICK o \in Order : o = PaymentOrder[q]
  BY PaymentAssumption
<1>2. PICK r \in OrderRow : r = orders[o] /\ RowMoney(r, o)
  BY DEF MoneyInv, SagaInv, SagaTypeOK
<1>3. NoPay /\ UNCHANGED orders /\ q \in refunded
  BY DEF CancelForRefund, RefundedEvent, MoneyInv, PaymentMoney, NoOrder, orderVars
<1>4. CASE UNCHANGED call
  BY <1>3, <1>4, MoneyPays DEF NoPay, paymentVars, MoneyInv, PaymentMoney, Event
<1>5. CASE CancelsOnRefund(r, q) /\ Start(p, o, "cancelRefunded", r)
  <2>1. Becomes(p, "cancelRefunded", o, r, NoPayment, 0)
    BY <1>5, Shapes
  <2>2. MoneyAt("cancelRefunded", o, r, NoPayment)
    BY <1>2, <1>3, <1>5 DEF MoneyAt, CancelsOnRefund
  <2> QED BY <1>3, <2>1, <2>2, MoneyMove
<1> QED BY <1>1, <1>2, <1>4, <1>5 DEF CancelForRefund

LEMMA MoneyOfPayments ==
  ASSUME SagaInv, MoneyInv, PaymentService
  PROVE  MoneyInv'
<1>1. PICK q \in Payment :
        CreatePayment(q) \/ PaymentFails(q) \/ PaymentSucceeds(q) \/ CancelPayment(q)
  BY DEF PaymentService
<1>2. UNCHANGED orders /\ UNCHANGED call
  BY <1>1 DEF CreatePayment, PaymentFails, PaymentSucceeds, CancelPayment, PaymentStep, NoOrder,
              orderVars
<1>3. CASE CreatePayment(q) \/ PaymentFails(q) \/ PaymentSucceeds(q)
  <2>1. ASSUME NEW u \in Payment PROVE PaymentMoney(u)'
    <3>1. /\ PaymentMoney(u)
          /\ payments \in [Payment -> {"none", "open", "failed", "succeeded", "canceled"}]
      BY DEF MoneyInv, SagaInv, SagaTypeOK
    <3>2. CASE CreatePayment(q) \/ PaymentFails(q)
      BY <3>1, <3>2 DEF CreatePayment, PaymentFails, PaymentMoney
    <3>3. CASE PaymentSucceeds(q)
      <4>1. \A k : Event(k, u) \in events' => Event(k, u) \in events \/ (k = "payment.succeeded" /\ u = q)
        BY <3>3 DEF PaymentSucceeds, Event
      <4> QED BY <3>1, <3>3, <4>1 DEF PaymentSucceeds, PaymentMoney
    <3> QED BY <1>3, <3>2, <3>3
  <2>2. \A u \in Payment : payments[u] \in {"succeeded", "canceled"} =>
                             payments'[u] \in {"succeeded", "canceled"}
    BY <1>3 DEF CreatePayment, PaymentFails, PaymentSucceeds, SagaInv, SagaTypeOK
  <2>3. refunded' = refunded
    BY <1>3 DEF CreatePayment, PaymentFails, PaymentSucceeds
  <2> QED BY <1>2, <2>1, <2>2, <2>3, MoneyPays
<1>4. CASE CancelPayment(q)
  BY <1>2, <1>4, MoneyRefund, MoneyPays DEF CancelPayment
<1> QED BY <1>1, <1>3, <1>4

LEMMA MoneyStep ==
  ASSUME SagaInv, MoneyInv, OnePaymentPerOrder, [SagaNext]_sagaVars
  PROVE  MoneyInv'
<1>1. ASSUME NEW p \in Proc, StartRequest(p) PROVE MoneyInv'
  <2>1. ASSUME NEW o \in Order,
               \/ Place(p, o) \/ Confirm(p, o) \/ Ship(p, o) \/ Cancel(p, o) \/ Expire(p, o)
               \/ Deliver(p, o) \/ ConfirmReceipt(p, o) \/ ReportNotReceived(p, o)
               \/ ResolveDisputeFulfilled(p, o) \/ Fulfill(p, o)
               \/ RequestCancel(p, o) \/ RejectCancelRequest(p, o)
        PROVE  MoneyInv'
    BY <2>1, MoneyOfPlacing, MoneyOfStarts, MoneyOfHandlers DEF Cancel
  <2>2. ASSUME NEW q \in Payment, MarkPaid(p, q) \/ CancelForRefund(p, q) PROVE MoneyInv'
    BY <2>2, MoneyOfMarkPaid, MoneyOfCancelForRefund
  <2> QED BY <1>1, <2>1, <2>2 DEF StartRequest
<1>2. ASSUME NEW p \in Proc, Continue(p) PROVE MoneyInv'
  <2>1. CASE ClaimRefused(p)
    <3>1. PICK o \in Order : o = call[p].order
      BY <2>1, CallFacts DEF ClaimRefused, At
    <3> QED BY <2>1, <3>1, MoneyOfStarts DEF ClaimRefused
  <2>2. CASE \/ InsertOrder(p) \/ ClaimUse(p) \/ ConsumeUse(p) \/ ReleaseUse(p)
             \/ RereadPending(p) \/ Reinstate(p) \/ SavePaid(p) \/ RecheckPaid(p)
             \/ UndoReinstate(p)
    BY <2>2, MoneyOfPlacing, MoneyOfPaying
  <2>3. CASE \/ ConfirmIfPaid(p) \/ CommitStock(p) \/ ShipIfConfirmed(p) \/ SaveWithOutbox(p)
             \/ RefundCaptured(p)
    BY <2>3, MoneyOfShipping, MoneyOfRefund
  <2>4. CASE \/ RegetRefunded(p) \/ CancelIfPending(p) \/ CancelIfPaidForRefund(p)
             \/ ReconcileCancel(p) \/ CancelSave(p) \/ ReleaseStock(p)
    BY <2>4, MoneyOfCancel
  <2> QED BY <1>2, <2>1, <2>2, <2>3, <2>4 DEF Continue
<1>3. ASSUME NEW p \in Proc, Fail(p) \/ SaveFails(p) PROVE MoneyInv'
  BY <1>3, MoneyOfPaying
<1>4. CASE \E o \in Order : SetInspectionVideo(o)
  <2>1. UNCHANGED <<orders, call, payments, refunded, events>>
    BY <1>4 DEF SetInspectionVideo, NoPay, paymentVars
  <2> QED BY <2>1, MoneyPays DEF MoneyInv, PaymentMoney, Event
<1>5. CASE PaymentService
  BY <1>5, MoneyOfPayments
<1>6. CASE UNCHANGED sagaVars
  BY <1>6, MoneyPays DEF sagaVars, MoneyInv, PaymentMoney, Event
<1> QED BY <1>1, <1>2, <1>3, <1>4, <1>5, <1>6 DEF SagaNext

LEMMA MoneyInit == SagaInit => MoneyInv
<1> SUFFICES ASSUME SagaInit PROVE MoneyInv
  OBVIOUS
<1>1. \A o : RowMoney(NewRow, o)
  BY DEF RowMoney, NewRow, PreShip, Shipped, Shipping
<1>2. \A p \in Proc : CallMoney(call[p])
  BY <1>1 DEF SagaInit, CallMoney, MoneyAt, NoCall
<1>3. \A q \in Payment : PaymentMoney(q)
  BY DEF SagaInit, PaymentMoney
<1> QED BY <1>1, <1>2, <1>3 DEF SagaInit, MoneyInv

(* Where an order is paid once, a canceled order's money went back before   *)
(* the order was canceled, for any orders, concurrent requests, late or     *)
(* repeated events and failing calls.                                       *)
THEOREM CanceledWasRefunded ==
  ASSUME OnePaymentPerOrder
  PROVE  SagaSpec => []CanceledMoneyReturned
<1>1. MoneyInv => CanceledMoneyReturned
  BY DEF MoneyInv, RowMoney, CanceledMoneyReturned
<1>2. SagaInv /\ MoneyInv /\ [SagaNext]_sagaVars => MoneyInv'
  BY MoneyStep
<1> QED BY <1>1, <1>2, MoneyInit, SagaInductive, PTL DEF SagaSpec

----------------------------------------------------------------------------
(* The stock: what keeps the invariant. *)

\* A row that names no reservation but what p or an order had already.
Borrowed(p, r) ==
  \/ r.reservation \in {0, call[p].row.reservation}
  \/ \E d \in Order : r.reservation = orders[d].reservation

LEMMA NotBorrowed ==
  ASSUME HoldInv, NEW p \in Proc, NEW u \in Proc, Private(call[u]), NEW r, Borrowed(p, r)
  PROVE  r.reservation # call[u].hold
BY DEF HoldInv, PrivateHold, Private, Borrowed

\* Only request p moves; stock that others count on stays.
LEMMA HoldMove ==
  ASSUME SagaInv, HoldInv, UNCHANGED orders, LiveOrderHoldsStock', NEW p \in Proc,
         \A u \in Proc : u # p /\ Private(call[u]) => status'[call[u].hold] = "active",
         NEW at, NEW o, NEW r, NEW q, NEW h, Becomes(p, at, o, r, q, h),
         at # "insert", HoldAt(p, at, o, r, h), Borrowed(p, r),
         h # 0 /\ at \in Owning =>
           Private(call[p]) /\ h = call[p].hold /\ status'[h] = "active"
  PROVE  HoldInv'
<1>1. \A u \in Proc : u # p => call'[u] = call[u]
  BY DEF Becomes, Keeps
<1>2. /\ call'[p].at = at /\ call'[p].order = o /\ call'[p].row = r /\ call'[p].hold = h
      /\ Private(call[p])' <=> h # 0 /\ at \in Owning
  BY DEF Becomes, Private
<1>3. \A u \in Proc : u # p => (Private(call[u])' <=> Private(call[u]))
  BY <1>1 DEF Private
<1>4. ASSUME NEW u \in Proc, u # p PROVE PrivateHold(u)'
  <2>1. CASE Private(call[u])
    <3>1. r.reservation # call[u].hold
      BY <2>1, NotBorrowed
    <3>2. \A v \in Proc : v # u /\ Private(call[v])' => call'[v].hold # call[u].hold
      BY <1>1, <1>2, <1>3, <2>1 DEF HoldInv, PrivateHold
    <3>3. \A v \in Proc : call'[v].row.reservation # call[u].hold
      BY <1>1, <1>2, <2>1, <3>1 DEF HoldInv, PrivateHold
    <3> QED BY <1>1, <1>3, <1>4, <2>1, <3>2, <3>3 DEF HoldInv, PrivateHold
  <2>2. CASE ~ Private(call[u])
    BY <1>3, <1>4, <2>2 DEF PrivateHold
  <2> QED BY <2>1, <2>2
<1>5. ASSUME NEW u \in Proc, u # p PROVE HoldSound(u)'
  BY <1>1, <1>2, <1>5 DEF HoldInv, HoldSound, HoldAt, Unborn
<1>6. PrivateHold(p)'
  <2>1. CASE Private(call[p])'
    <3>1. Private(call[p]) /\ h = call[p].hold /\ status'[h] = "active"
      BY <1>2, <2>1
    <3>2. r.reservation # h
      BY <3>1, NotBorrowed
    <3> QED BY <1>1, <1>2, <1>3, <3>1, <3>2 DEF HoldInv, PrivateHold
  <2> QED BY <2>1 DEF PrivateHold
<1>7. HoldSound(p)'
  BY <1>2 DEF HoldSound, HoldAt, Unborn
<1>8. \A d \in Order : Unborn(orders[d])'
  BY DEF HoldInv, Unborn
<1> QED BY <1>4, <1>6, <1>7, <1>8, <1>5 DEF HoldInv

\* The same, with the stock as it was.
LEMMA HoldCall ==
  ASSUME SagaInv, HoldInv, UNCHANGED <<orders, status>>, NEW p \in Proc,
         NEW at, NEW o, NEW r, NEW q, NEW h, Becomes(p, at, o, r, q, h),
         at # "insert", HoldAt(p, at, o, r, h), Borrowed(p, r),
         h # 0 /\ at \in Owning => Private(call[p]) /\ h = call[p].hold
  PROVE  HoldInv'
<1>1. \A u \in Proc : Private(call[u]) => status'[call[u].hold] = "active"
  BY DEF HoldInv, PrivateHold
<1>2. LiveOrderHoldsStock'
  BY DEF HoldInv, LiveOrderHoldsStock
<1>3. h # 0 /\ at \in Owning => status'[h] = "active"
  BY <1>1
<1> QED BY <1>1, <1>2, <1>3, HoldMove

\* The row of the request's order is written, and the request owns nothing any more.
LEMMA HoldWrite ==
  ASSUME SagaInv, HoldInv, UNCHANGED status, NEW p \in Proc, NEW c, c = call[p], c.order \in Order,
         NEW s, Writes(c.order, s), s.status # "new",
         Borrowed(p, s) \/ (Private(c) /\ s.reservation = c.hold),
         s.status \in Live =>
           \/ /\ orders[c.order].status \in Live /\ s.reservation = orders[c.order].reservation
              /\ s.status # "pending"
           \/ Private(c) /\ s.reservation = c.hold
              /\ (s.status = "pending" => orders[c.order].status = "new"),
         orders[c.order].status = "new" => c.at = "insert",
         NEW at \in {"idle", "claim", "consume", "release"}, NEW o, NEW r, NEW q, NEW h,
         Becomes(p, at, o, r, q, h), Unborn(r), Borrowed(p, r), at # "idle" => o = c.order,
         at = "release" => s.status \notin Live
  PROVE  HoldInv'
<1>1. /\ orders'[c.order] = s /\ \A d \in Order : d # c.order => orders'[d] = orders[d]
      /\ \A u \in Proc : u # p => call'[u] = call[u]
  BY DEF Writes, Becomes, Keeps, SagaInv, SagaTypeOK
<1>2. /\ call'[p].at = at /\ call'[p].order = o /\ call'[p].row = r /\ call'[p].hold = h
      /\ ~ Private(call[p])' /\ at # "insert"
  BY DEF Becomes, Private, Owning
<1>3. \A u \in Proc : u # p => (Private(call[u])' <=> Private(call[u]))
  BY <1>1 DEF Private
<1>4. LiveOrderHoldsStock'
  <2>1. s.status \in Live => status[s.reservation] \in {"active", "committed"}
    BY DEF HoldInv, LiveOrderHoldsStock, PrivateHold, Live
  <2> QED BY <1>1, <2>1 DEF HoldInv, LiveOrderHoldsStock, Live
<1>5. \A d \in Order : Unborn(orders[d])'
  BY <1>1 DEF HoldInv, Unborn
<1>6. ASSUME NEW u \in Proc, u # p PROVE PrivateHold(u)'
  <2>1. CASE Private(call[u])
    <3>1. r.reservation # call[u].hold
      BY <2>1, NotBorrowed
    <3>2. s.reservation # call[u].hold
      BY <1>6, <2>1, NotBorrowed DEF HoldInv, PrivateHold
    <3>3. \A d \in Order : orders'[d].reservation # call[u].hold
      BY <1>1, <2>1, <3>2 DEF HoldInv, PrivateHold
    <3>4. \A v \in Proc : /\ call'[v].row.reservation # call[u].hold
                          /\ v # u /\ Private(call[v])' => call'[v].hold # call[u].hold
      BY <1>1, <1>2, <1>3, <2>1, <3>1 DEF HoldInv, PrivateHold
    <3> QED BY <1>1, <1>3, <1>6, <2>1, <3>3, <3>4 DEF HoldInv, PrivateHold
  <2> QED BY <1>3, <1>6, <2>1 DEF PrivateHold
<1>7. ASSUME NEW u \in Proc, u # p PROVE HoldSound(u)'
  <2>1. HoldAt(u, call[u].at, call[u].order, call[u].row, call[u].hold)
    BY DEF HoldInv, HoldSound
  <2>2. CASE call[u].order # c.order
    <3>1. call[u].at # "idle" => call[u].order \in Order
      BY CallFacts
    <3>2. call[u].at # "idle" => orders'[call[u].order] = orders[call[u].order]
      BY <1>1, <2>2, <3>1
    <3> QED BY <1>1, <1>2, <1>7, <2>1, <3>2 DEF HoldSound, HoldAt, Unborn
  <2>3. CASE call[u].order = c.order
    <3>1. call[u].at # "insert"
      <4>1. SUFFICES ASSUME call[u].at = "insert" PROVE FALSE
        OBVIOUS
      <4>2. c.at = "insert"
        BY <2>1, <2>3, <4>1 DEF HoldAt
      <4> QED BY <1>7, <2>1, <2>3, <4>1, <4>2 DEF HoldAt
    <3>2. call[u].at = "release" =>
            ~ (s.status \in Live /\ s.reservation = call[u].row.reservation)
      <4>1. Private(c) => c.hold # call[u].row.reservation
        BY DEF HoldInv, PrivateHold
      <4> QED BY <2>1, <2>3, <4>1 DEF HoldAt
    <3>3. call[u].at \in {"reread", "savePaid"} => s.status # "pending"
      BY <2>1, <2>3 DEF HoldAt, Live
    <3>4. /\ Unborn(call[u].row) /\ (call[u].at = "save" => call[u].row.status \in Shipped)
          /\ call[u].at = "reread" => call[u].hold = 0
      BY <2>1 DEF HoldAt
    <3> QED BY <1>1, <1>7, <2>3, <3>1, <3>2, <3>3, <3>4 DEF HoldSound, HoldAt, Unborn
  <2> QED BY <2>2, <2>3
<1>8. PrivateHold(p)' /\ HoldSound(p)'
  <2>1. at # "idle" => orders'[o] = s
    BY <1>1
  <2> QED BY <1>2, <2>1 DEF PrivateHold, HoldSound, HoldAt, Unborn
<1> QED BY <1>4, <1>5, <1>6, <1>7, <1>8 DEF HoldInv

\* The reservation to come is nobody's yet.
LEMMA FreshHold ==
  ASSUME SagaInv, HoldInv, NEW x, x = seq + 1, NEW d \in Order, Reserve(d)
  PROVE  /\ x \in ResId /\ x # 0 /\ status[x] = "none"
         /\ status' = [status EXCEPT ![x] = "active"]
         /\ \A o \in Order : orders[o].reservation # x
         /\ \A u \in Proc : call[u].row.reservation # x /\ call[u].hold # x
<1>1. /\ x \in ResId /\ x # 0 /\ status[x] = "none"
      /\ status' = [status EXCEPT ![x] = "active"]
  BY InputAssumption DEF Reserve, CreateReservation, SagaInv, TypeOK, ResId
<1>2. \A o \in Order : orders[o].reservation # x
  BY <1>1 DEF SagaInv, RowOK, Owns, HoldInv, Unborn
<1>3. \A u \in Proc : call[u].row.reservation # x /\ call[u].hold # x
  BY <1>1 DEF SagaInv, CallOK, RowOK, Owns, HoldInv, HoldSound, HoldAt, Unborn
<1> QED BY <1>1, <1>2, <1>3

\* A request makes a reservation and goes on with it.
LEMMA HoldReserve ==
  ASSUME SagaInv, HoldInv, UNCHANGED orders, NEW p \in Proc, NEW o \in Order, Reserve(o),
         NEW x, x = seq + 1, NEW at \in {"insert", "savePaid", "savePaidAgain"}, NEW r, NEW q,
         Becomes(p, at, o, r, q, x), Unborn(r), r.reservation \in {0, call[p].row.reservation},
         at # "insert" => orders[o].status # "new",
         at = "insert" => /\ orders[o].status = "new"
                          /\ \A u \in Proc : call[u].order = o => call[u].at # "insert"
  PROVE  HoldInv'
<1>1. /\ x \in ResId /\ x # 0 /\ status[x] = "none"
      /\ status' = [status EXCEPT ![x] = "active"]
      /\ \A d \in Order : orders[d].reservation # x
      /\ \A u \in Proc : call[u].row.reservation # x /\ call[u].hold # x
  BY FreshHold
<1>2. /\ status'[x] = "active" /\ \A y \in ResId : y # x => status'[y] = status[y]
      /\ \A u \in Proc : u # p => call'[u] = call[u]
      /\ call'[p].at = at /\ call'[p].order = o /\ call'[p].row = r /\ call'[p].hold = x
  BY <1>1 DEF Becomes, Keeps, SagaInv, TypeOK
<1>3. r.reservation # x
  BY <1>1
<1>4. LiveOrderHoldsStock'
  <2>1. ASSUME NEW d \in Order, orders[d].status \in Live
        PROVE  status'[orders[d].reservation] \in {"active", "committed"}
    <3>1. orders[d].reservation \in ResId
      BY <2>1 DEF SagaInv, RowOK, Owns, Live, PreShip
    <3> QED BY <1>1, <1>2, <2>1, <3>1 DEF HoldInv, LiveOrderHoldsStock, Live
  <2> QED BY <2>1 DEF LiveOrderHoldsStock, Live
<1>5. \A d \in Order : Unborn(orders[d])'
  BY DEF HoldInv, Unborn
<1>6. ASSUME NEW u \in Proc, u # p PROVE PrivateHold(u)'
  <2>1. Private(call[u])' <=> Private(call[u])
    BY <1>2, <1>6 DEF Private
  <2>2. CASE Private(call[u])
    <3>1. call[u].hold \in ResId /\ call[u].hold # x /\ r.reservation # call[u].hold
      BY <1>1, <2>2 DEF SagaInv, CallOK, Owns, HoldInv, PrivateHold, Private
    <3>2. \A v \in Proc : /\ call'[v].row.reservation # call[u].hold
                          /\ v # u /\ Private(call[v])' => call'[v].hold # call[u].hold
      BY <1>2, <2>2, <3>1 DEF HoldInv, PrivateHold, Private
    <3> QED BY <1>2, <1>6, <2>2, <3>1, <3>2 DEF HoldInv, PrivateHold
  <2>3. CASE ~ Private(call[u])
    BY <2>1, <2>3 DEF PrivateHold
  <2> QED BY <2>2, <2>3
<1>7. ASSUME NEW u \in Proc, u # p PROVE HoldSound(u)'
  <2>1. HoldAt(u, call[u].at, call[u].order, call[u].row, call[u].hold)
    BY DEF HoldInv, HoldSound
  <2> QED BY <1>2, <1>7, <2>1 DEF HoldSound, HoldAt, Unborn
<1>8. PrivateHold(p)'
  BY <1>1, <1>2, <1>3 DEF PrivateHold, Private
<1>9. HoldSound(p)'
  BY <1>1, <1>2 DEF HoldSound, HoldAt, Unborn
<1> QED BY <1>4, <1>5, <1>6, <1>8, <1>9, <1>7 DEF HoldInv

----------------------------------------------------------------------------
(* The stock: the actions. *)

LEMMA HoldFacts ==
  ASSUME SagaInv, HoldInv, NEW p \in Proc
  PROVE  \E c \in CallRecord :
           /\ c = call[p] /\ CallOK(c) /\ HoldAt(p, c.at, c.order, c.row, c.hold) /\ c.row \in OrderRow
           /\ c.at # "idle" => /\ c.order \in Order
                               /\ \E d \in OrderRow : d = orders[c.order] /\ Unborn(d)
BY CallFacts DEF HoldInv, HoldSound, Db

\* A request ends.
LEMMA HoldReturn ==
  ASSUME SagaInv, HoldInv, UNCHANGED <<orders, status>>, NEW p \in Proc, Return(p)
  PROVE  HoldInv'
<1>1. Becomes(p, "idle", 0, NewRow, NoPayment, 0)
  BY Shapes
<1>2. HoldAt(p, "idle", 0, NewRow, 0) /\ Borrowed(p, NewRow) /\ "idle" \notin Owning
  BY DEF HoldAt, Unborn, NewRow, Borrowed, Owning
<1> QED BY <1>1, <1>2, HoldCall

\* A request goes on at another step, with the row it has or the one in the database.
LEMMA HoldGoto ==
  ASSUME SagaInv, HoldInv, UNCHANGED <<orders, status>>, NEW p \in Proc, NEW c, c = call[p],
         c.order \in Order, NEW at, NEW r,
         \/ r = c.row /\ Goto(p, at)
         \/ r = orders[c.order] /\ GotoWith(p, at, r),
         at # "insert", HoldAt(p, at, c.order, r, c.hold),
         at \in Owning => c.at \in Owning
  PROVE  HoldInv'
<1>1. Becomes(p, at, c.order, r, c.payment, c.hold)
  BY Shapes
<1>2. Borrowed(p, r)
  BY DEF Borrowed
<1>3. c.hold # 0 /\ at \in Owning => Private(call[p])
  BY DEF Private
<1> QED BY <1>1, <1>2, <1>3, HoldCall

\* A request begins with the row as it is in the database, or changes it in memory.
LEMMA HoldStart ==
  ASSUME SagaInv, HoldInv, OnlyCall, NEW p \in Proc, NEW o \in Order, NEW at, NEW r,
         Start(p, o, at, r), orders[o].status # "new", Unborn(r),
         r.reservation = orders[o].reservation,
         at \in {"confirm", "commit", "cancelPending", "refund", "cancelRefunded", "save"},
         at = "save" => r.status \in Shipped
  PROVE  HoldInv'
<1>1. Becomes(p, at, o, r, NoPayment, 0)
  BY Shapes
<1>2. HoldAt(p, at, o, r, 0) /\ Borrowed(p, r) /\ at # "insert"
  BY DEF HoldAt, Borrowed
<1>3. UNCHANGED <<orders, status>>
  BY DEF OnlyCall, NoStock, vars, NoOrder, orderVars
<1> QED BY <1>1, <1>2, <1>3, HoldCall

\* A row of p's order is written: the row moves to another status with its reservation.
LEMMA HoldStatus ==
  ASSUME SagaInv, HoldInv, UNCHANGED status, NEW p \in Proc, NEW c \in CallRecord, c = call[p],
         c.order \in Order, NEW d \in OrderRow, d = orders[c.order], d.status # "new",
         NEW r \in OrderRow, r = d \/ r = c.row, Unborn(r),
         NEW st \in OrderStatus \ {"new", "pending"},
         st \in Live => r = d /\ d.status \in Live,
         Write(p, [r EXCEPT !.status = st]),
         \/ Return(p)
         \/ GotoWith(p, "release", d) /\ st = "canceled"
         \/ Goto(p, "release") /\ st = "canceled" /\ Unborn(c.row)
  PROVE  HoldInv'
<1>1. PICK s : s = [r EXCEPT !.status = st]
  OBVIOUS
<1>2. s.status = st /\ s.reservation = r.reservation
  BY <1>1 DEF OrderRow
<1>3. Writes(c.order, s) /\ Borrowed(p, s)
  BY <1>1, <1>2 DEF Write, Writes, Borrowed
<1>4. s.status \in Live => /\ orders[c.order].status \in Live
                           /\ s.reservation = orders[c.order].reservation /\ s.status # "pending"
  BY <1>2
<1>5. CASE Return(p)
  <2>1. Becomes(p, "idle", 0, NewRow, NoPayment, 0) /\ Unborn(NewRow) /\ Borrowed(p, NewRow)
    BY <1>5, Shapes DEF Unborn, NewRow, Borrowed
  <2> QED BY <1>2, <1>3, <1>4, <2>1, HoldWrite
<1>6. CASE GotoWith(p, "release", d) /\ st = "canceled"
  <2>1. Becomes(p, "release", c.order, d, c.payment, c.hold) /\ Unborn(d) /\ Borrowed(p, d)
    BY <1>6, Shapes DEF Unborn, Borrowed
  <2>2. "canceled" \notin Live
    BY DEF Live, PreShip
  <2> QED BY <1>2, <1>3, <1>4, <1>6, <2>1, <2>2, HoldWrite
<1>7. CASE Goto(p, "release") /\ st = "canceled" /\ Unborn(c.row)
  <2>1. Becomes(p, "release", c.order, c.row, c.payment, c.hold) /\ Borrowed(p, c.row)
    BY <1>7, Shapes DEF Borrowed
  <2>2. "canceled" \notin Live
    BY DEF Live, PreShip
  <2> QED BY <1>2, <1>3, <1>4, <1>7, <2>1, <2>2, HoldWrite
<1> QED BY <1>5, <1>6, <1>7

LEMMA HoldOfPlacing ==
  ASSUME SagaInv, HoldInv, NEW p \in Proc,
         \/ \E o \in Order : Place(p, o)
         \/ InsertOrder(p) \/ ClaimUse(p) \/ ConsumeUse(p) \/ ReleaseUse(p)
  PROVE  HoldInv'
<1>1. PICK c \in CallRecord :
        /\ c = call[p] /\ CallOK(c) /\ HoldAt(p, c.at, c.order, c.row, c.hold) /\ c.row \in OrderRow
        /\ c.at # "idle" => c.order \in Order
  BY HoldFacts
<1>2. ASSUME NEW o \in Order, Place(p, o) PROVE HoldInv'
  <2>1. PICK h : h = seq + 1
    OBVIOUS
  <2>2. Becomes(p, "insert", o, NewRow, NoPayment, h)
    BY <1>2, <2>1 DEF Place, Becomes, Keeps, NoCall, SagaInv, SagaTypeOK
  <2>3. Unborn(NewRow) /\ NewRow.reservation = 0 /\ NewRow.status = "new"
    BY DEF NewRow, Unborn
  <2>4. orders[o].status = "new" /\ \A u \in Proc : call[u].order = o => call[u].at # "insert"
    BY <1>2, <2>3 DEF Place, At
  <2>5. UNCHANGED orders /\ Reserve(o)
    BY <1>2 DEF Place, OnlyStock, NoOrder, orderVars
  <2> QED BY <2>1, <2>2, <2>3, <2>4, <2>5, HoldReserve
<1>3. CASE InsertOrder(p)
  <2>1. /\ c.order \in Order /\ UNCHANGED status /\ Goto(p, "claim")
        /\ c.at = "insert" /\ c.hold # 0 /\ orders[c.order].status = "new" /\ Unborn(c.row)
    BY <1>1, <1>3 DEF InsertOrder, At, OnlyRow, NoStock, vars, CallOK, HoldAt
  <2>2. PICK s : s = [NewRow EXCEPT !.status = "pending", !.reservation = c.hold]
    OBVIOUS
  <2>3. Writes(c.order, s) /\ s.status = "pending" /\ s.reservation = c.hold
    BY <1>1, <1>3, <2>2 DEF InsertOrder, Write, Writes, NewRow
  <2>4. Becomes(p, "claim", c.order, c.row, c.payment, c.hold) /\ Borrowed(p, c.row) /\ Private(c)
    BY <1>1, <2>1, Shapes DEF Borrowed, Private, Owning
  <2> QED BY <1>1, <2>1, <2>3, <2>4, HoldWrite
<1>4. CASE ClaimUse(p) \/ ConsumeUse(p) \/ ReleaseUse(p)
  BY <1>4, HoldReturn DEF ClaimUse, ConsumeUse, ReleaseUse, NoStock, vars
<1> QED BY <1>2, <1>3, <1>4

LEMMA HoldOfMarkPaid ==
  ASSUME SagaInv, HoldInv, NEW p \in Proc, NEW q \in Payment, MarkPaid(p, q)
  PROVE  HoldInv'
<1>1. PICK o \in Order : o = PaymentOrder[q]
  BY PaymentAssumption
<1>2. PICK r : r = orders[o] /\ Unborn(r)
  BY DEF HoldInv
<1>3. PICK at \in {"reread", "reinstate"} : Becomes(p, at, o, r, q, 0)
  BY <1>1, <1>2 DEF MarkPaid, Becomes, Keeps, NoCall, SagaInv, SagaTypeOK
<1>4. HoldAt(p, at, o, r, 0) /\ Borrowed(p, r)
  BY <1>1, <1>2, <1>3 DEF MarkPaid, HoldAt, Borrowed
<1>5. UNCHANGED <<orders, status>>
  BY DEF MarkPaid, OnlyCall, NoStock, vars, NoOrder, orderVars
<1> QED BY <1>3, <1>4, <1>5, HoldCall

LEMMA HoldOfPaying ==
  ASSUME SagaInv, HoldInv, NEW p \in Proc,
         \/ RereadPending(p) \/ Reinstate(p) \/ SavePaid(p) \/ RecheckPaid(p)
         \/ SaveFails(p) \/ Fail(p)
  PROVE  HoldInv'
<1>1. PICK c \in CallRecord :
        /\ c = call[p] /\ CallOK(c) /\ HoldAt(p, c.at, c.order, c.row, c.hold) /\ c.row \in OrderRow
        /\ c.at # "idle" => /\ c.order \in Order
                            /\ \E d \in OrderRow : d = orders[c.order] /\ Unborn(d)
  BY HoldFacts
<1>2. Unborn(c.row)
  BY <1>1 DEF HoldAt
<1>3. CASE RereadPending(p) \/ RecheckPaid(p)
  <2>1. c.at \in {"reread", "recheck"} /\ c.order \in Order /\ UNCHANGED <<orders, status>>
    BY <1>1, <1>3 DEF RereadPending, RecheckPaid, At, OnlyCall, NoStock, vars, NoOrder, orderVars
  <2>2. PICK d \in OrderRow : d = Db(p) /\ Unborn(d) /\ d = orders[c.order]
    BY <1>1, <2>1 DEF Db
  <2>3. orders[c.order].status # "new"
    BY <1>1, <2>1 DEF HoldAt
  <2>4. CASE Return(p)
    BY <2>1, <2>4, HoldReturn
  <2>5. CASE RereadPending(p) /\ GotoWith(p, "reinstate", d)
    <3>1. HoldAt(p, "reinstate", c.order, d, c.hold) /\ "reinstate" \notin Owning
      BY <2>2, <2>3 DEF HoldAt, Owning
    <3> QED BY <1>1, <2>1, <2>2, <2>5, <3>1, HoldGoto
  <2>6. CASE RereadPending(p) /\ Goto(p, "savePaid")
    <3>1. HoldAt(p, "savePaid", c.order, c.row, 0) /\ c.hold = 0
      BY <1>1, <2>3, <2>6 DEF HoldAt, RereadPending, At
    <3>2. Becomes(p, "savePaid", c.order, c.row, c.payment, 0) /\ Borrowed(p, c.row)
      BY <1>1, <2>6, <3>1, Shapes DEF Borrowed
    <3> QED BY <2>1, <3>1, <3>2, HoldCall
  <2>7. CASE RecheckPaid(p) /\ GotoWith(p, "reinstateAgain", d)
    <3>1. HoldAt(p, "reinstateAgain", c.order, d, c.hold) /\ c.at \in Owning
      BY <1>1, <2>2, <2>3, <2>7 DEF HoldAt, RecheckPaid, At, Owning
    <3> QED BY <1>1, <2>1, <2>2, <2>7, <3>1, HoldGoto
  <2>8. CASE RecheckPaid(p) /\ Goto(p, "undo")
    <3>1. HoldAt(p, "undo", c.order, c.row, c.hold) /\ c.at \in Owning
      BY <1>1, <1>2, <2>8 DEF HoldAt, RecheckPaid, At, Owning
    <3> QED BY <1>1, <2>1, <2>8, <3>1, HoldGoto
  <2> QED BY <1>3, <2>2, <2>4, <2>5, <2>6, <2>7, <2>8 DEF RereadPending, RecheckPaid
<1>4. CASE Reinstate(p)
  <2>1. UNCHANGED orders /\ c.at \in {"reinstate", "reinstateAgain"} /\ c.order \in Order
    BY <1>1, <1>4 DEF Reinstate, OnlyStock, NoOrder, orderVars
  <2>2. CASE Return(p) /\ NoStock
    BY <2>1, <2>2, HoldReturn DEF NoStock, vars
  <2>3. CASE /\ Reserve(c.order)
             /\ call' = [call EXCEPT ![p].hold = seq + 1,
                                     ![p].at = IF @ = "reinstate" THEN "savePaid" ELSE "savePaidAgain"]
    <3>1. PICK h : h = seq + 1
      OBVIOUS
    <3>2. PICK at \in {"savePaid", "savePaidAgain"} : Becomes(p, at, c.order, c.row, c.payment, h)
      BY <1>1, <2>3, <3>1 DEF Becomes, Keeps, SagaInv, SagaTypeOK, CallRecord
    <3>3. orders[c.order].status # "new"
      BY <1>1, <2>1 DEF HoldAt
    <3> QED BY <1>1, <1>2, <2>1, <2>3, <3>1, <3>2, <3>3, HoldReserve
  <2> QED BY <1>1, <1>4, <2>2, <2>3 DEF Reinstate
<1>5. CASE SavePaid(p)
  <2>1. /\ UNCHANGED status /\ c.at \in {"savePaid", "savePaidAgain"} /\ c.order \in Order
        /\ c.at \in Owning /\ orders[c.order].status # "new"
    BY <1>1, <1>5 DEF SavePaid, OnlyRow, NoStock, vars, Owning, HoldAt
  <2>2. PICK d \in OrderRow : d = Db(p) /\ d = orders[c.order]
    BY <1>1, <2>1 DEF Db
  <2>3. CASE UNCHANGED orders /\ \E at \in {"recheck", "undo"} : Goto(p, at)
    <3>1. \A at \in {"recheck", "undo"} : HoldAt(p, at, c.order, c.row, c.hold)
      BY <1>2, <2>1 DEF HoldAt
    <3> QED BY <1>1, <2>1, <2>3, <3>1, HoldGoto
  <2>4. ASSUME NEW x, Goto(p, "consume"),
               x = IF c.hold = 0 THEN c.row.reservation ELSE c.hold,
               d.status = IF c.hold = 0 THEN "pending" ELSE "canceled",
               Write(p, [d EXCEPT !.status = "paid", !.payment = c.payment, !.reservation = x])
        PROVE  HoldInv'
    <3>1. PICK s : s = [d EXCEPT !.status = "paid", !.payment = c.payment, !.reservation = x]
      OBVIOUS
    <3>2. Writes(c.order, s) /\ s.status = "paid" /\ s.reservation = x
      BY <1>1, <2>4, <3>1 DEF Write, Writes, OrderRow
    <3>3. Becomes(p, "consume", c.order, c.row, c.payment, c.hold) /\ Borrowed(p, c.row)
      BY <1>1, <2>4, Shapes DEF Borrowed
    <3>4. CASE c.hold = 0
      <4>1. c.at = "savePaid"
        BY <1>1, <2>1, <3>4 DEF CallOK
      <4>2. orders[c.order].status \in Live /\ x = orders[c.order].reservation
        BY <1>1, <2>2, <2>4, <3>4, <4>1 DEF HoldAt, Live
      <4>3. Borrowed(p, s)
        BY <2>1, <3>2, <4>2 DEF Borrowed
      <4> QED BY <1>1, <1>2, <2>1, <3>2, <3>3, <4>2, <4>3, HoldWrite
    <3>5. CASE c.hold # 0
      <4>1. Private(c) /\ s.reservation = c.hold
        BY <2>1, <2>4, <3>2, <3>5 DEF Private
      <4> QED BY <1>1, <1>2, <2>1, <3>2, <3>3, <4>1, HoldWrite
    <3> QED BY <3>4, <3>5
  <2>5. PICK x : x = IF c.hold = 0 THEN c.row.reservation ELSE c.hold
    OBVIOUS
  <2> QED BY <1>1, <1>5, <2>2, <2>3, <2>4, <2>5 DEF SavePaid
<1>6. CASE Fail(p)
  BY <1>6, HoldReturn DEF Fail, OnlyCall, NoStock, vars, NoOrder, orderVars
<1>7. CASE SaveFails(p)
  <2>1. c.at \in Owning /\ c.order \in Order /\ Goto(p, "undo") /\ UNCHANGED <<orders, status>>
    BY <1>1, <1>7 DEF SaveFails, Owning, OnlyCall, NoStock, vars, NoOrder, orderVars
  <2>2. HoldAt(p, "undo", c.order, c.row, c.hold)
    BY <1>2 DEF HoldAt
  <2> QED BY <1>1, <2>1, <2>2, HoldGoto
<1> QED BY <1>3, <1>4, <1>5, <1>6, <1>7

\* Closing a reservation that no order which can ship names, and no other request owns.
LEMMA HoldClose ==
  ASSUME SagaInv, HoldInv, UNCHANGED orders, NEW p \in Proc, NEW x \in ResId,
         NEW to \in {"committed", "released"}, FinalizeReservation(x, to),
         to = "released" => \A d \in Order : orders[d].status \in Live => orders[d].reservation # x,
         \A u \in Proc : u # p /\ Private(call[u]) => call[u].hold # x,
         NEW at, NEW o, NEW r, NEW q, NEW h, Becomes(p, at, o, r, q, h),
         at # "insert", at \notin Owning, HoldAt(p, at, o, r, h), Borrowed(p, r)
  PROVE  HoldInv'
<1>1. /\ status' = [status EXCEPT ![x] = to] /\ status \in [ResId -> {"none", "active"} \cup Closed]
  BY DEF FinalizeReservation, SagaInv, TypeOK
<1>2. LiveOrderHoldsStock'
  BY <1>1 DEF HoldInv, LiveOrderHoldsStock, Live, SagaInv, RowOK, Owns, PreShip
<1>3. \A u \in Proc : u # p /\ Private(call[u]) => status'[call[u].hold] = "active"
  BY <1>1 DEF HoldInv, PrivateHold
<1> QED BY <1>2, <1>3, HoldMove

LEMMA HoldOfStock ==
  ASSUME SagaInv, HoldInv, NEW p \in Proc, UndoReinstate(p) \/ CommitStock(p) \/ ReleaseStock(p)
  PROVE  HoldInv'
<1>1. PICK c \in CallRecord :
        /\ c = call[p] /\ CallOK(c) /\ HoldAt(p, c.at, c.order, c.row, c.hold) /\ c.row \in OrderRow
        /\ c.at # "idle" => c.order \in Order
  BY HoldFacts
<1>2. c.order \in Order /\ UNCHANGED orders /\ Unborn(c.row)
  BY <1>1 DEF UndoReinstate, CommitStock, ReleaseStock, At, OnlyStock, NoOrder, orderVars, HoldAt
<1>3. \A u \in Proc : Private(call[u]) => call[u].hold # c.row.reservation
  BY <1>1 DEF HoldInv, PrivateHold
<1>4. CASE UndoReinstate(p)
  <2>1. c.hold \in ResId /\ Private(c) /\ Return(p)
    BY <1>1, <1>4 DEF UndoReinstate, At, CallOK, Owns, Private, Owning
  <2>2. \A d \in Order : orders[d].reservation # c.hold
    BY <1>1, <2>1 DEF HoldInv, PrivateHold
  <2>3. \A u \in Proc : u # p /\ Private(call[u]) => call[u].hold # c.hold
    BY <1>1, <2>1 DEF HoldInv, PrivateHold
  <2>4. Becomes(p, "idle", 0, NewRow, NoPayment, 0)
    BY <2>1, Shapes
  <2>5. HoldAt(p, "idle", 0, NewRow, 0) /\ Borrowed(p, NewRow) /\ "idle" \notin Owning
    BY DEF HoldAt, Unborn, NewRow, Borrowed, Owning
  <2>6. CASE FinalizeReservation(c.hold, "released")
    BY <1>2, <2>1, <2>2, <2>3, <2>4, <2>5, <2>6, HoldClose
  <2>7. CASE NoStock
    BY <1>2, <2>1, <2>7, HoldReturn DEF NoStock, vars
  <2> QED BY <1>1, <1>4, <2>6, <2>7 DEF UndoReinstate, Release
<1>5. CASE CommitStock(p) \/ ReleaseStock(p)
  <2>1. c.row.reservation \in ResId /\ orders[c.order].status # "new"
    BY <1>1, <1>5 DEF CommitStock, ReleaseStock, At, CallOK, RowOK, Owns, HoldAt
  <2>2. \A at \in {"ship", "releaseUse"} :
          HoldAt(p, at, c.order, c.row, c.hold) /\ at \notin Owning /\ at # "insert"
    BY <1>2, <2>1 DEF HoldAt, Owning
  <2>3. CASE NoStock /\ (Return(p) \/ Goto(p, "ship") \/ Goto(p, "releaseUse"))
    BY <1>1, <1>2, <2>2, <2>3, HoldReturn, HoldGoto DEF NoStock, vars
  <2>4. ASSUME NEW at \in {"ship", "releaseUse"}, Goto(p, at), NEW to \in {"committed", "released"},
               FinalizeReservation(c.row.reservation, to),
               to = "released" => \A d \in Order : orders[d].status \in Live =>
                                                     orders[d].reservation # c.row.reservation
        PROVE  HoldInv'
    <3>1. Becomes(p, at, c.order, c.row, c.payment, c.hold) /\ Borrowed(p, c.row)
      BY <1>1, <2>4, Shapes DEF Borrowed
    <3> QED BY <1>2, <1>3, <2>1, <2>2, <2>4, <3>1, HoldClose
  <2>5. CASE ReleaseStock(p) /\ FinalizeReservation(c.row.reservation, "released")
    <3>1. /\ c.row.status # "new" /\ Owns(c.row.reservation, c.order) /\ Goto(p, "releaseUse")
          /\ ~ (orders[c.order].status \in Live /\ orders[c.order].reservation = c.row.reservation)
      BY <1>1, <2>5 DEF ReleaseStock, At, CallOK, RowOK, HoldAt
    <3>2. ASSUME NEW d \in Order, orders[d].status \in Live, orders[d].reservation = c.row.reservation
          PROVE  FALSE
      <4>1. Owns(orders[d].reservation, d)
        BY <3>2 DEF SagaInv, RowOK, Live, PreShip
      <4> QED BY <3>1, <3>2, <4>1 DEF Owns
    <3> QED BY <2>4, <2>5, <3>1, <3>2
  <2>6. CASE CommitStock(p)
    BY <1>1, <2>3, <2>4, <2>6 DEF CommitStock, Read
  <2>7. CASE ReleaseStock(p)
    BY <1>1, <2>3, <2>5, <2>7 DEF ReleaseStock, Release, Read
  <2> QED BY <1>5, <2>6, <2>7
<1> QED BY <1>4, <1>5

\* Requests that begin by reading the row.
LEMMA HoldOfStarts ==
  ASSUME SagaInv, HoldInv, NEW p \in Proc, NEW o \in Order,
         Confirm(p, o) \/ Ship(p, o) \/ BeginCancel(p, o) \/ Expire(p, o)
  PROVE  HoldInv'
<1>1. PICK r \in OrderRow : r = orders[o] /\ Unborn(r)
  BY DEF HoldInv, SagaInv, SagaTypeOK
<1>2. OnlyCall /\ r.status # "new"
  BY <1>1 DEF Confirm, Ship, BeginCancel, Expire, Cancelable
<1>3. \E at \in {"confirm", "commit", "cancelPending", "refund"} : Start(p, o, at, r)
  BY <1>1 DEF Confirm, Ship, BeginCancel, Expire
<1> QED BY <1>1, <1>2, <1>3, HoldStart

LEMMA HoldOfHandlers ==
  ASSUME SagaInv, HoldInv, NEW p \in Proc, NEW o \in Order,
         \/ Deliver(p, o) \/ ConfirmReceipt(p, o) \/ ReportNotReceived(p, o)
         \/ ResolveDisputeFulfilled(p, o) \/ Fulfill(p, o)
  PROVE  HoldInv'
<1>1. PICK r \in OrderRow : r = orders[o] /\ Unborn(r)
  BY DEF HoldInv, SagaInv, SagaTypeOK
<1>2. ASSUME NEW handler, NEW from, NEW s, Amend(p, handler, o, from, s), "new" \notin from,
             s.reservation = r.reservation, s.status \in Shipped
      PROVE  HoldInv'
  <2>1. OnlyCall /\ Start(p, o, "save", s) /\ orders[o].status # "new"
    BY <1>2 DEF Amend
  <2>2. Unborn(s)
    BY <1>2 DEF Unborn, Shipped, Shipping
  <2> QED BY <1>1, <1>2, <2>1, <2>2, HoldStart
<1>3. \A st : [r EXCEPT !.status = st].status = st
              /\ [r EXCEPT !.status = st].reservation = r.reservation
  BY DEF OrderRow
<1>4. {"in_transit", "delivered", "disputed", "fulfilled"} = Shipped
  BY DEF Shipping, Shipped
<1>5. CASE Deliver(p, o)
  BY <1>1, <1>2, <1>3, <1>4, <1>5 DEF Deliver
<1>6. CASE ConfirmReceipt(p, o)
  BY <1>1, <1>2, <1>3, <1>4, <1>6 DEF ConfirmReceipt
<1>7. CASE ReportNotReceived(p, o)
  <2>1. PICK s : s = [r EXCEPT !.status = "disputed", !.requested = FALSE]
    OBVIOUS
  <2>2. s.status = "disputed" /\ s.reservation = r.reservation
    BY <2>1 DEF OrderRow
  <2>3. Amend(p, "dispute", o, {"delivered"}, s)
    BY <1>1, <1>7, <2>1 DEF ReportNotReceived
  <2> QED BY <1>2, <1>4, <2>2, <2>3
<1>8. CASE ResolveDisputeFulfilled(p, o)
  BY <1>1, <1>2, <1>3, <1>4, <1>8 DEF ResolveDisputeFulfilled
<1>9. CASE Fulfill(p, o)
  BY <1>1, <1>2, <1>3, <1>4, <1>9 DEF Fulfill
<1> QED BY <1>5, <1>6, <1>7, <1>8, <1>9

LEMMA HoldOfCancelForRefund ==
  ASSUME SagaInv, HoldInv, NEW p \in Proc, NEW q \in Payment, CancelForRefund(p, q)
  PROVE  HoldInv'
<1>1. PICK o \in Order : o = PaymentOrder[q]
  BY PaymentAssumption
<1>2. PICK r : r = orders[o] /\ Unborn(r)
  BY DEF HoldInv
<1>3. CASE UNCHANGED call
  BY <1>3 DEF CancelForRefund, NoStock, vars, NoOrder, orderVars, HoldInv, LiveOrderHoldsStock,
              PrivateHold, Private, HoldSound, HoldAt, Unborn
<1>4. CASE CancelsOnRefund(r, q) /\ Start(p, o, "cancelRefunded", r) /\ UNCHANGED told
  <2>1. r.status # "new" /\ OnlyCall
    BY <1>4 DEF CancelsOnRefund, PreShip, CancelForRefund, OnlyCall
  <2> QED BY <1>2, <1>4, <2>1, HoldStart
<1> QED BY <1>1, <1>2, <1>3, <1>4 DEF CancelForRefund

LEMMA HoldOfWrites ==
  ASSUME SagaInv, HoldInv, NEW p \in Proc,
         \/ ConfirmIfPaid(p) \/ ShipIfConfirmed(p) \/ SaveWithOutbox(p) \/ CancelSave(p)
         \/ CancelIfPending(p) \/ CancelIfPaidForRefund(p)
  PROVE  HoldInv'
<1>1. PICK c \in CallRecord :
        /\ c = call[p] /\ CallOK(c) /\ HoldAt(p, c.at, c.order, c.row, c.hold) /\ c.row \in OrderRow
        /\ c.at # "idle" => /\ c.order \in Order
                            /\ \E d \in OrderRow : d = orders[c.order] /\ Unborn(d)
  BY HoldFacts
<1>2. UNCHANGED status /\ c.at \notin {"idle", "insert", "undo"} /\ c.order \in Order
  BY <1>1 DEF ConfirmIfPaid, ShipIfConfirmed, SaveWithOutbox, CancelSave, CancelIfPending,
              CancelIfPaidForRefund, At, OnlyRow, NoStock, vars
<1>3. PICK d \in OrderRow : d = Db(p) /\ d = orders[c.order] /\ Unborn(d) /\ d.status # "new"
  BY <1>1, <1>2 DEF Db, HoldAt
<1>4. /\ {"paid", "confirmed", "in_transit", "canceled"} \subseteq OrderStatus \ {"new", "pending"}
      /\ {"pending", "paid", "confirmed"} = Live /\ PreShip \subseteq Live
  BY DEF OrderStatus, PreShip, Shipping, Final, Live
<1>5. Unborn(c.row)
  BY <1>1 DEF HoldAt
<1>6. CASE UNCHANGED orders /\ Return(p)
  BY <1>2, <1>6, HoldReturn
<1>7. CASE ConfirmIfPaid(p)
  BY <1>1, <1>2, <1>3, <1>4, <1>6, <1>7, HoldStatus DEF ConfirmIfPaid
<1>8. CASE ShipIfConfirmed(p)
  BY <1>1, <1>2, <1>3, <1>4, <1>6, <1>8, HoldStatus DEF ShipIfConfirmed
<1>9. CASE SaveWithOutbox(p)
  <2>1. c.row.status \in Shipped /\ Return(p) /\ Writes(c.order, c.row)
    BY <1>1, <1>9 DEF SaveWithOutbox, At, HoldAt, Write, Writes, Read
  <2>2. c.row.status \notin Live /\ c.row.status # "new" /\ Borrowed(p, c.row)
    BY <1>1, <2>1 DEF Shipped, Shipping, Live, PreShip, Borrowed
  <2>3. Becomes(p, "idle", 0, NewRow, NoPayment, 0) /\ Unborn(NewRow) /\ Borrowed(p, NewRow)
    BY <2>1, Shapes DEF Unborn, NewRow, Borrowed
  <2> QED BY <1>1, <1>2, <1>3, <2>1, <2>2, <2>3, HoldWrite
<1>10. CASE CancelSave(p)
  <2>1. Write(p, [c.row EXCEPT !.status = "canceled"]) /\ (Return(p) \/ Goto(p, "release"))
    BY <1>1, <1>10 DEF CancelSave, Read
  <2>2. "canceled" \notin Live
    BY DEF Live, PreShip
  <2> QED BY <1>1, <1>2, <1>3, <1>4, <1>5, <2>1, <2>2, HoldStatus
<1>11. CASE Write(p, [d EXCEPT !.status = "canceled"]) /\ GotoWith(p, "release", d)
  <2>1. "canceled" \notin Live
    BY DEF Live, PreShip
  <2> QED BY <1>1, <1>2, <1>3, <1>4, <1>11, <2>1, HoldStatus
<1>12. CASE CancelIfPending(p)
  BY <1>3, <1>6, <1>11, <1>12 DEF CancelIfPending
<1>13. CASE CancelIfPaidForRefund(p)
  <2>1. CASE UNCHANGED orders /\ Goto(p, "reconcile")
    <3>1. HoldAt(p, "reconcile", c.order, c.row, c.hold) /\ "reconcile" \notin Owning
      BY <1>3, <1>5 DEF HoldAt, Owning
    <3> QED BY <1>1, <1>2, <2>1, <3>1, HoldGoto
  <2> QED BY <1>3, <1>6, <1>11, <1>13, <2>1 DEF CancelIfPaidForRefund
<1> QED BY <1>7, <1>8, <1>9, <1>10, <1>12, <1>13

LEMMA HoldOfRefund ==
  ASSUME SagaInv, HoldInv, NEW p \in Proc,
         RefundCaptured(p) \/ RegetRefunded(p) \/ ReconcileCancel(p)
  PROVE  HoldInv'
<1>1. PICK c \in CallRecord :
        /\ c = call[p] /\ CallOK(c) /\ HoldAt(p, c.at, c.order, c.row, c.hold) /\ c.row \in OrderRow
        /\ c.at # "idle" => /\ c.order \in Order
                            /\ \E d \in OrderRow : d = orders[c.order] /\ Unborn(d)
  BY HoldFacts
<1>2. /\ UNCHANGED <<orders, status>> /\ c.at \in {"refund", "reget", "reconcile"}
      /\ c.order \in Order
  BY <1>1 DEF RefundCaptured, RegetRefunded, ReconcileCancel, At, OnlyCall, NoStock, vars, NoOrder,
              orderVars
<1>3. PICK d \in OrderRow : d = Db(p) /\ d = orders[c.order] /\ Unborn(d)
  BY <1>1, <1>2 DEF Db
<1>4. HoldAt(p, "reget", c.order, c.row, c.hold) /\ "reget" \notin Owning
  BY <1>1, <1>2 DEF HoldAt, Owning
<1>5. \A at \in {"cancelPaid", "cancelSave"} : HoldAt(p, at, c.order, d, c.hold) /\ at \notin Owning
  BY <1>1, <1>2, <1>3 DEF HoldAt, Owning
<1>6. \/ Return(p) \/ Goto(p, "reget")
      \/ \E at \in {"cancelPaid", "cancelSave"} : GotoWith(p, at, d)
  BY <1>3 DEF RefundCaptured, RegetRefunded, ReconcileCancel
<1> QED BY <1>1, <1>2, <1>3, <1>4, <1>5, <1>6, HoldReturn, HoldGoto

\* Neither rows nor requests nor the stock's reservations change.
LEMMA HoldStill ==
  ASSUME HoldInv, UNCHANGED <<orders, status, call>>
  PROVE  HoldInv'
BY DEF HoldInv, LiveOrderHoldsStock, PrivateHold, Private, HoldSound, HoldAt, Unborn

LEMMA HoldStep ==
  ASSUME SagaInv, HoldInv, NoCancelRequests, [SagaNext]_sagaVars
  PROVE  HoldInv'
<1>1. ASSUME NEW p \in Proc, StartRequest(p) PROVE HoldInv'
  <2>1. ASSUME NEW o \in Order,
               \/ Place(p, o) \/ Confirm(p, o) \/ Ship(p, o) \/ Cancel(p, o) \/ Expire(p, o)
               \/ Deliver(p, o) \/ ConfirmReceipt(p, o) \/ ReportNotReceived(p, o)
               \/ ResolveDisputeFulfilled(p, o) \/ Fulfill(p, o)
        PROVE  HoldInv'
    BY <2>1, HoldOfPlacing, HoldOfStarts, HoldOfHandlers DEF Cancel
  <2>2. ASSUME NEW o \in Order, RequestCancel(p, o) \/ RejectCancelRequest(p, o) PROVE FALSE
    BY <2>2 DEF RequestCancel, RejectCancelRequest, Amend, Free, NoCancelRequests
  <2>3. ASSUME NEW q \in Payment, MarkPaid(p, q) \/ CancelForRefund(p, q) PROVE HoldInv'
    BY <2>3, HoldOfMarkPaid, HoldOfCancelForRefund
  <2> QED BY <1>1, <2>1, <2>2, <2>3 DEF StartRequest
<1>2. ASSUME NEW p \in Proc, Continue(p) PROVE HoldInv'
  <2>1. CASE ClaimRefused(p)
    <3>1. PICK o \in Order : o = call[p].order
      BY <2>1, CallFacts DEF ClaimRefused, At
    <3> QED BY <2>1, <3>1, HoldOfStarts DEF ClaimRefused
  <2>2. CASE \/ InsertOrder(p) \/ ClaimUse(p) \/ ConsumeUse(p) \/ ReleaseUse(p)
             \/ RereadPending(p) \/ Reinstate(p) \/ SavePaid(p) \/ RecheckPaid(p)
    BY <2>2, HoldOfPlacing, HoldOfPaying
  <2>3. CASE \/ UndoReinstate(p) \/ CommitStock(p) \/ ReleaseStock(p)
             \/ RefundCaptured(p) \/ RegetRefunded(p) \/ ReconcileCancel(p)
    BY <2>3, HoldOfStock, HoldOfRefund
  <2>4. CASE \/ ConfirmIfPaid(p) \/ ShipIfConfirmed(p) \/ SaveWithOutbox(p) \/ CancelSave(p)
             \/ CancelIfPending(p) \/ CancelIfPaidForRefund(p)
    BY <2>4, HoldOfWrites
  <2> QED BY <1>2, <2>1, <2>2, <2>3, <2>4 DEF Continue
<1>3. ASSUME NEW p \in Proc, Fail(p) \/ SaveFails(p) PROVE HoldInv'
  BY <1>3, HoldOfPaying
<1>4. CASE \E o \in Order : SetInspectionVideo(o)
  BY <1>4, HoldStill DEF SetInspectionVideo, NoStock, vars
<1>5. CASE PaymentService
  BY <1>5, HoldStill DEF PaymentService, CreatePayment, PaymentFails, PaymentSucceeds, CancelPayment,
                         PaymentStep, NoStock, vars, NoOrder, orderVars
<1>6. CASE UNCHANGED sagaVars
  BY <1>6, HoldStill DEF sagaVars
<1> QED BY <1>1, <1>2, <1>3, <1>4, <1>5, <1>6 DEF SagaNext

LEMMA HoldInit == SagaInit => HoldInv
<1> SUFFICES ASSUME SagaInit PROVE HoldInv
  OBVIOUS
<1>1. Unborn(NewRow) /\ NewRow.status = "new" /\ "new" \notin Live
  BY DEF Unborn, NewRow, Live, PreShip
<1>2. \A p \in Proc : PrivateHold(p) /\ HoldSound(p)
  BY <1>1 DEF SagaInit, PrivateHold, Private, HoldSound, HoldAt, NoCall
<1>3. LiveOrderHoldsStock
  BY <1>1 DEF SagaInit, LiveOrderHoldsStock, Live
<1> QED BY <1>1, <1>2, <1>3 DEF SagaInit, HoldInv

(* While nobody asks for a cancel or rejects one, an order that can still   *)
(* ship names a reservation nobody released, for any orders, concurrent     *)
(* requests, late or repeated payments and failing calls.                   *)
THEOREM LiveOrdersHoldTheirStock ==
  ASSUME NoCancelRequests
  PROVE  SagaSpec => []LiveOrderHoldsStock
<1>1. HoldInv => LiveOrderHoldsStock
  BY DEF HoldInv
<1>2. SagaInv /\ HoldInv /\ [SagaNext]_sagaVars => HoldInv'
  BY HoldStep
<1> QED BY <1>1, <1>2, HoldInit, SagaInductive, PTL DEF SagaSpec

----------------------------------------------------------------------------
(* Stock that no order counts on.                                          *)

\* One process at a time takes the payments that succeeded.
OneConsumer ==
  \A p, u \in Proc : "markPaid" \in Serves[p] /\ "markPaid" \in Serves[u] => p = u

\* The steps of that consumer, and those of a request about an order that was paid.
Paying == {"reread", "reinstate", "savePaid", "recheck", "reinstateAgain", "savePaidAgain", "undo"}
AfterPayment == {"commit", "ship", "refund", "reget", "cancelPaid", "cancelRefunded", "reconcile",
                 "cancelSave", "save"}

\* An order that can still ship holds reservation x.
Kept(x) == \E o \in Order : holder[x] = o /\ orders[o].reservation = x /\ orders[o].status \in Live

\* A request at step `at` is about to give reservation x to its order, or back.
InHand(at, r, h, x) ==
  \/ at \in {"insert", "savePaid", "savePaidAgain"} /\ h = x
  \/ at = "release" /\ r.reservation = x

\* What request p on order o relies on at step `at`, with row r and hold h: a payment and the
\* reservation it was made with do not change any more; what it reinstates, nobody else pays.
RowFollows(r, o) ==
  /\ r.payment # NoPayment =>
       orders[o].payment = r.payment /\ orders[o].reservation = r.reservation
  /\ r.status \in Shipped => status[r.reservation] = "committed"

Reinstates(at, h) ==
  at \in {"reinstate", "reinstateAgain"} \/ (at \in {"savePaid", "savePaidAgain"} /\ h # 0)

Follows(p, at, o, r, h) ==
  /\ at # "idle" => RowFollows(r, o)
  /\ at \in AfterPayment => r.payment # NoPayment
  /\ at = "ship" => status[r.reservation] = "committed"
  /\ at \in Paying => "markPaid" \in Serves[p]
  /\ at # "undo" /\ (at = "recheck" => h = 0)
  /\ Reinstates(at, h) => orders[o].status = "canceled" /\ orders[o].payment = NoPayment

OpenHeld ==
  \A x \in Open : Kept(x) \/ \E p \in Proc : InHand(call[p].at, call[p].row, call[p].hold, x)

OrphanInv ==
  /\ OpenHeld
  /\ \A o \in Order : orders[o].status \in Shipped => status[orders[o].reservation] = "committed"
  /\ \A p \in Proc : Follows(p, call[p].at, call[p].order, call[p].row, call[p].hold)

----------------------------------------------------------------------------
(* What keeps it. *)

\* What happens to the row of order d when request p writes s, and goes on at step `at` with row r.
Replaces(p, d, s, at, r) ==
  /\ orders[d].payment # NoPayment =>
       s.payment = orders[d].payment /\ s.reservation = orders[d].reservation
  /\ orders[d].status = "canceled" /\ orders[d].payment = NoPayment => "markPaid" \in Serves[p]
  /\ s.status \in Shipped => status[s.reservation] = "committed"
  /\ orders[d].status \in Live /\ status[orders[d].reservation] = "active" =>
       \/ s.status \in Live /\ s.reservation = orders[d].reservation
       \/ at = "release" /\ r.reservation = orders[d].reservation

\* A committed reservation stays so, and a reservation is of one order.
LEMMA StockStays ==
  ASSUME SagaInv, StockStep
  PROVE  /\ \A x \in ResId : status[x] = "committed" => status'[x] = "committed"
         /\ \A x \in Open : holder'[x] = holder[x]
<1>1. \A x \in Open : Owns(x, holder[x])
  BY DEF Owns, Open
<1>2. TypeOK /\ holder \in [ResId -> 0..NumOrders]
  BY DEF SagaInv, SagaTypeOK
<1>3. ASSUME NEW x \in Open PROVE holder'[x] = holder[x]
  <2>1. PICK o : o = holder[x]
    OBVIOUS
  <2>2. Owns(x, o)
    BY <1>1, <2>1
  <2>3. Owns(x, o)'
    BY <1>2, <2>2, StockKept
  <2> QED BY <2>1, <2>3 DEF Owns
<1>4. ASSUME NEW x \in ResId, status[x] = "committed" PROVE status'[x] = "committed"
  <2>1. CASE NoStock
    BY <1>4, <2>1 DEF NoStock, vars
  <2>2. ASSUME NEW o \in Order, Reserve(o) PROVE status'[x] = "committed"
    <3>1. status[seq + 1] = "none" /\ status' = [status EXCEPT ![seq + 1] = "active"]
      BY <1>2, <2>2, InputAssumption DEF Reserve, CreateReservation, TypeOK, ResId
    <3> QED BY <1>2, <1>4, <3>1 DEF TypeOK
  <2>3. ASSUME NEW r \in ResId, NEW to \in Closed, FinalizeReservation(r, to) PROVE status'[x] = "committed"
    BY <1>2, <1>4, <2>3 DEF FinalizeReservation, TypeOK
  <2> QED BY <2>1, <2>2, <2>3 DEF StockStep
<1> QED BY <1>3, <1>4

\* Rows in memory name reservations that exist, so what was committed for them is still.
LEMMA RowStays ==
  ASSUME SagaInv, StockStep, UNCHANGED orders, NEW r, NEW o, RowOK(r, o), RowFollows(r, o)
  PROVE  RowFollows(r, o)'
<1>1. r.status \in Shipped => r.reservation \in ResId
  BY DEF RowOK, Owns, Shipped, Shipping
<1> QED BY <1>1, StockStays DEF RowFollows

LEMMA RowStaysWritten ==
  ASSUME SagaInv, StockStep, NEW p, NEW d \in Order, NEW s, NEW at, NEW r,
         Writes(d, s), Replaces(p, d, s, at, r), NEW w, NEW o \in Order, RowOK(w, o), RowFollows(w, o)
  PROVE  RowFollows(w, o)'
<1>1. w.status \in Shipped => w.reservation \in ResId
  BY DEF RowOK, Owns, Shipped, Shipping
<1>2. orders'[d] = s /\ \A e \in Order : e # d => orders'[e] = orders[e]
  BY DEF Writes, SagaInv, SagaTypeOK
<1>3. w.payment # NoPayment => orders'[o].payment = w.payment /\ orders'[o].reservation = w.reservation
  BY <1>2 DEF RowFollows, Replaces
<1> QED BY <1>1, <1>3, StockStays DEF RowFollows

\* Request p moves and no row is written.
LEMMA OrphanMove ==
  ASSUME SagaInv, OrphanInv, StockStep, UNCHANGED orders, NEW p \in Proc, NEW c, c = call[p],
         NEW at, NEW o, NEW r, NEW q, NEW h, Becomes(p, at, o, r, q, h), Follows(p, at, o, r, h)',
         \A x \in Open : InHand(c.at, c.row, c.hold, x) => InHand(at, r, h, x) \/ status'[x] # "active",
         \A x \in ResId : status'[x] = "active" => x \in Open \/ InHand(at, r, h, x)
  PROVE  OrphanInv'
<1>1. /\ \A x \in ResId : status[x] = "committed" => status'[x] = "committed"
      /\ \A x \in Open : holder'[x] = holder[x]
  BY StockStays
<1>2. /\ call'[p].at = at /\ call'[p].order = o /\ call'[p].row = r /\ call'[p].hold = h
      /\ \A u \in Proc : u # p => call'[u] = call[u]
  BY DEF Becomes, Keeps
<1>3. ASSUME NEW x \in ResId, status'[x] = "active"
      PROVE  Kept(x)' \/ \E u \in Proc : InHand(call[u].at, call[u].row, call[u].hold, x)'
  <2>1. CASE InHand(at, r, h, x)
    BY <1>2, <2>1 DEF InHand
  <2>2. CASE x \in Open /\ ~ InHand(at, r, h, x)
    <3>1. Kept(x) \/ \E u \in Proc : u # p /\ InHand(call[u].at, call[u].row, call[u].hold, x)
      BY <1>3, <2>2 DEF OrphanInv, OpenHeld
    <3> QED BY <1>1, <1>2, <2>2, <3>1 DEF Kept, InHand
  <2> QED BY <1>3, <2>1, <2>2
<1>4. \A d \in Order : orders'[d].status \in Shipped => status'[orders'[d].reservation] = "committed"
  BY <1>1 DEF OrphanInv, SagaInv, RowOK, Owns, Shipped, Shipping
<1>5. ASSUME NEW u \in Proc, u # p
      PROVE  Follows(u, call[u].at, call[u].order, call[u].row, call[u].hold)'
  <2>1. PICK k : k = call[u] /\ CallOK(k) /\ Follows(u, k.at, k.order, k.row, k.hold)
    BY DEF SagaInv, OrphanInv
  <2>2. k.at # "idle" => RowFollows(k.row, k.order)'
    BY <2>1, RowStays DEF CallOK, Follows
  <2>3. k.at = "ship" => k.row.reservation \in ResId
    BY <2>1 DEF CallOK, RowOK, Owns
  <2>4. Follows(u, k.at, k.order, k.row, k.hold)'
    BY <1>1, <2>1, <2>2, <2>3 DEF Follows
  <2> QED BY <1>2, <1>5, <2>1, <2>4 DEF Follows, RowFollows
<1>6. Follows(p, call[p].at, call[p].order, call[p].row, call[p].hold)'
  BY <1>2 DEF Follows, RowFollows
<1> QED BY <1>3, <1>4, <1>5, <1>6 DEF OrphanInv, OpenHeld, Open

\* Request p writes the row of its order.
LEMMA OrphanWrite ==
  ASSUME SagaInv, OrphanInv, OneConsumer, NoStock, NEW p \in Proc, NEW c, c = call[p],
         c.order \in Order, NEW s, Writes(c.order, s),
         NEW at, NEW o, NEW r, NEW q, NEW h, Becomes(p, at, o, r, q, h), Follows(p, at, o, r, h)',
         Replaces(p, c.order, s, at, r), c.at # "release",
         \A x \in Open : InHand(c.at, c.row, c.hold, x) =>
                           x = s.reservation /\ s.status \in Live /\ holder[x] = c.order
  PROVE  OrphanInv'
<1>1. status' = status /\ holder' = holder /\ StockStep
  BY DEF NoStock, vars, StockStep
<1>2. /\ call'[p].at = at /\ call'[p].order = o /\ call'[p].row = r /\ call'[p].hold = h
      /\ \A u \in Proc : u # p => call'[u] = call[u]
  BY DEF Becomes, Keeps
<1>3. orders'[c.order] = s /\ \A e \in Order : e # c.order => orders'[e] = orders[e]
  BY DEF Writes, SagaInv, SagaTypeOK
<1>4. ASSUME NEW x \in Open
      PROVE  Kept(x)' \/ \E u \in Proc : InHand(call[u].at, call[u].row, call[u].hold, x)'
  <2>1. CASE InHand(c.at, c.row, c.hold, x)
    BY <1>1, <1>3, <2>1 DEF Kept
  <2>2. ASSUME NEW u \in Proc, u # p, InHand(call[u].at, call[u].row, call[u].hold, x)
        PROVE  InHand(call[u].at, call[u].row, call[u].hold, x)'
    BY <1>2, <2>2 DEF InHand
  <2>3. ASSUME NEW d \in Order, holder[x] = d, orders[d].reservation = x, orders[d].status \in Live,
               d # c.order
        PROVE  Kept(x)'
    BY <1>1, <1>3, <2>3 DEF Kept
  <2>4. ASSUME holder[x] = c.order, orders[c.order].reservation = x, orders[c.order].status \in Live
        PROVE  Kept(x)' \/ InHand(call[p].at, call[p].row, call[p].hold, x)'
    BY <1>1, <1>2, <1>3, <2>4 DEF Replaces, Kept, InHand, Open
  <2>5. Kept(x) \/ \E u \in Proc : InHand(call[u].at, call[u].row, call[u].hold, x)
    BY DEF OrphanInv, OpenHeld
  <2> QED BY <2>1, <2>2, <2>3, <2>4, <2>5 DEF Kept
<1>5. \A d \in Order : orders'[d].status \in Shipped => status'[orders'[d].reservation] = "committed"
  BY <1>1, <1>3 DEF OrphanInv, Replaces
<1>6. ASSUME NEW u \in Proc, u # p
      PROVE  Follows(u, call[u].at, call[u].order, call[u].row, call[u].hold)'
  <2>1. PICK k : k = call[u] /\ CallOK(k) /\ Follows(u, k.at, k.order, k.row, k.hold)
    BY DEF SagaInv, OrphanInv
  <2>2. CASE k.at = "idle"
    BY <1>2, <1>6, <2>1, <2>2 DEF Follows, RowFollows, CallOK, AfterPayment, Paying, Reinstates
  <2>3. CASE k.at # "idle"
    <3>1. k.order \in Order
      BY <2>1, <2>3 DEF CallOK
    <3>2. RowFollows(k.row, k.order)'
      <4>1. PICK w, e : w = k.row /\ e = k.order /\ e \in Order /\ RowOK(w, e) /\ RowFollows(w, e)
        BY <2>1, <2>3, <3>1 DEF CallOK, Follows
      <4>2. RowFollows(w, e)'
        BY <1>1, <4>1, RowStaysWritten
      <4> QED BY <4>1, <4>2
    <3>3. Reinstates(k.at, k.hold) =>
            orders'[k.order].status = "canceled" /\ orders'[k.order].payment = NoPayment
      <4>1. SUFFICES ASSUME Reinstates(k.at, k.hold), k.order = c.order PROVE FALSE
        BY <1>3, <2>1, <3>1 DEF Follows
      <4>2. "markPaid" \in Serves[u]
        BY <2>1, <4>1 DEF Follows, Reinstates, Paying
      <4>3. "markPaid" \in Serves[p]
        BY <2>1, <4>1 DEF Follows, Replaces
      <4> QED BY <1>6, <4>2, <4>3 DEF OneConsumer
    <3>4. Follows(u, k.at, k.order, k.row, k.hold)'
      BY <1>1, <2>1, <3>2, <3>3 DEF Follows
    <3> QED BY <1>2, <1>6, <2>1, <3>4 DEF Follows, RowFollows
  <2> QED BY <2>2, <2>3
<1>7. Follows(p, call[p].at, call[p].order, call[p].row, call[p].hold)'
  BY <1>2 DEF Follows, RowFollows
<1> QED BY <1>1, <1>4, <1>5, <1>6, <1>7 DEF OrphanInv, OpenHeld, Open

----------------------------------------------------------------------------
(* The actions. *)

LEMMA OrphanFacts ==
  ASSUME SagaInv, MoneyInv, HoldInv, OrphanInv, NEW p \in Proc
  PROVE  \E c \in CallRecord :
           /\ c = call[p] /\ CallOK(c) /\ c.row \in OrderRow
           /\ MoneyAt(c.at, c.order, c.row, c.payment)
           /\ HoldAt(p, c.at, c.order, c.row, c.hold)
           /\ Follows(p, c.at, c.order, c.row, c.hold)
           /\ c.at # "idle" =>
                /\ c.order \in Order
                /\ \E d \in OrderRow : d = orders[c.order] /\ d = Db(p) /\ RowMoney(d, c.order)
                                       /\ RowOK(d, c.order)
<1>1. PICK c \in CallRecord : c = call[p]
  BY CallFacts
<1>2. MoneyAt(c.at, c.order, c.row, c.payment) /\ HoldAt(p, c.at, c.order, c.row, c.hold)
  BY <1>1 DEF MoneyInv, CallMoney, HoldInv, HoldSound
<1>3. Follows(p, c.at, c.order, c.row, c.hold)
  BY <1>1 DEF OrphanInv
<1>4. c.at # "idle" =>
        /\ c.order \in Order
        /\ \E d \in OrderRow : d = orders[c.order] /\ d = Db(p) /\ RowMoney(d, c.order) /\ RowOK(d, c.order)
  BY <1>1, CallFacts DEF Db, MoneyInv
<1> QED BY <1>1, <1>2, <1>3, <1>4, CallFacts

\* A row as it is in the database.
LEMMA DbFollows ==
  ASSUME OrphanInv, NEW o \in Order, NEW r, r = orders[o]
  PROVE  RowFollows(r, o)
BY DEF OrphanInv, RowFollows

\* A request moves, and neither the stock nor a row changes.
LEMMA OrphanCall ==
  ASSUME SagaInv, OrphanInv, NoStock, UNCHANGED orders, NEW p \in Proc, NEW c, c = call[p],
         NEW at, NEW o, NEW r, NEW q, NEW h, Becomes(p, at, o, r, q, h), Follows(p, at, o, r, h),
         \A x \in Open : InHand(c.at, c.row, c.hold, x) => InHand(at, r, h, x)
  PROVE  OrphanInv'
<1>1. status' = status /\ StockStep
  BY DEF NoStock, vars, StockStep
<1>2. Follows(p, at, o, r, h)'
  BY <1>1 DEF Follows, RowFollows
<1> QED BY <1>1, <1>2, OrphanMove DEF Open

LEMMA OrphanReturn ==
  ASSUME SagaInv, OrphanInv, NoStock, UNCHANGED orders, NEW p \in Proc, NEW c, c = call[p], Return(p),
         \A x \in Open : ~ InHand(c.at, c.row, c.hold, x)
  PROVE  OrphanInv'
<1>1. Becomes(p, "idle", 0, NewRow, NoPayment, 0)
  BY Shapes
<1>2. Follows(p, "idle", 0, NewRow, 0)
  BY DEF Follows, AfterPayment, Paying, Reinstates
<1> QED BY <1>1, <1>2, OrphanCall

LEMMA OrphanGoto ==
  ASSUME SagaInv, OrphanInv, NoStock, UNCHANGED orders, NEW p \in Proc, NEW c, c = call[p],
         NEW at, NEW r, (r = c.row /\ Goto(p, at)) \/ GotoWith(p, at, r),
         Follows(p, at, c.order, r, c.hold),
         \A x \in Open : ~ InHand(c.at, c.row, c.hold, x)
  PROVE  OrphanInv'
<1>1. Becomes(p, at, c.order, r, c.payment, c.hold)
  BY Shapes
<1> QED BY <1>1, OrphanCall

LEMMA OrphanStart ==
  ASSUME SagaInv, OrphanInv, OnlyCall, NEW p \in Proc, call[p].at \in {"idle", "claim"},
         NEW o \in Order, NEW at, NEW r, Start(p, o, at, r), RowFollows(r, o),
         at \in {"confirm", "commit", "cancelPending", "refund", "cancelRefunded", "save"},
         at \in AfterPayment => r.payment # NoPayment
  PROVE  OrphanInv'
<1>1. Becomes(p, at, o, r, NoPayment, 0)
  BY Shapes
<1>2. Follows(p, at, o, r, 0)
  BY DEF Follows, Paying, Reinstates
<1>3. \A x : ~ InHand(call[p].at, call[p].row, call[p].hold, x)
  BY DEF InHand
<1> QED BY <1>1, <1>2, <1>3, OrphanCall DEF OnlyCall, NoOrder, orderVars

\* A request that holds nothing makes a reservation.
LEMMA OrphanReserve ==
  ASSUME SagaInv, HoldInv, OrphanInv, UNCHANGED orders, NEW p \in Proc, NEW o \in Order, Reserve(o),
         NEW x, x = seq + 1, NEW at \in {"insert", "savePaid", "savePaidAgain"}, NEW r, NEW q,
         Becomes(p, at, o, r, q, x), RowOK(r, o), Follows(p, at, o, r, x),
         call[p].at \in {"idle", "reinstate", "reinstateAgain"}
  PROVE  OrphanInv'
<1>1. status' = [status EXCEPT ![x] = "active"] /\ StockStep
  BY FreshHold DEF StockStep
<1>2. \A y \in ResId : status'[y] = "active" => y \in Open \/ InHand(at, r, x, y)
  BY <1>1 DEF Open, InHand, SagaInv, TypeOK
<1>3. Follows(p, at, o, r, x)'
  <2>1. RowFollows(r, o)'
    BY <1>1, RowStays DEF Follows
  <2> QED BY <2>1 DEF Follows
<1>4. \A y : ~ InHand(call[p].at, call[p].row, call[p].hold, y)
  BY DEF InHand
<1> QED BY <1>1, <1>2, <1>3, <1>4, OrphanMove

LEMMA OrphanOfPlacing ==
  ASSUME SagaInv, MoneyInv, HoldInv, OrphanInv, OneConsumer, NEW p \in Proc,
         \/ \E o \in Order : Place(p, o)
         \/ InsertOrder(p) \/ ClaimUse(p) \/ ConsumeUse(p) \/ ReleaseUse(p)
  PROVE  OrphanInv'
<1>1. PICK c \in CallRecord :
        /\ c = call[p] /\ CallOK(c) /\ HoldAt(p, c.at, c.order, c.row, c.hold)
        /\ Follows(p, c.at, c.order, c.row, c.hold)
        /\ c.at # "idle" => /\ c.order \in Order
                            /\ \E d \in OrderRow : d = orders[c.order] /\ RowMoney(d, c.order)
  BY OrphanFacts
<1>2. ASSUME NEW o \in Order, Place(p, o) PROVE OrphanInv'
  <2>1. PICK h : h = seq + 1
    OBVIOUS
  <2>2. Becomes(p, "insert", o, NewRow, NoPayment, h)
    BY <1>2, <2>1 DEF Place, Becomes, Keeps, NoCall, SagaInv, SagaTypeOK
  <2>3. RowOK(NewRow, o) /\ RowFollows(NewRow, o)
    BY DEF NewRow, RowOK, RowFollows, Shipped, Shipping
  <2>4. Follows(p, "insert", o, NewRow, h)
    BY <2>3 DEF Follows, AfterPayment, Paying, Reinstates
  <2>5. UNCHANGED orders /\ Reserve(o) /\ call[p].at = "idle"
    BY <1>2 DEF Place, OnlyStock, NoOrder, orderVars, Free, At
  <2> QED BY <2>1, <2>2, <2>3, <2>4, <2>5, OrphanReserve
<1>3. CASE InsertOrder(p)
  <2>1. /\ c.order \in Order /\ NoStock /\ Goto(p, "claim") /\ c.at = "insert" /\ c.hold # 0
        /\ orders[c.order].status = "new" /\ Owns(c.hold, c.order)
    BY <1>1, <1>3 DEF InsertOrder, At, OnlyRow, CallOK, HoldAt
  <2>2. PICK s : s = [NewRow EXCEPT !.status = "pending", !.reservation = c.hold]
    OBVIOUS
  <2>3. /\ Writes(c.order, s) /\ s.status = "pending" /\ s.reservation = c.hold
        /\ s.status \in Live /\ s.status \notin Shipped
    BY <1>1, <1>3, <2>2 DEF InsertOrder, Write, Writes, NewRow, Live, Shipped, Shipping
  <2>4. Becomes(p, "claim", c.order, c.row, c.payment, c.hold)
    BY <1>1, <2>1, Shapes
  <2>5. orders[c.order].payment = NoPayment
    BY <1>1, <2>1 DEF RowMoney
  <2>6. Replaces(p, c.order, s, "claim", c.row)
    BY <2>1, <2>3, <2>5 DEF Replaces, Live, PreShip
  <2>7. RowFollows(c.row, c.order)'
    <3>1. c.row.payment = NoPayment
      BY <1>1, <2>1, <2>5 DEF Follows, RowFollows
    <3>2. c.row.status \in Shipped => status'[c.row.reservation] = "committed"
      BY <1>1, <2>1 DEF Follows, RowFollows, NoStock, vars
    <3> QED BY <3>1, <3>2 DEF RowFollows
  <2>8. Follows(p, "claim", c.order, c.row, c.hold)'
    BY <2>7 DEF Follows, AfterPayment, Paying, Reinstates
  <2>9. \A x \in Open : InHand(c.at, c.row, c.hold, x) =>
                          x = s.reservation /\ s.status \in Live /\ holder[x] = c.order
    BY <2>1, <2>3 DEF InHand, Owns
  <2> QED BY <1>1, <2>1, <2>3, <2>4, <2>6, <2>8, <2>9, OrphanWrite
<1>4. CASE ClaimUse(p) \/ ConsumeUse(p) \/ ReleaseUse(p)
  <2>1. c.at \in {"claim", "consume", "releaseUse"} /\ Return(p) /\ NoStock /\ UNCHANGED orders
    BY <1>1, <1>4 DEF ClaimUse, ConsumeUse, ReleaseUse, At
  <2>2. \A x : ~ InHand(c.at, c.row, c.hold, x)
    BY <2>1 DEF InHand
  <2> QED BY <1>1, <2>1, <2>2, OrphanReturn
<1> QED BY <1>2, <1>3, <1>4

LEMMA OrphanOfMarkPaid ==
  ASSUME SagaInv, MoneyInv, HoldInv, OrphanInv, OnePaymentPerOrder,
         NEW p \in Proc, NEW q \in Payment, MarkPaid(p, q)
  PROVE  OrphanInv'
<1>1. PICK o \in Order : o = PaymentOrder[q]
  BY PaymentAssumption
<1>2. PICK r \in OrderRow : r = orders[o] /\ RowMoney(r, o)
  BY DEF MoneyInv, SagaInv, SagaTypeOK
<1>3. PICK at \in {"reread", "reinstate"} :
        /\ Becomes(p, at, o, r, q, 0)
        /\ at = "reinstate" => r.status = "canceled" /\ ~ Applied(r, q)
  BY <1>1, <1>2 DEF MarkPaid, Becomes, Keeps, NoCall, SagaInv, SagaTypeOK
<1>4. at = "reinstate" => r.payment = NoPayment
  BY <1>1, <1>2, <1>3 DEF Applied, RowMoney, Captured, OnePaymentPerOrder
<1>5. RowFollows(r, o)
  BY <1>2, DbFollows
<1>6. call[p].at = "idle" /\ "markPaid" \in Serves[p] /\ NoStock /\ UNCHANGED orders
  BY DEF MarkPaid, Free, At, OnlyCall, NoOrder, orderVars
<1>7. Follows(p, at, o, r, 0)
  BY <1>2, <1>3, <1>4, <1>5, <1>6 DEF Follows, AfterPayment, Reinstates
<1>8. \A x : ~ InHand(call[p].at, call[p].row, call[p].hold, x)
  BY <1>6 DEF InHand
<1> QED BY <1>3, <1>6, <1>7, <1>8, OrphanCall

\* An order that is canceled and whose payment in hand was not applied was never paid.
LEMMA NeverPaid ==
  ASSUME OnePaymentPerOrder, NEW d, NEW o, RowMoney(d, o), NEW q, Captured(q, o),
         ~ Applied(d, q), d.status = "canceled"
  PROVE  d.payment = NoPayment
BY DEF Applied, RowMoney, Captured, OnePaymentPerOrder

LEMMA OrphanOfPaying ==
  ASSUME SagaInv, MoneyInv, HoldInv, OrphanInv, OnePaymentPerOrder, OneConsumer, ~ CallsMayFail,
         NEW p \in Proc,
         \/ RereadPending(p) \/ Reinstate(p) \/ SavePaid(p) \/ RecheckPaid(p)
         \/ UndoReinstate(p) \/ SaveFails(p) \/ Fail(p)
  PROVE  OrphanInv'
<1>1. PICK c \in CallRecord :
        /\ c = call[p] /\ CallOK(c) /\ MoneyAt(c.at, c.order, c.row, c.payment)
        /\ HoldAt(p, c.at, c.order, c.row, c.hold) /\ Follows(p, c.at, c.order, c.row, c.hold)
        /\ c.at # "idle" =>
             /\ c.order \in Order
             /\ \E d \in OrderRow : d = orders[c.order] /\ d = Db(p) /\ RowMoney(d, c.order)
  BY OrphanFacts
<1>2. CASE RereadPending(p) \/ RecheckPaid(p)
  <2>1. /\ c.at \in {"reread", "recheck"} /\ NoStock /\ UNCHANGED orders /\ c.order \in Order
        /\ c.hold = 0 /\ "markPaid" \in Serves[p] /\ Captured(c.payment, c.order)
        /\ RowFollows(c.row, c.order)
    BY <1>1, <1>2 DEF RereadPending, RecheckPaid, At, OnlyCall, NoOrder, orderVars, HoldAt, Follows,
                      Paying, MoneyAt
  <2>2. PICK d : d = orders[c.order] /\ d = Db(p) /\ RowMoney(d, c.order)
    BY <1>1, <2>1
  <2>3. RowFollows(d, c.order)
    BY <2>1, <2>2, DbFollows
  <2>4. \A x : ~ InHand(c.at, c.row, c.hold, x)
    BY <2>1 DEF InHand
  <2>5. CASE Return(p)
    BY <1>1, <2>1, <2>4, <2>5, OrphanReturn
  <2>6. ASSUME NEW at \in {"reinstate", "reinstateAgain"}, GotoWith(p, at, d),
               ~ Applied(d, c.payment), d.status = "canceled"
        PROVE  OrphanInv'
    <3>1. d.payment = NoPayment
      BY <2>1, <2>2, <2>6, NeverPaid
    <3>2. Follows(p, at, c.order, d, c.hold)
      BY <2>1, <2>2, <2>3, <2>6, <3>1 DEF Follows, AfterPayment
    <3> QED BY <1>1, <2>1, <2>4, <2>6, <3>2, OrphanGoto
  <2>7. CASE Goto(p, "savePaid")
    <3>1. Follows(p, "savePaid", c.order, c.row, c.hold)
      BY <2>1 DEF Follows, AfterPayment, Reinstates
    <3> QED BY <1>1, <2>1, <2>4, <2>7, <3>1, OrphanGoto
  <2> QED BY <1>1, <1>2, <2>1, <2>2, <2>5, <2>6, <2>7 DEF RereadPending, RecheckPaid
<1>3. CASE Reinstate(p)
  <2>1. /\ UNCHANGED orders /\ c.at \in {"reinstate", "reinstateAgain"} /\ c.order \in Order
        /\ RowOK(c.row, c.order)
    BY <1>1, <1>3 DEF Reinstate, OnlyStock, NoOrder, orderVars, CallOK
  <2>2. CASE Return(p) /\ NoStock
    <3>1. \A x : ~ InHand(c.at, c.row, c.hold, x)
      BY <2>1 DEF InHand
    <3> QED BY <1>1, <2>1, <2>2, <3>1, OrphanReturn
  <2>3. CASE /\ Reserve(c.order)
             /\ call' = [call EXCEPT ![p].hold = seq + 1,
                                     ![p].at = IF @ = "reinstate" THEN "savePaid" ELSE "savePaidAgain"]
    <3>1. PICK h : h = seq + 1
      OBVIOUS
    <3>2. PICK at \in {"savePaid", "savePaidAgain"} : Becomes(p, at, c.order, c.row, c.payment, h)
      BY <1>1, <2>3, <3>1 DEF Becomes, Keeps, SagaInv, SagaTypeOK, CallRecord
    <3>3. Follows(p, at, c.order, c.row, h)
      BY <1>1, <2>1 DEF Follows, AfterPayment, Paying, Reinstates
    <3> QED BY <1>1, <2>1, <2>3, <3>1, <3>2, <3>3, OrphanReserve
  <2> QED BY <1>1, <1>3, <2>2, <2>3 DEF Reinstate
<1>4. CASE SavePaid(p)
  <2>1. /\ NoStock /\ c.at \in {"savePaid", "savePaidAgain"} /\ c.order \in Order
        /\ "markPaid" \in Serves[p] /\ RowFollows(c.row, c.order)
    BY <1>1, <1>4 DEF SavePaid, OnlyRow, Follows, Paying
  <2>2. PICK d \in OrderRow : d = orders[c.order] /\ d = Db(p) /\ RowMoney(d, c.order)
    BY <1>1, <2>1
  <2>3. c.hold # 0 => d.status = "canceled" /\ d.payment = NoPayment
    BY <1>1, <2>1, <2>2 DEF Follows, Reinstates
  <2>4. CASE UNCHANGED orders /\ c.hold = 0 /\ Goto(p, "recheck")
    <3>1. Follows(p, "recheck", c.order, c.row, c.hold)
      BY <2>1, <2>4 DEF Follows, AfterPayment, Reinstates
    <3>2. \A x \in Open : ~ InHand(c.at, c.row, c.hold, x)
      BY <2>1, <2>4, InputAssumption DEF InHand, Open, ResId
    <3> QED BY <1>1, <2>1, <2>4, <3>1, <3>2, OrphanGoto
  <2>5. ASSUME NEW x, Goto(p, "consume"),
               x = IF c.hold = 0 THEN c.row.reservation ELSE c.hold,
               d.status = IF c.hold = 0 THEN "pending" ELSE "canceled",
               Write(p, [d EXCEPT !.status = "paid", !.payment = c.payment, !.reservation = x])
        PROVE  OrphanInv'
    <3>1. PICK s : s = [d EXCEPT !.status = "paid", !.payment = c.payment, !.reservation = x]
      OBVIOUS
    <3>2. /\ Writes(c.order, s) /\ s.status = "paid" /\ s.reservation = x
          /\ s.status \in Live /\ s.status \notin Shipped
      BY <1>1, <2>5, <3>1 DEF Write, Writes, OrderRow, Live, PreShip, Shipped, Shipping
    <3>3. Becomes(p, "consume", c.order, c.row, c.payment, c.hold)
      BY <1>1, <2>5, Shapes
    <3>4. d.payment = NoPayment
      BY <2>2, <2>3, <2>5 DEF RowMoney
    <3>5. d.status = "pending" => x = d.reservation
      BY <1>1, <2>1, <2>2, <2>5 DEF HoldAt, CallOK
    <3>6. Replaces(p, c.order, s, "consume", c.row)
      BY <2>1, <2>2, <2>5, <3>2, <3>4, <3>5 DEF Replaces, Live, PreShip
    <3>7. RowFollows(c.row, c.order)'
      <4>1. c.row.payment = NoPayment
        BY <2>1, <2>2, <3>4 DEF RowFollows
      <4> QED BY <2>1, <4>1 DEF RowFollows, NoStock, vars
    <3>8. Follows(p, "consume", c.order, c.row, c.hold)'
      BY <3>7 DEF Follows, AfterPayment, Paying, Reinstates
    <3>9. \A y \in Open : InHand(c.at, c.row, c.hold, y) =>
                            y = s.reservation /\ s.status \in Live /\ holder[y] = c.order
      BY <1>1, <2>1, <2>5, <3>2, InputAssumption DEF InHand, CallOK, Owns, Open, ResId
    <3> QED BY <1>1, <2>1, <3>2, <3>3, <3>6, <3>8, <3>9, OrphanWrite
  <2>6. PICK x : x = IF c.hold = 0 THEN c.row.reservation ELSE c.hold
    OBVIOUS
  <2>7. c.at = "savePaidAgain" => c.hold # 0
    BY <1>1 DEF CallOK
  <2> QED BY <1>1, <1>4, <2>1, <2>2, <2>3, <2>4, <2>5, <2>6, <2>7 DEF SavePaid
<1>5. ~ UndoReinstate(p) /\ ~ SaveFails(p) /\ ~ Fail(p)
  BY <1>1 DEF UndoReinstate, At, Follows, SaveFails, Fail
<1> QED BY <1>2, <1>3, <1>4, <1>5

LEMMA OrphanOfStock ==
  ASSUME SagaInv, MoneyInv, HoldInv, OrphanInv, ~ CallsMayFail, NEW p \in Proc,
         CommitStock(p) \/ ReleaseStock(p)
  PROVE  OrphanInv'
<1>1. PICK c \in CallRecord :
        /\ c = call[p] /\ CallOK(c) /\ Follows(p, c.at, c.order, c.row, c.hold)
        /\ c.at # "idle" => c.order \in Order
  BY OrphanFacts
<1>2. PICK x : x = c.row.reservation
  OBVIOUS
<1>3. /\ c.at \in {"commit", "release"} /\ UNCHANGED orders /\ c.row = Read(p)
      /\ x \in ResId /\ RowOK(c.row, c.order) /\ RowFollows(c.row, c.order)
  BY <1>1, <1>2 DEF CommitStock, ReleaseStock, At, OnlyStock, NoOrder, orderVars, Read, CallOK, RowOK,
                    Owns, Follows
<1>4. c.at = "commit" => \A y : ~ InHand(c.at, c.row, c.hold, y)
  BY DEF InHand
<1>5. ASSUME NEW to \in Closed, NEW at \in {"ship", "releaseUse"}, Goto(p, at),
             FinalizeReservation(x, to), UNCHANGED holder,
             at = "ship" => to = "committed" /\ c.at = "commit"
      PROVE  OrphanInv'
  <2>1. Becomes(p, at, c.order, c.row, c.payment, c.hold)
    BY <1>1, <1>5, Shapes
  <2>2. StockStep /\ status' = [status EXCEPT ![x] = to] /\ to # "active"
    BY <1>3, <1>5 DEF StockStep, FinalizeReservation, Closed
  <2>3. RowFollows(c.row, c.order)'
    BY <1>3, <2>2, RowStays
  <2>4. status'[x] = to /\ \A y \in ResId : status'[y] = "active" => y \in Open
    BY <1>3, <2>2 DEF Open, SagaInv, TypeOK
  <2>5. Follows(p, at, c.order, c.row, c.hold)'
    BY <1>1, <1>2, <1>5, <2>3, <2>4 DEF Follows, AfterPayment, Paying, Reinstates
  <2>6. \A y \in Open : InHand(c.at, c.row, c.hold, y) => status'[y] # "active"
    BY <1>2, <1>3, <1>4, <2>2, <2>4 DEF InHand
  <2> QED BY <1>1, <1>3, <2>1, <2>2, <2>4, <2>5, <2>6, OrphanMove
<1>6. ASSUME NoStock, c.at = "release" => status[x] # "active",
             Return(p) \/ (Goto(p, "ship") /\ c.at = "commit" /\ status[x] = "committed")
               \/ Goto(p, "releaseUse")
      PROVE  OrphanInv'
  <2>1. \A y \in Open : ~ InHand(c.at, c.row, c.hold, y)
    BY <1>2, <1>3, <1>6 DEF InHand, Open
  <2>2. Follows(p, "releaseUse", c.order, c.row, c.hold)
    BY <1>3 DEF Follows, AfterPayment, Paying, Reinstates
  <2>3. c.at = "commit" /\ status[x] = "committed" => Follows(p, "ship", c.order, c.row, c.hold)
    BY <1>1, <1>2, <1>3 DEF Follows, AfterPayment, Paying, Reinstates
  <2> QED BY <1>1, <1>3, <1>6, <2>1, <2>2, <2>3, OrphanReturn, OrphanGoto
<1>7. CASE CommitStock(p)
  <2>1. "committed" \in Closed /\ c.at = "commit"
    BY <1>1, <1>7 DEF Closed, CommitStock, At
  <2> QED BY <1>2, <1>3, <1>5, <1>6, <1>7, <2>1 DEF CommitStock
<1>8. CASE ReleaseStock(p)
  <2>1. "released" \in Closed /\ Release(x) /\ Goto(p, "releaseUse")
    BY <1>2, <1>3, <1>8 DEF Closed, ReleaseStock
  <2> QED BY <1>5, <1>6, <2>1 DEF Release
<1> QED BY <1>7, <1>8

\* Requests that begin by reading the row.
LEMMA OrphanOfStarts ==
  ASSUME SagaInv, MoneyInv, OrphanInv, NEW p \in Proc, NEW o \in Order,
         \/ Confirm(p, o) \/ Ship(p, o) \/ Cancel(p, o) \/ Expire(p, o)
         \/ At(p, "claim") /\ BeginCancel(p, o)
  PROVE  OrphanInv'
<1>1. PICK r \in OrderRow : r = orders[o] /\ RowMoney(r, o)
  BY DEF MoneyInv, SagaInv, SagaTypeOK
<1>2. RowFollows(r, o)
  BY <1>1, DbFollows
<1>3. OnlyCall /\ call[p].at \in {"idle", "claim"}
  BY DEF Confirm, Ship, Cancel, BeginCancel, Expire, Free, At
<1>4. \E at \in {"confirm", "commit", "cancelPending", "refund"} :
        Start(p, o, at, r) /\ (at \in AfterPayment => r.payment # NoPayment)
  <2>1. r.status = "confirmed" => r.payment # NoPayment
    BY <1>1 DEF RowMoney, PreShip
  <2>2. Cancelable(r.status) /\ r.status # "pending" => r.payment # NoPayment
    BY <1>1 DEF Cancelable, RowMoney, Final, Shipped, OrderRow, OrderStatus
  <2>3. {"confirm", "cancelPending"} \cap AfterPayment = {}
    BY DEF AfterPayment
  <2> QED BY <1>1, <2>1, <2>2, <2>3 DEF Confirm, Ship, Cancel, BeginCancel, Expire
<1> QED BY <1>1, <1>2, <1>3, <1>4, OrphanStart

LEMMA OrphanOfHandlers ==
  ASSUME SagaInv, MoneyInv, OrphanInv, NEW p \in Proc, NEW o \in Order,
         \/ Deliver(p, o) \/ ConfirmReceipt(p, o) \/ ReportNotReceived(p, o)
         \/ ResolveDisputeFulfilled(p, o) \/ Fulfill(p, o)
  PROVE  OrphanInv'
<1>1. PICK r \in OrderRow : r = orders[o] /\ RowMoney(r, o)
  BY DEF MoneyInv, SagaInv, SagaTypeOK
<1>2. ASSUME NEW handler, NEW from, NEW s, Amend(p, handler, o, from, s), from \subseteq Shipped,
             s.payment = r.payment, s.reservation = r.reservation
      PROVE  OrphanInv'
  <2>1. OnlyCall /\ Start(p, o, "save", s) /\ call[p].at = "idle" /\ r.status \in Shipped
    BY <1>1, <1>2 DEF Amend, Free, At
  <2>2. RowFollows(s, o) /\ r.payment # NoPayment
    BY <1>1, <1>2, <2>1 DEF RowFollows, OrphanInv, RowMoney
  <2> QED BY <1>2, <2>1, <2>2, OrphanStart
<1>3. ASSUME NEW handler, NEW from, NEW st, from \subseteq Shipped,
             Amend(p, handler, o, from, [r EXCEPT !.status = st])
      PROVE  OrphanInv'
  <2>1. PICK s : s = [r EXCEPT !.status = st]
    OBVIOUS
  <2>2. s.payment = r.payment /\ s.reservation = r.reservation
    BY <2>1 DEF OrderRow
  <2> QED BY <1>2, <1>3, <2>1, <2>2
<1>4. CASE ReportNotReceived(p, o)
  <2>1. PICK s : s = [r EXCEPT !.status = "disputed", !.requested = FALSE]
    OBVIOUS
  <2>2. s.payment = r.payment /\ s.reservation = r.reservation
    BY <2>1 DEF OrderRow
  <2>3. Amend(p, "dispute", o, {"delivered"}, s)
    BY <1>1, <1>4, <2>1 DEF ReportNotReceived
  <2>4. {"delivered"} \subseteq Shipped
    BY DEF Shipped, Shipping
  <2> QED BY <1>2, <2>2, <2>3, <2>4
<1>5. CASE Deliver(p, o) \/ ConfirmReceipt(p, o) \/ ResolveDisputeFulfilled(p, o) \/ Fulfill(p, o)
  <2>1. \E handler, st :
          \E from \in {{"in_transit"}, {"delivered"}, {"disputed"}, {"delivered", "disputed"}} :
            Amend(p, handler, o, from, [r EXCEPT !.status = st])
    BY <1>1, <1>5 DEF Deliver, ConfirmReceipt, ResolveDisputeFulfilled, Fulfill
  <2>2. \A from \in {{"in_transit"}, {"delivered"}, {"disputed"}, {"delivered", "disputed"}} :
          from \subseteq Shipped
    BY DEF Shipped, Shipping
  <2> QED BY <1>3, <2>1, <2>2
<1> QED BY <1>4, <1>5

LEMMA OrphanOfRefund ==
  ASSUME SagaInv, MoneyInv, HoldInv, OrphanInv, NEW p \in Proc,
         RefundCaptured(p) \/ RegetRefunded(p) \/ ReconcileCancel(p)
  PROVE  OrphanInv'
<1>1. PICK c \in CallRecord :
        /\ c = call[p] /\ Follows(p, c.at, c.order, c.row, c.hold)
        /\ c.at # "idle" => /\ c.order \in Order
                            /\ \E d \in OrderRow : d = orders[c.order] /\ d = Db(p)
  BY OrphanFacts
<1>2. /\ NoStock /\ UNCHANGED orders /\ c.at \in {"refund", "reget", "reconcile"}
      /\ c.order \in Order /\ c.row.payment # NoPayment /\ RowFollows(c.row, c.order)
  BY <1>1 DEF RefundCaptured, RegetRefunded, ReconcileCancel, At, OnlyCall, NoOrder, orderVars, Follows,
              AfterPayment
<1>3. PICK d \in OrderRow : d = Db(p) /\ d = orders[c.order]
  BY <1>1, <1>2
<1>4. RowFollows(d, c.order) /\ d.payment # NoPayment
  BY <1>2, <1>3, DbFollows DEF RowFollows
<1>5. Follows(p, "reget", c.order, c.row, c.hold)
  BY <1>2 DEF Follows, Paying, Reinstates
<1>6. \A at \in {"cancelPaid", "cancelSave"} : Follows(p, at, c.order, d, c.hold)
  BY <1>4 DEF Follows, Paying, Reinstates
<1>7. \A x : ~ InHand(c.at, c.row, c.hold, x)
  BY <1>2 DEF InHand
<1>8. \/ Return(p) \/ Goto(p, "reget")
      \/ \E at \in {"cancelPaid", "cancelSave"} : GotoWith(p, at, d)
  BY <1>3 DEF RefundCaptured, RegetRefunded, ReconcileCancel
<1> QED BY <1>1, <1>2, <1>5, <1>6, <1>7, <1>8, OrphanReturn, OrphanGoto

\* Neither rows nor requests nor the stock's reservations change.
LEMMA OrphanStill ==
  ASSUME OrphanInv, UNCHANGED <<orders, status, holder, call>>
  PROVE  OrphanInv'
BY DEF OrphanInv, OpenHeld, Open, Kept, InHand, Follows, RowFollows

LEMMA OrphanOfCancelForRefund ==
  ASSUME SagaInv, OrphanInv, NEW p \in Proc, NEW q \in Payment, CancelForRefund(p, q)
  PROVE  OrphanInv'
<1>1. PICK o \in Order : o = PaymentOrder[q]
  BY PaymentAssumption
<1>2. PICK r : r = orders[o] /\ RowFollows(r, o)
  BY DbFollows
<1>3. CASE UNCHANGED call
  BY <1>3, OrphanStill DEF CancelForRefund, NoStock, vars, NoOrder, orderVars
<1>4. CASE CancelsOnRefund(r, q) /\ Start(p, o, "cancelRefunded", r) /\ UNCHANGED told
  <2>1. r.payment # NoPayment /\ OnlyCall /\ call[p].at = "idle"
    BY <1>4, PaymentAssumption DEF CancelsOnRefund, CancelForRefund, OnlyCall, Free, At
  <2> QED BY <1>2, <1>4, <2>1, OrphanStart
<1> QED BY <1>1, <1>2, <1>3, <1>4 DEF CancelForRefund

\* A row moves to another status with its payment and its reservation; whoever makes it one that
\* cannot ship goes on to give back what it holds, unless that is closed.
LEMMA OrphanStatus ==
  ASSUME SagaInv, OrphanInv, OneConsumer, NoStock, NEW p \in Proc, NEW c, c = call[p],
         c.order \in Order, c.at \notin {"insert", "savePaid", "savePaidAgain", "release"},
         NEW d, d = orders[c.order], NEW s, Writes(c.order, s),
         s.payment = d.payment, s.reservation = d.reservation,
         d.status # "canceled" \/ d.payment # NoPayment,
         s.status \in Shipped => status[s.reservation] = "committed",
         \/ /\ Return(p)
            /\ s.status \in Live \/ d.status \notin Live \/ status[d.reservation] # "active"
         \/ \E r : /\ (r = c.row /\ Goto(p, "release")) \/ GotoWith(p, "release", r)
                   /\ r.reservation = d.reservation /\ RowFollows(r, c.order)
  PROVE  OrphanInv'
<1>1. \A x : ~ InHand(c.at, c.row, c.hold, x)
  BY DEF InHand
<1>2. CASE Return(p) /\ (s.status \in Live \/ d.status \notin Live \/ status[d.reservation] # "active")
  <2>1. Becomes(p, "idle", 0, NewRow, NoPayment, 0)
    BY <1>2, Shapes
  <2>2. Follows(p, "idle", 0, NewRow, 0)'
    BY DEF Follows, AfterPayment, Paying, Reinstates
  <2>3. Replaces(p, c.order, s, "idle", NewRow)
    BY <1>2 DEF Replaces
  <2> QED BY <1>1, <2>1, <2>2, <2>3, OrphanWrite
<1>3. ASSUME NEW r, (r = c.row /\ Goto(p, "release")) \/ GotoWith(p, "release", r),
             r.reservation = d.reservation, RowFollows(r, c.order)
      PROVE  OrphanInv'
  <2>1. Becomes(p, "release", c.order, r, c.payment, c.hold)
    BY <1>3, Shapes
  <2>2. orders'[c.order] = s /\ status' = status
    BY DEF Writes, SagaInv, SagaTypeOK, NoStock, vars
  <2>3. RowFollows(r, c.order)'
    BY <1>3, <2>2 DEF RowFollows
  <2>4. Follows(p, "release", c.order, r, c.hold)'
    BY <2>3 DEF Follows, AfterPayment, Paying, Reinstates
  <2>5. Replaces(p, c.order, s, "release", r)
    BY <1>3 DEF Replaces
  <2> QED BY <1>1, <2>1, <2>4, <2>5, OrphanWrite
<1> QED BY <1>2, <1>3

LEMMA OrphanOfWrites ==
  ASSUME SagaInv, MoneyInv, HoldInv, OrphanInv, OneConsumer, NEW p \in Proc,
         \/ ConfirmIfPaid(p) \/ ShipIfConfirmed(p) \/ SaveWithOutbox(p) \/ CancelSave(p)
         \/ CancelIfPending(p) \/ CancelIfPaidForRefund(p)
  PROVE  OrphanInv'
<1>1. PICK c \in CallRecord :
        /\ c = call[p] /\ HoldAt(p, c.at, c.order, c.row, c.hold) /\ c.row \in OrderRow
        /\ MoneyAt(c.at, c.order, c.row, c.payment) /\ Follows(p, c.at, c.order, c.row, c.hold)
        /\ c.at # "idle" => /\ c.order \in Order
                            /\ \E d \in OrderRow : d = orders[c.order] /\ d = Db(p)
  BY OrphanFacts
<1>2. /\ NoStock /\ c.order \in Order
      /\ c.at \in {"confirm", "ship", "save", "cancelSave", "cancelPending", "cancelPaid", "cancelRefunded"}
  BY <1>1 DEF ConfirmIfPaid, ShipIfConfirmed, SaveWithOutbox, CancelSave, CancelIfPending,
              CancelIfPaidForRefund, At, OnlyRow
<1>3. c.at \notin {"idle", "insert", "savePaid", "savePaidAgain", "release"}
  BY <1>2
<1>4. PICK d \in OrderRow : d = Db(p) /\ d = orders[c.order]
  BY <1>1, <1>3
<1>5. RowFollows(d, c.order) /\ RowFollows(c.row, c.order)
  BY <1>1, <1>2, <1>3, <1>4, DbFollows DEF Follows
<1>6. CASE UNCHANGED orders /\ Return(p)
  <2>1. \A x : ~ InHand(c.at, c.row, c.hold, x)
    BY <1>3 DEF InHand
  <2> QED BY <1>1, <1>2, <1>6, <2>1, OrphanReturn
<1>7. ASSUME NEW st, Write(p, [d EXCEPT !.status = st]), d.status # "canceled",
             st \in Shipped => status[d.reservation] = "committed",
             \/ Return(p) /\ (st \in Live \/ status[d.reservation] # "active")
             \/ GotoWith(p, "release", d)
      PROVE  OrphanInv'
  <2>1. PICK s : s = [d EXCEPT !.status = st]
    OBVIOUS
  <2>2. s.status = st /\ s.payment = d.payment /\ s.reservation = d.reservation /\ Writes(c.order, s)
    BY <1>1, <1>7, <2>1 DEF OrderRow, Write, Writes
  <2> QED BY <1>1, <1>2, <1>3, <1>4, <1>5, <1>7, <2>2, OrphanStatus
<1>8. ASSUME NEW s, Write(p, s), s.payment = c.row.payment, s.reservation = c.row.reservation,
             c.row.payment # NoPayment, s.status \in Shipped => status[s.reservation] = "committed",
             \/ Return(p) /\ status[s.reservation] # "active"
             \/ Goto(p, "release")
      PROVE  OrphanInv'
  <2>1. d.payment = c.row.payment /\ d.reservation = c.row.reservation /\ Writes(c.order, s)
    BY <1>1, <1>4, <1>5, <1>8 DEF RowFollows, Write, Writes
  <2> QED BY <1>1, <1>2, <1>3, <1>4, <1>5, <1>8, <2>1, OrphanStatus
<1>9. CASE ConfirmIfPaid(p)
  <2>1. "confirmed" \in Live /\ "confirmed" \notin Shipped
    BY DEF Live, PreShip, Shipped, Shipping
  <2> QED BY <1>4, <1>6, <1>7, <1>9, <2>1 DEF ConfirmIfPaid
<1>10. CASE ShipIfConfirmed(p)
  <2>1. status[c.row.reservation] = "committed" /\ c.row.payment # NoPayment
    BY <1>1, <1>10 DEF ShipIfConfirmed, At, Follows, AfterPayment
  <2>2. status[d.reservation] = "committed"
    BY <1>4, <1>5, <2>1 DEF RowFollows
  <2> QED BY <1>4, <1>6, <1>7, <1>10, <2>2 DEF ShipIfConfirmed
<1>11. CASE SaveWithOutbox(p)
  <2>1. c.row.payment # NoPayment /\ c.row.status \in Shipped /\ Write(p, c.row) /\ Return(p)
    BY <1>1, <1>11 DEF SaveWithOutbox, At, Read, HoldAt, Follows, AfterPayment
  <2>2. status[c.row.reservation] = "committed"
    BY <1>5, <2>1 DEF RowFollows
  <2> QED BY <1>8, <2>1, <2>2
<1>12. CASE CancelSave(p)
  <2>1. PICK s : s = [c.row EXCEPT !.status = "canceled"]
    OBVIOUS
  <2>2. /\ s.status = "canceled" /\ s.payment = c.row.payment /\ s.reservation = c.row.reservation
        /\ s.status \notin Shipped
    BY <1>1, <2>1 DEF OrderRow, Shipped, Shipping
  <2>3. /\ Write(p, s) /\ c.row.payment # NoPayment
        /\ \/ c.row.status \in Shipping /\ Return(p)
           \/ Goto(p, "release")
    BY <1>1, <1>12, <2>1 DEF CancelSave, At, Read, Follows, AfterPayment
  <2>4. c.row.status \in Shipping => status[s.reservation] = "committed"
    BY <1>5, <2>2 DEF RowFollows, Shipped
  <2> QED BY <1>8, <2>2, <2>3, <2>4
<1>13. CASE CancelIfPending(p)
  <2>1. "canceled" \notin Shipped
    BY DEF Shipped, Shipping
  <2> QED BY <1>4, <1>6, <1>7, <1>13, <2>1 DEF CancelIfPending
<1>14. CASE CancelIfPaidForRefund(p)
  <2>1. "canceled" \notin Shipped /\ "canceled" \notin PreShip
    BY DEF Shipped, Shipping, PreShip
  <2>2. CASE UNCHANGED orders /\ Goto(p, "reconcile") /\ c.at = "cancelPaid"
    <3>1. Follows(p, "reconcile", c.order, c.row, c.hold)
      BY <1>1, <1>5, <2>2 DEF Follows, AfterPayment, Paying, Reinstates
    <3>2. \A x : ~ InHand(c.at, c.row, c.hold, x)
      BY <1>3 DEF InHand
    <3> QED BY <1>1, <1>2, <2>2, <3>1, <3>2, OrphanGoto
  <2> QED BY <1>1, <1>4, <1>6, <1>7, <1>14, <2>1, <2>2
          DEF CancelIfPaidForRefund, CancelsOnRefund, At
<1> QED BY <1>9, <1>10, <1>11, <1>12, <1>13, <1>14

LEMMA OrphanStep ==
  ASSUME SagaInv, MoneyInv, HoldInv, OrphanInv, OnePaymentPerOrder, OneConsumer, NoCancelRequests,
         ~ CallsMayFail, [SagaNext]_sagaVars
  PROVE  OrphanInv'
<1>1. ASSUME NEW p \in Proc, StartRequest(p) PROVE OrphanInv'
  <2>1. ASSUME NEW o \in Order,
               \/ Place(p, o) \/ Confirm(p, o) \/ Ship(p, o) \/ Cancel(p, o) \/ Expire(p, o)
               \/ Deliver(p, o) \/ ConfirmReceipt(p, o) \/ ReportNotReceived(p, o)
               \/ ResolveDisputeFulfilled(p, o) \/ Fulfill(p, o)
        PROVE  OrphanInv'
    BY <2>1, OrphanOfPlacing, OrphanOfStarts, OrphanOfHandlers
  <2>2. ASSUME NEW o \in Order, RequestCancel(p, o) \/ RejectCancelRequest(p, o) PROVE FALSE
    BY <2>2 DEF RequestCancel, RejectCancelRequest, Amend, Free, NoCancelRequests
  <2>3. ASSUME NEW q \in Payment, MarkPaid(p, q) \/ CancelForRefund(p, q) PROVE OrphanInv'
    BY <2>3, OrphanOfMarkPaid, OrphanOfCancelForRefund
  <2> QED BY <1>1, <2>1, <2>2, <2>3 DEF StartRequest
<1>2. ASSUME NEW p \in Proc, Continue(p) PROVE OrphanInv'
  <2>1. CASE ClaimRefused(p)
    <3>1. PICK o \in Order : o = call[p].order
      BY <2>1, CallFacts DEF ClaimRefused, At
    <3> QED BY <2>1, <3>1, OrphanOfStarts DEF ClaimRefused
  <2>2. CASE InsertOrder(p) \/ ClaimUse(p) \/ ConsumeUse(p) \/ ReleaseUse(p)
    BY <2>2, OrphanOfPlacing
  <2>3. CASE \/ RereadPending(p) \/ Reinstate(p) \/ SavePaid(p) \/ RecheckPaid(p)
             \/ UndoReinstate(p)
    BY <2>3, OrphanOfPaying
  <2>4. CASE \/ CommitStock(p) \/ ReleaseStock(p)
             \/ RefundCaptured(p) \/ RegetRefunded(p) \/ ReconcileCancel(p)
    BY <2>4, OrphanOfStock, OrphanOfRefund
  <2>5. CASE \/ ConfirmIfPaid(p) \/ ShipIfConfirmed(p) \/ SaveWithOutbox(p) \/ CancelSave(p)
             \/ CancelIfPending(p) \/ CancelIfPaidForRefund(p)
    BY <2>5, OrphanOfWrites
  <2> QED BY <1>2, <2>1, <2>2, <2>3, <2>4, <2>5 DEF Continue
<1>3. ASSUME NEW p \in Proc, Fail(p) \/ SaveFails(p) PROVE OrphanInv'
  BY <1>3, OrphanOfPaying
<1>4. CASE \E o \in Order : SetInspectionVideo(o)
  BY <1>4, OrphanStill DEF SetInspectionVideo, NoStock, vars
<1>5. CASE PaymentService
  BY <1>5, OrphanStill DEF PaymentService, CreatePayment, PaymentFails, PaymentSucceeds, CancelPayment,
                           PaymentStep, NoStock, vars, NoOrder, orderVars
<1>6. CASE UNCHANGED sagaVars
  BY <1>6, OrphanStill DEF sagaVars
<1> QED BY <1>1, <1>2, <1>3, <1>4, <1>5, <1>6 DEF SagaNext

LEMMA OrphanInit == SagaInit => OrphanInv
<1> SUFFICES ASSUME SagaInit PROVE OrphanInv
  OBVIOUS
<1>1. NewRow.status \notin Shipped /\ NewRow.payment = NoPayment
  BY DEF NewRow, Shipped, Shipping
<1>2. \A p \in Proc : Follows(p, call[p].at, call[p].order, call[p].row, call[p].hold)
  BY <1>1 DEF SagaInit, Follows, NoCall, AfterPayment, Paying, Reinstates
<1>3. OpenHeld
  BY DEF SagaInit, Init, OpenHeld, Open
<1> QED BY <1>1, <1>2, <1>3 DEF SagaInit, OrphanInv

(* While calls do not fail, one process takes the payments that succeeded,  *)
(* each order is paid once and nobody asks for a cancel or rejects one: no  *)
(* open reservation is left without an order that can still ship once the   *)
(* requests are done, for any orders, requests and late or repeated events. *)
THEOREM NoStockIsOrphaned ==
  ASSUME ~ CallsMayFail, OneConsumer, OnePaymentPerOrder, NoCancelRequests
  PROVE  SagaSpec => []NoOrphanHold
<1>1. OrphanInv => NoOrphanHold
  <2>1. SUFFICES ASSUME OrphanInv, \A p \in Proc : At(p, "idle"), NEW x \in Open
                 PROVE  /\ orders[holder[x]].reservation = x
                        /\ orders[holder[x]].status \in {"pending"} \cup PreShip
    BY DEF NoOrphanHold
  <2>2. \A p \in Proc : ~ InHand(call[p].at, call[p].row, call[p].hold, x)
    BY <2>1 DEF At, InHand
  <2> QED BY <2>1, <2>2 DEF OrphanInv, OpenHeld, Kept, Live
<1>2. /\ SagaInv /\ MoneyInv /\ [SagaNext]_sagaVars => MoneyInv'
      /\ SagaInv /\ HoldInv /\ [SagaNext]_sagaVars => HoldInv'
  BY MoneyStep, HoldStep
<1>3. SagaInv /\ MoneyInv /\ HoldInv /\ OrphanInv /\ [SagaNext]_sagaVars => OrphanInv'
  BY OrphanStep
<1> QED BY <1>1, <1>2, <1>3, MoneyInit, HoldInit, OrphanInit, SagaInductive, PTL DEF SagaSpec

----------------------------------------------------------------------------
(* Goods leave once.                                                       *)

\* The steps of the consumer while the order is not known to be paid.
Collecting == Paying \ {"undo"}

\* What was committed is the stock of an order that was paid.
CommittedPaid ==
  \A x \in Committed : \E o \in Order :
    holder[x] = o /\ orders[o].reservation = x /\ orders[o].payment # NoPayment

\* What request p on order o relies on at step `at`, with row r: a payment and its reservation
\* do not change any more, and what it is about to pay, nobody else does.
SameGoods(r, o) ==
  r.payment # NoPayment => orders[o].payment = r.payment /\ orders[o].reservation = r.reservation

GoodsAt(p, at, o, r) ==
  /\ at # "idle" => SameGoods(r, o)
  /\ at \in AfterPayment => r.payment # NoPayment
  /\ at \in Collecting => "markPaid" \in Serves[p] /\ orders[o].payment = NoPayment

GoodsInv == CommittedPaid /\ \A p \in Proc : GoodsAt(p, call[p].at, call[p].order, call[p].row)

\* Request p may write s over the row of order d.
MayPay(p, d, s) ==
  /\ orders[d].payment # NoPayment =>
       s.payment = orders[d].payment /\ s.reservation = orders[d].reservation
  /\ orders[d].payment = NoPayment /\ s.payment # NoPayment => "markPaid" \in Serves[p]

\* Request p moves and maybe writes a row; it commits no stock but that of a paid order.
LEMMA GoodsMove ==
  ASSUME SagaInv, GoodsInv, OneConsumer, NEW p \in Proc, NEW at, NEW o, NEW r, NEW q, NEW h,
         Becomes(p, at, o, r, q, h), GoodsAt(p, at, o, r)',
         UNCHANGED orders \/ \E d \in Order : \E s : Writes(d, s) /\ MayPay(p, d, s),
         \A x \in ResId : status'[x] = "committed" =>
           \/ status[x] = "committed" /\ holder'[x] = holder[x]
           \/ \E d \in Order : /\ holder'[x] = d /\ orders[d].reservation = x
                               /\ orders[d].payment # NoPayment
  PROVE  GoodsInv'
<1>1. \A d \in Order : orders[d].payment # NoPayment =>
        orders'[d].payment = orders[d].payment /\ orders'[d].reservation = orders[d].reservation
  BY DEF Writes, MayPay, SameGoods, SagaInv, SagaTypeOK
<1>2. \A d \in Order : orders[d].payment = NoPayment /\ orders'[d].payment # NoPayment =>
        "markPaid" \in Serves[p]
  BY DEF Writes, MayPay, SagaInv, SagaTypeOK
<1>3. CommittedPaid'
  <2>1. ASSUME NEW x \in ResId, status'[x] = "committed"
        PROVE  \E d \in Order : /\ holder'[x] = d /\ orders[d].reservation = x
                                /\ orders[d].payment # NoPayment
    BY <2>1 DEF GoodsInv, CommittedPaid, Committed
  <2> QED BY <1>1, <2>1 DEF CommittedPaid, Committed
<1>4. ASSUME NEW u \in Proc, u # p PROVE GoodsAt(u, call[u].at, call[u].order, call[u].row)'
  <2>1. PICK k : k = call[u] /\ k = call'[u] /\ CallOK(k) /\ GoodsAt(u, k.at, k.order, k.row)
    BY <1>4 DEF Becomes, Keeps, GoodsInv, SagaInv
  <2>2. CASE k.at = "idle"
    BY <2>1, <2>2 DEF GoodsAt, AfterPayment, Collecting, Paying
  <2>3. CASE k.at # "idle"
    <3>1. k.order \in Order
      BY <2>1, <2>3 DEF CallOK
    <3>2. k.row.payment # NoPayment =>
            orders'[k.order].payment = k.row.payment /\ orders'[k.order].reservation = k.row.reservation
      BY <1>1, <2>1, <2>3, <3>1 DEF GoodsAt, SameGoods
    <3>3. k.at \in Collecting => orders'[k.order].payment = NoPayment
      BY <1>2, <1>4, <2>1, <3>1 DEF GoodsAt, OneConsumer
    <3> QED BY <2>1, <3>2, <3>3 DEF GoodsAt, SameGoods
  <2> QED BY <2>2, <2>3
<1>5. GoodsAt(p, call[p].at, call[p].order, call[p].row)'
  BY DEF Becomes, GoodsAt, SameGoods
<1> QED BY <1>3, <1>4, <1>5 DEF GoodsInv

\* No stock is committed.
LEMMA NoneCommitted ==
  ASSUME SagaInv, \/ NoStock
                  \/ \E o \in Order : Reserve(o)
                  \/ \E x \in ResId : FinalizeReservation(x, "released") /\ UNCHANGED holder
  PROVE  \A x \in ResId : status'[x] = "committed" => status[x] = "committed" /\ holder'[x] = holder[x]
<1>1. CASE NoStock
  BY <1>1 DEF NoStock, vars
<1>2. ASSUME NEW o \in Order, Reserve(o)
      PROVE  \A x \in ResId : status'[x] = "committed" => status[x] = "committed" /\ holder'[x] = holder[x]
  <2>1. /\ status' = [status EXCEPT ![seq + 1] = "active"] /\ holder' = [holder EXCEPT ![seq + 1] = o]
        /\ TypeOK /\ holder \in [ResId -> 0..NumOrders]
    BY <1>2 DEF Reserve, CreateReservation, SagaInv, SagaTypeOK
  <2> QED BY <2>1 DEF TypeOK
<1>3. ASSUME NEW y \in ResId, FinalizeReservation(y, "released"), UNCHANGED holder
      PROVE  \A x \in ResId : status'[x] = "committed" => status[x] = "committed" /\ holder'[x] = holder[x]
  BY <1>3 DEF FinalizeReservation, SagaInv, TypeOK
<1> QED BY <1>1, <1>2, <1>3

LEMMA GoodsFacts ==
  ASSUME SagaInv, MoneyInv, HoldInv, GoodsInv, NEW p \in Proc
  PROVE  \E c \in CallRecord :
           /\ c = call[p] /\ CallOK(c) /\ c.row \in OrderRow
           /\ MoneyAt(c.at, c.order, c.row, c.payment)
           /\ HoldAt(p, c.at, c.order, c.row, c.hold)
           /\ GoodsAt(p, c.at, c.order, c.row)
           /\ c.at # "idle" =>
                /\ c.order \in Order
                /\ \E d \in OrderRow : d = orders[c.order] /\ d = Db(p) /\ RowMoney(d, c.order)
BY CallFacts DEF MoneyInv, CallMoney, HoldInv, HoldSound, GoodsInv, Db

LEMMA SameAsDb == \A o \in Order : SameGoods(orders[o], o)
BY DEF SameGoods

\* A request moves, and neither a row nor what was committed changes.
LEMMA GoodsCall ==
  ASSUME SagaInv, GoodsInv, OneConsumer, UNCHANGED orders, NEW p \in Proc, NEW c, c = call[p],
         \/ NoStock
         \/ \E o \in Order : Reserve(o)
         \/ \E x \in ResId : FinalizeReservation(x, "released") /\ UNCHANGED holder,
         NEW at, NEW o, NEW r, NEW q, NEW h, Becomes(p, at, o, r, q, h), GoodsAt(p, at, o, r)
  PROVE  GoodsInv'
<1>1. GoodsAt(p, at, o, r)'
  BY DEF GoodsAt, SameGoods
<1> QED BY <1>1, NoneCommitted, GoodsMove

LEMMA GoodsReturn ==
  ASSUME SagaInv, GoodsInv, OneConsumer, UNCHANGED orders, NEW p \in Proc, Return(p),
         \/ NoStock
         \/ \E x \in ResId : FinalizeReservation(x, "released") /\ UNCHANGED holder
  PROVE  GoodsInv'
<1>1. Becomes(p, "idle", 0, NewRow, NoPayment, 0)
  BY Shapes
<1>2. GoodsAt(p, "idle", 0, NewRow)
  BY DEF GoodsAt, AfterPayment, Collecting, Paying
<1> QED BY <1>1, <1>2, GoodsCall

LEMMA GoodsGoto ==
  ASSUME SagaInv, GoodsInv, OneConsumer, UNCHANGED orders, NEW p \in Proc, NEW c, c = call[p],
         \/ NoStock
         \/ \E x \in ResId : FinalizeReservation(x, "released") /\ UNCHANGED holder,
         NEW at, NEW r, (r = c.row /\ Goto(p, at)) \/ GotoWith(p, at, r), GoodsAt(p, at, c.order, r)
  PROVE  GoodsInv'
<1>1. Becomes(p, at, c.order, r, c.payment, c.hold)
  BY Shapes
<1> QED BY <1>1, GoodsCall

LEMMA GoodsStart ==
  ASSUME SagaInv, GoodsInv, OneConsumer, OnlyCall, NEW p \in Proc,
         NEW o \in Order, NEW at, NEW r, Start(p, o, at, r), SameGoods(r, o),
         at \in {"confirm", "commit", "cancelPending", "refund", "cancelRefunded", "save"},
         at \in AfterPayment => r.payment # NoPayment
  PROVE  GoodsInv'
<1>1. Becomes(p, at, o, r, NoPayment, 0)
  BY Shapes
<1>2. GoodsAt(p, at, o, r)
  BY DEF GoodsAt, Collecting, Paying
<1> QED BY <1>1, <1>2, GoodsCall DEF OnlyCall, NoOrder, orderVars

\* Neither rows nor requests nor the stock's reservations change.
LEMMA GoodsStill ==
  ASSUME GoodsInv, UNCHANGED <<orders, status, holder, call>>
  PROVE  GoodsInv'
BY DEF GoodsInv, CommittedPaid, Committed, GoodsAt, SameGoods

LEMMA GoodsOfPlacing ==
  ASSUME SagaInv, MoneyInv, HoldInv, GoodsInv, OneConsumer, NEW p \in Proc,
         \/ \E o \in Order : Place(p, o)
         \/ InsertOrder(p) \/ ClaimUse(p) \/ ConsumeUse(p) \/ ReleaseUse(p)
  PROVE  GoodsInv'
<1>1. PICK c \in CallRecord :
        /\ c = call[p] /\ CallOK(c) /\ HoldAt(p, c.at, c.order, c.row, c.hold)
        /\ GoodsAt(p, c.at, c.order, c.row)
        /\ c.at # "idle" => /\ c.order \in Order
                            /\ \E d \in OrderRow : d = orders[c.order] /\ RowMoney(d, c.order)
  BY GoodsFacts
<1>2. ASSUME NEW o \in Order, Place(p, o) PROVE GoodsInv'
  <2>1. Becomes(p, "insert", o, NewRow, NoPayment, seq + 1)
    BY <1>2 DEF Place, Becomes, Keeps, NoCall, SagaInv, SagaTypeOK
  <2>2. GoodsAt(p, "insert", o, NewRow)
    BY DEF GoodsAt, SameGoods, NewRow, AfterPayment, Collecting, Paying
  <2>3. UNCHANGED orders /\ Reserve(o)
    BY <1>2 DEF Place, OnlyStock, NoOrder, orderVars
  <2> QED BY <2>1, <2>2, <2>3, GoodsCall
<1>3. CASE InsertOrder(p)
  <2>1. /\ c.order \in Order /\ NoStock /\ Goto(p, "claim") /\ c.at = "insert"
        /\ orders[c.order].status = "new"
    BY <1>1, <1>3 DEF InsertOrder, At, OnlyRow, HoldAt
  <2>2. PICK s : s = [NewRow EXCEPT !.status = "pending", !.reservation = c.hold]
    OBVIOUS
  <2>3. Writes(c.order, s) /\ s.payment = NoPayment
    BY <1>1, <1>3, <2>2 DEF InsertOrder, Write, Writes, NewRow
  <2>4. Becomes(p, "claim", c.order, c.row, c.payment, c.hold)
    BY <1>1, <2>1, Shapes
  <2>5. orders[c.order].payment = NoPayment
    BY <1>1, <2>1 DEF RowMoney
  <2>6. MayPay(p, c.order, s)
    BY <2>3, <2>5 DEF MayPay
  <2>7. c.row.payment = NoPayment
    BY <1>1, <2>1, <2>5 DEF GoodsAt, SameGoods
  <2>8. GoodsAt(p, "claim", c.order, c.row)'
    BY <2>7 DEF GoodsAt, SameGoods, AfterPayment, Collecting, Paying
  <2> QED BY <2>1, <2>3, <2>4, <2>6, <2>8, NoneCommitted, GoodsMove
<1>4. CASE ClaimUse(p) \/ ConsumeUse(p) \/ ReleaseUse(p)
  BY <1>4, GoodsReturn DEF ClaimUse, ConsumeUse, ReleaseUse
<1> QED BY <1>2, <1>3, <1>4

LEMMA GoodsOfMarkPaid ==
  ASSUME SagaInv, MoneyInv, GoodsInv, OnePaymentPerOrder, OneConsumer,
         NEW p \in Proc, NEW q \in Payment, MarkPaid(p, q)
  PROVE  GoodsInv'
<1>1. PICK o \in Order : o = PaymentOrder[q]
  BY PaymentAssumption
<1>2. PICK r \in OrderRow : r = orders[o] /\ RowMoney(r, o)
  BY DEF MoneyInv, SagaInv, SagaTypeOK
<1>3. PICK at \in {"reread", "reinstate"} : Becomes(p, at, o, r, q, 0)
  BY <1>1, <1>2 DEF MarkPaid, Becomes, Keeps, NoCall, SagaInv, SagaTypeOK
<1>4. /\ ~ Applied(r, q) /\ r.status \in {"pending", "canceled"}
      /\ "markPaid" \in Serves[p] /\ NoStock /\ UNCHANGED orders
  BY <1>1, <1>2 DEF MarkPaid, Free, OnlyCall, NoOrder, orderVars
<1>5. r.payment = NoPayment
  BY <1>1, <1>2, <1>4 DEF Applied, RowMoney, Captured, OnePaymentPerOrder
<1>6. GoodsAt(p, at, o, r)
  BY <1>2, <1>4, <1>5 DEF GoodsAt, SameGoods, AfterPayment
<1> QED BY <1>3, <1>4, <1>6, GoodsCall

LEMMA GoodsOfPaying ==
  ASSUME SagaInv, MoneyInv, HoldInv, GoodsInv, OnePaymentPerOrder, OneConsumer, NEW p \in Proc,
         \/ RereadPending(p) \/ Reinstate(p) \/ SavePaid(p) \/ RecheckPaid(p)
         \/ UndoReinstate(p) \/ SaveFails(p) \/ Fail(p)
  PROVE  GoodsInv'
<1>1. PICK c \in CallRecord :
        /\ c = call[p] /\ CallOK(c) /\ MoneyAt(c.at, c.order, c.row, c.payment)
        /\ GoodsAt(p, c.at, c.order, c.row)
        /\ c.at # "idle" =>
             /\ c.order \in Order
             /\ \E d \in OrderRow : d = orders[c.order] /\ d = Db(p) /\ RowMoney(d, c.order)
  BY GoodsFacts
<1>2. CASE RereadPending(p) \/ RecheckPaid(p)
  <2>1. /\ c.at \in Collecting /\ c.at # "idle" /\ NoStock /\ UNCHANGED orders /\ c.order \in Order
    BY <1>1, <1>2 DEF RereadPending, RecheckPaid, At, OnlyCall, NoOrder, orderVars, Collecting, Paying
  <2>2. PICK d : d = orders[c.order] /\ d = Db(p) /\ d.payment = NoPayment
    BY <1>1, <2>1 DEF GoodsAt
  <2>3. SameGoods(d, c.order)
    BY <2>2 DEF SameGoods
  <2>4. \A at \in {"reinstate", "reinstateAgain"} : GoodsAt(p, at, c.order, d)
    BY <1>1, <2>1, <2>3 DEF GoodsAt, Collecting, Paying, AfterPayment
  <2>5. \A at \in {"savePaid", "undo"} : GoodsAt(p, at, c.order, c.row)
    BY <1>1, <2>1 DEF GoodsAt, Collecting, Paying, AfterPayment
  <2>6. \/ Return(p)
        \/ \E at \in {"reinstate", "reinstateAgain"} : GotoWith(p, at, d)
        \/ \E at \in {"savePaid", "undo"} : Goto(p, at)
    BY <1>1, <1>2, <2>2 DEF RereadPending, RecheckPaid
  <2> QED BY <1>1, <2>1, <2>4, <2>5, <2>6, GoodsReturn, GoodsGoto
<1>3. CASE Reinstate(p)
  <2>1. /\ UNCHANGED orders /\ c.at \in {"reinstate", "reinstateAgain"} /\ c.order \in Order
    BY <1>1, <1>3 DEF Reinstate, OnlyStock, NoOrder, orderVars
  <2>2. CASE Return(p) /\ NoStock
    BY <2>1, <2>2, GoodsReturn
  <2>3. CASE /\ Reserve(c.order)
             /\ call' = [call EXCEPT ![p].hold = seq + 1,
                                     ![p].at = IF @ = "reinstate" THEN "savePaid" ELSE "savePaidAgain"]
    <3>1. PICK h : h = seq + 1
      OBVIOUS
    <3>2. PICK at \in {"savePaid", "savePaidAgain"} : Becomes(p, at, c.order, c.row, c.payment, h)
      BY <1>1, <2>3, <3>1 DEF Becomes, Keeps, SagaInv, SagaTypeOK, CallRecord
    <3>3. GoodsAt(p, at, c.order, c.row)
      BY <1>1, <2>1 DEF GoodsAt, Collecting, Paying, AfterPayment
    <3> QED BY <1>1, <2>1, <2>3, <3>2, <3>3, GoodsCall
  <2> QED BY <1>1, <1>3, <2>2, <2>3 DEF Reinstate
<1>4. CASE SavePaid(p)
  <2>1. /\ NoStock /\ c.at \in {"savePaid", "savePaidAgain"} /\ c.order \in Order
    BY <1>1, <1>4 DEF SavePaid, OnlyRow
  <2>2. PICK d \in OrderRow : d = orders[c.order] /\ d = Db(p)
    BY <1>1, <2>1
  <2>3. d.payment = NoPayment /\ c.row.payment = NoPayment /\ "markPaid" \in Serves[p]
    BY <1>1, <2>1, <2>2 DEF GoodsAt, SameGoods, Collecting, Paying
  <2>4. ASSUME NEW at \in {"recheck", "undo"}, Goto(p, at), UNCHANGED orders PROVE GoodsInv'
    <3>1. GoodsAt(p, at, c.order, c.row)
      BY <1>1, <2>1, <2>4 DEF GoodsAt, Collecting, Paying, AfterPayment
    <3> QED BY <1>1, <2>1, <2>4, <3>1, GoodsGoto
  <2>5. ASSUME Goto(p, "consume"), NEW s, Write(p, s) PROVE GoodsInv'
    <3>1. Writes(c.order, s)
      BY <1>1, <2>5 DEF Write, Writes
    <3>2. Becomes(p, "consume", c.order, c.row, c.payment, c.hold)
      BY <1>1, <2>5, Shapes
    <3>3. MayPay(p, c.order, s)
      BY <2>2, <2>3 DEF MayPay
    <3>4. GoodsAt(p, "consume", c.order, c.row)'
      BY <2>3 DEF GoodsAt, SameGoods, AfterPayment, Collecting, Paying
    <3> QED BY <2>1, <3>1, <3>2, <3>3, <3>4, NoneCommitted, GoodsMove
  <2> QED BY <1>1, <1>4, <2>4, <2>5 DEF SavePaid
<1>5. CASE UndoReinstate(p)
  <2>1. UNCHANGED orders /\ Return(p)
    BY <1>5 DEF UndoReinstate, OnlyStock, NoOrder, orderVars
  <2>2. NoStock \/ \E x \in ResId : FinalizeReservation(x, "released") /\ UNCHANGED holder
    BY <1>1, <1>5 DEF UndoReinstate, At, Release, CallOK, Owns
  <2> QED BY <2>1, <2>2, GoodsReturn
<1>6. CASE SaveFails(p)
  <2>1. OnlyCall /\ c.at # "idle" /\ Goto(p, "undo")
    BY <1>1, <1>6 DEF SaveFails
  <2>2. GoodsAt(p, "undo", c.order, c.row)
    BY <1>1, <2>1 DEF GoodsAt, Collecting, AfterPayment
  <2> QED BY <1>1, <2>1, <2>2, GoodsGoto DEF OnlyCall, NoOrder, orderVars
<1>7. CASE Fail(p)
  BY <1>7, GoodsReturn DEF Fail, OnlyCall, NoOrder, orderVars
<1> QED BY <1>2, <1>3, <1>4, <1>5, <1>6, <1>7

LEMMA GoodsOfStock ==
  ASSUME SagaInv, MoneyInv, HoldInv, GoodsInv, OneConsumer, NEW p \in Proc,
         CommitStock(p) \/ ReleaseStock(p)
  PROVE  GoodsInv'
<1>1. PICK c \in CallRecord :
        /\ c = call[p] /\ CallOK(c) /\ GoodsAt(p, c.at, c.order, c.row)
        /\ c.at # "idle" => c.order \in Order
  BY GoodsFacts
<1>2. PICK x : x = c.row.reservation
  OBVIOUS
<1>3. /\ c.at \in {"commit", "release"} /\ UNCHANGED orders /\ c.row = Read(p)
      /\ c.order \in Order /\ x \in ResId /\ holder[x] = c.order
  BY <1>1, <1>2 DEF CommitStock, ReleaseStock, At, OnlyStock, NoOrder, orderVars, Read, CallOK, RowOK,
                    Owns
<1>4. \A at \in {"ship", "releaseUse"} :
        (at = "ship" => c.at = "commit") => GoodsAt(p, at, c.order, c.row)
  BY <1>1, <1>3 DEF GoodsAt, AfterPayment, Collecting, Paying
<1>5. CASE CommitStock(p)
  <2>1. c.at = "commit" /\ c.row.payment # NoPayment /\ SameGoods(c.row, c.order)
    BY <1>1, <1>5 DEF CommitStock, At, GoodsAt, AfterPayment
  <2>2. CASE FinalizeReservation(x, "committed") /\ UNCHANGED holder /\ Goto(p, "ship")
    <3>1. Becomes(p, "ship", c.order, c.row, c.payment, c.hold)
      BY <1>1, <2>2, Shapes
    <3>2. status' = [status EXCEPT ![x] = "committed"] /\ holder' = holder
      BY <2>2 DEF FinalizeReservation
    <3>3. \A y \in ResId : status'[y] = "committed" =>
            \/ status[y] = "committed" /\ holder'[y] = holder[y]
            \/ \E d \in Order : /\ holder'[y] = d /\ orders[d].reservation = y
                                /\ orders[d].payment # NoPayment
      BY <1>2, <1>3, <2>1, <3>2 DEF SameGoods, SagaInv, TypeOK
    <3>4. GoodsAt(p, "ship", c.order, c.row)'
      BY <1>3, <2>1 DEF GoodsAt, SameGoods, AfterPayment, Collecting, Paying
    <3> QED BY <1>3, <3>1, <3>3, <3>4, GoodsMove
  <2>3. CASE NoStock /\ Goto(p, "ship")
    BY <1>1, <1>3, <1>4, <2>1, <2>3, GoodsGoto
  <2>4. CASE NoStock /\ Return(p)
    BY <1>3, <2>4, GoodsReturn
  <2> QED BY <1>2, <1>3, <1>5, <2>2, <2>3, <2>4 DEF CommitStock
<1>6. CASE ReleaseStock(p)
  <2>1. Goto(p, "releaseUse") /\ c.row = Read(p)
    BY <1>3, <1>6 DEF ReleaseStock
  <2>2. NoStock \/ \E y \in ResId : FinalizeReservation(y, "released") /\ UNCHANGED holder
    BY <1>2, <1>3, <1>6 DEF ReleaseStock, Release
  <2> QED BY <1>1, <1>3, <1>4, <2>1, <2>2, GoodsGoto
<1> QED BY <1>5, <1>6

LEMMA GoodsOfStarts ==
  ASSUME SagaInv, MoneyInv, GoodsInv, OneConsumer, NEW p \in Proc, NEW o \in Order,
         \/ Confirm(p, o) \/ Ship(p, o) \/ Cancel(p, o) \/ Expire(p, o)
         \/ At(p, "claim") /\ BeginCancel(p, o)
  PROVE  GoodsInv'
<1>1. PICK r \in OrderRow : r = orders[o] /\ RowMoney(r, o)
  BY DEF MoneyInv, SagaInv, SagaTypeOK
<1>2. SameGoods(r, o)
  BY <1>1, SameAsDb
<1>3. OnlyCall
  BY DEF Confirm, Ship, Cancel, BeginCancel, Expire
<1>4. \E at \in {"confirm", "commit", "cancelPending", "refund"} :
        Start(p, o, at, r) /\ (at \in AfterPayment => r.payment # NoPayment)
  <2>1. r.status = "confirmed" => r.payment # NoPayment
    BY <1>1 DEF RowMoney, PreShip
  <2>2. Cancelable(r.status) /\ r.status # "pending" => r.payment # NoPayment
    BY <1>1 DEF Cancelable, RowMoney, Final, Shipped, OrderRow, OrderStatus
  <2>3. {"confirm", "cancelPending"} \cap AfterPayment = {}
    BY DEF AfterPayment
  <2> QED BY <1>1, <2>1, <2>2, <2>3 DEF Confirm, Ship, Cancel, BeginCancel, Expire
<1> QED BY <1>2, <1>3, <1>4, GoodsStart

LEMMA GoodsOfHandlers ==
  ASSUME SagaInv, MoneyInv, GoodsInv, OneConsumer, NEW p \in Proc, NEW o \in Order,
         \/ Deliver(p, o) \/ ConfirmReceipt(p, o) \/ ReportNotReceived(p, o)
         \/ ResolveDisputeFulfilled(p, o) \/ Fulfill(p, o)
  PROVE  GoodsInv'
<1>1. PICK r \in OrderRow : r = orders[o] /\ RowMoney(r, o)
  BY DEF MoneyInv, SagaInv, SagaTypeOK
<1>2. ASSUME NEW handler, NEW from, NEW s, Amend(p, handler, o, from, s), from \subseteq Shipped,
             s.payment = r.payment, s.reservation = r.reservation
      PROVE  GoodsInv'
  <2>1. OnlyCall /\ Start(p, o, "save", s) /\ r.status \in Shipped
    BY <1>1, <1>2 DEF Amend
  <2>2. SameGoods(s, o) /\ s.payment # NoPayment
    BY <1>1, <1>2, <2>1 DEF SameGoods, RowMoney
  <2> QED BY <2>1, <2>2, GoodsStart
<1>3. ASSUME NEW handler, NEW from, NEW st, from \subseteq Shipped,
             Amend(p, handler, o, from, [r EXCEPT !.status = st])
      PROVE  GoodsInv'
  <2>1. PICK s : s = [r EXCEPT !.status = st]
    OBVIOUS
  <2>2. s.payment = r.payment /\ s.reservation = r.reservation
    BY <2>1 DEF OrderRow
  <2> QED BY <1>2, <1>3, <2>1, <2>2
<1>4. CASE ReportNotReceived(p, o)
  <2>1. PICK s : s = [r EXCEPT !.status = "disputed", !.requested = FALSE]
    OBVIOUS
  <2>2. s.payment = r.payment /\ s.reservation = r.reservation
    BY <2>1 DEF OrderRow
  <2>3. Amend(p, "dispute", o, {"delivered"}, s)
    BY <1>1, <1>4, <2>1 DEF ReportNotReceived
  <2>4. {"delivered"} \subseteq Shipped
    BY DEF Shipped, Shipping
  <2> QED BY <1>2, <2>2, <2>3, <2>4
<1>5. CASE Deliver(p, o) \/ ConfirmReceipt(p, o) \/ ResolveDisputeFulfilled(p, o) \/ Fulfill(p, o)
  <2>1. \E handler, st :
          \E from \in {{"in_transit"}, {"delivered"}, {"disputed"}, {"delivered", "disputed"}} :
            Amend(p, handler, o, from, [r EXCEPT !.status = st])
    BY <1>1, <1>5 DEF Deliver, ConfirmReceipt, ResolveDisputeFulfilled, Fulfill
  <2>2. \A from \in {{"in_transit"}, {"delivered"}, {"disputed"}, {"delivered", "disputed"}} :
          from \subseteq Shipped
    BY DEF Shipped, Shipping
  <2> QED BY <1>3, <2>1, <2>2
<1> QED BY <1>4, <1>5

LEMMA GoodsOfRefund ==
  ASSUME SagaInv, MoneyInv, HoldInv, GoodsInv, OneConsumer, NEW p \in Proc,
         RefundCaptured(p) \/ RegetRefunded(p) \/ ReconcileCancel(p)
  PROVE  GoodsInv'
<1>1. PICK c \in CallRecord :
        /\ c = call[p] /\ GoodsAt(p, c.at, c.order, c.row)
        /\ c.at # "idle" => /\ c.order \in Order
                            /\ \E d \in OrderRow : d = orders[c.order] /\ d = Db(p)
  BY GoodsFacts
<1>2. /\ NoStock /\ UNCHANGED orders /\ c.at \in {"refund", "reget", "reconcile"}
      /\ c.order \in Order /\ c.row.payment # NoPayment /\ SameGoods(c.row, c.order)
  BY <1>1 DEF RefundCaptured, RegetRefunded, ReconcileCancel, At, OnlyCall, NoOrder, orderVars, GoodsAt,
              AfterPayment
<1>3. PICK d \in OrderRow : d = Db(p) /\ d = orders[c.order]
  BY <1>1, <1>2
<1>4. SameGoods(d, c.order) /\ d.payment # NoPayment
  BY <1>2, <1>3 DEF SameGoods
<1>5. GoodsAt(p, "reget", c.order, c.row)
  BY <1>2 DEF GoodsAt, Collecting, Paying
<1>6. \A at \in {"cancelPaid", "cancelSave"} : GoodsAt(p, at, c.order, d)
  BY <1>4 DEF GoodsAt, Collecting, Paying
<1>7. \/ Return(p) \/ Goto(p, "reget")
      \/ \E at \in {"cancelPaid", "cancelSave"} : GotoWith(p, at, d)
  BY <1>3 DEF RefundCaptured, RegetRefunded, ReconcileCancel
<1> QED BY <1>1, <1>2, <1>5, <1>6, <1>7, GoodsReturn, GoodsGoto

LEMMA GoodsOfCancelForRefund ==
  ASSUME SagaInv, GoodsInv, OneConsumer, NEW p \in Proc, NEW q \in Payment, CancelForRefund(p, q)
  PROVE  GoodsInv'
<1>1. PICK o \in Order : o = PaymentOrder[q]
  BY PaymentAssumption
<1>2. PICK r : r = orders[o] /\ SameGoods(r, o)
  BY SameAsDb
<1>3. CASE UNCHANGED call
  BY <1>3, GoodsStill DEF CancelForRefund, NoStock, vars, NoOrder, orderVars
<1>4. CASE CancelsOnRefund(r, q) /\ Start(p, o, "cancelRefunded", r) /\ UNCHANGED told
  <2>1. r.payment # NoPayment /\ OnlyCall
    BY <1>4, PaymentAssumption DEF CancelsOnRefund, CancelForRefund, OnlyCall
  <2> QED BY <1>2, <1>4, <2>1, GoodsStart
<1> QED BY <1>1, <1>2, <1>3, <1>4 DEF CancelForRefund

\* A row is written with the payment and the reservation it has, and the request ends or goes on
\* to give back what the order held.
LEMMA GoodsWrite ==
  ASSUME SagaInv, GoodsInv, OneConsumer, NoStock, NEW p \in Proc, NEW c, c = call[p],
         c.order \in Order, NEW s, Writes(c.order, s),
         s.payment = orders[c.order].payment, s.reservation = orders[c.order].reservation,
         \/ Return(p)
         \/ \E r : /\ (r = c.row /\ Goto(p, "release")) \/ GotoWith(p, "release", r)
                   /\ SameGoods(r, c.order)
  PROVE  GoodsInv'
<1>1. MayPay(p, c.order, s)
  BY DEF MayPay
<1>2. CASE Return(p)
  <2>1. Becomes(p, "idle", 0, NewRow, NoPayment, 0)
    BY <1>2, Shapes
  <2>2. GoodsAt(p, "idle", 0, NewRow)'
    BY DEF GoodsAt, AfterPayment, Collecting, Paying
  <2> QED BY <1>1, <2>1, <2>2, NoneCommitted, GoodsMove
<1>3. ASSUME NEW r, (r = c.row /\ Goto(p, "release")) \/ GotoWith(p, "release", r),
             SameGoods(r, c.order)
      PROVE  GoodsInv'
  <2>1. Becomes(p, "release", c.order, r, c.payment, c.hold)
    BY <1>3, Shapes
  <2>2. orders'[c.order] = s
    BY DEF Writes, SagaInv, SagaTypeOK
  <2>3. GoodsAt(p, "release", c.order, r)'
    BY <1>3, <2>2 DEF GoodsAt, SameGoods, AfterPayment, Collecting, Paying
  <2> QED BY <1>1, <2>1, <2>3, NoneCommitted, GoodsMove
<1> QED BY <1>2, <1>3

LEMMA GoodsOfWrites ==
  ASSUME SagaInv, MoneyInv, HoldInv, GoodsInv, OneConsumer, NEW p \in Proc,
         \/ ConfirmIfPaid(p) \/ ShipIfConfirmed(p) \/ SaveWithOutbox(p) \/ CancelSave(p)
         \/ CancelIfPending(p) \/ CancelIfPaidForRefund(p)
  PROVE  GoodsInv'
<1>1. PICK c \in CallRecord :
        /\ c = call[p] /\ c.row \in OrderRow /\ GoodsAt(p, c.at, c.order, c.row)
        /\ c.at # "idle" => /\ c.order \in Order
                            /\ \E d \in OrderRow : d = orders[c.order] /\ d = Db(p)
  BY GoodsFacts
<1>2. /\ NoStock /\ c.order \in Order
      /\ c.at \in {"confirm", "ship", "save", "cancelSave", "cancelPending", "cancelPaid", "cancelRefunded"}
  BY <1>1 DEF ConfirmIfPaid, ShipIfConfirmed, SaveWithOutbox, CancelSave, CancelIfPending,
              CancelIfPaidForRefund, At, OnlyRow
<1>3. PICK d \in OrderRow : d = Db(p) /\ d = orders[c.order]
  BY <1>1, <1>2
<1>4. SameGoods(d, c.order) /\ SameGoods(c.row, c.order)
  BY <1>1, <1>2, <1>3 DEF SameGoods, GoodsAt
<1>5. CASE UNCHANGED orders /\ Return(p)
  BY <1>2, <1>5, GoodsReturn
<1>6. ASSUME NEW st, Write(p, [d EXCEPT !.status = st]), Return(p) \/ GotoWith(p, "release", d)
      PROVE  GoodsInv'
  <2>1. PICK s : s = [d EXCEPT !.status = st]
    OBVIOUS
  <2>2. s.payment = d.payment /\ s.reservation = d.reservation /\ Writes(c.order, s)
    BY <1>1, <1>6, <2>1 DEF OrderRow, Write, Writes
  <2> QED BY <1>1, <1>2, <1>3, <1>4, <1>6, <2>2, GoodsWrite
<1>7. ASSUME NEW s, Write(p, s), s.payment = c.row.payment, s.reservation = c.row.reservation,
             c.row.payment # NoPayment, Return(p) \/ Goto(p, "release")
      PROVE  GoodsInv'
  <2>1. /\ s.payment = orders[c.order].payment /\ s.reservation = orders[c.order].reservation
        /\ Writes(c.order, s)
    BY <1>1, <1>4, <1>7 DEF SameGoods, Write, Writes
  <2> QED BY <1>1, <1>2, <1>4, <1>7, <2>1, GoodsWrite
<1>8. CASE ConfirmIfPaid(p) \/ ShipIfConfirmed(p) \/ CancelIfPending(p)
  BY <1>3, <1>5, <1>6, <1>8 DEF ConfirmIfPaid, ShipIfConfirmed, CancelIfPending
<1>9. CASE SaveWithOutbox(p)
  <2>1. c.row.payment # NoPayment /\ Write(p, c.row) /\ Return(p)
    BY <1>1, <1>9 DEF SaveWithOutbox, At, Read, GoodsAt, AfterPayment
  <2> QED BY <1>7, <2>1
<1>10. CASE CancelSave(p)
  <2>1. PICK s : s = [c.row EXCEPT !.status = "canceled"]
    OBVIOUS
  <2>2. s.payment = c.row.payment /\ s.reservation = c.row.reservation
    BY <1>1, <2>1 DEF OrderRow
  <2>3. Write(p, s) /\ c.row.payment # NoPayment /\ (Return(p) \/ Goto(p, "release"))
    BY <1>1, <1>10, <2>1 DEF CancelSave, At, Read, GoodsAt, AfterPayment
  <2> QED BY <1>7, <2>2, <2>3
<1>11. CASE CancelIfPaidForRefund(p)
  <2>1. CASE UNCHANGED orders /\ Goto(p, "reconcile")
    <3>1. c.row.payment # NoPayment
      BY <1>1, <1>11 DEF CancelIfPaidForRefund, GoodsAt, AfterPayment
    <3>2. GoodsAt(p, "reconcile", c.order, c.row)
      BY <1>4, <3>1 DEF GoodsAt, AfterPayment, Collecting, Paying
    <3> QED BY <1>1, <1>2, <2>1, <3>2, GoodsGoto
  <2> QED BY <1>3, <1>5, <1>6, <1>11, <2>1 DEF CancelIfPaidForRefund
<1> QED BY <1>8, <1>9, <1>10, <1>11

LEMMA GoodsStep ==
  ASSUME SagaInv, MoneyInv, HoldInv, GoodsInv, OnePaymentPerOrder, OneConsumer, NoCancelRequests,
         [SagaNext]_sagaVars
  PROVE  GoodsInv'
<1>1. ASSUME NEW p \in Proc, StartRequest(p) PROVE GoodsInv'
  <2>1. ASSUME NEW o \in Order,
               \/ Place(p, o) \/ Confirm(p, o) \/ Ship(p, o) \/ Cancel(p, o) \/ Expire(p, o)
               \/ Deliver(p, o) \/ ConfirmReceipt(p, o) \/ ReportNotReceived(p, o)
               \/ ResolveDisputeFulfilled(p, o) \/ Fulfill(p, o)
        PROVE  GoodsInv'
    BY <2>1, GoodsOfPlacing, GoodsOfStarts, GoodsOfHandlers
  <2>2. ASSUME NEW o \in Order, RequestCancel(p, o) \/ RejectCancelRequest(p, o) PROVE FALSE
    BY <2>2 DEF RequestCancel, RejectCancelRequest, Amend, Free, NoCancelRequests
  <2>3. ASSUME NEW q \in Payment, MarkPaid(p, q) \/ CancelForRefund(p, q) PROVE GoodsInv'
    BY <2>3, GoodsOfMarkPaid, GoodsOfCancelForRefund
  <2> QED BY <1>1, <2>1, <2>2, <2>3 DEF StartRequest
<1>2. ASSUME NEW p \in Proc, Continue(p) PROVE GoodsInv'
  <2>1. CASE ClaimRefused(p)
    <3>1. PICK o \in Order : o = call[p].order
      BY <2>1, CallFacts DEF ClaimRefused, At
    <3> QED BY <2>1, <3>1, GoodsOfStarts DEF ClaimRefused
  <2>2. CASE InsertOrder(p) \/ ClaimUse(p) \/ ConsumeUse(p) \/ ReleaseUse(p)
    BY <2>2, GoodsOfPlacing
  <2>3. CASE \/ RereadPending(p) \/ Reinstate(p) \/ SavePaid(p) \/ RecheckPaid(p)
             \/ UndoReinstate(p)
    BY <2>3, GoodsOfPaying
  <2>4. CASE \/ CommitStock(p) \/ ReleaseStock(p)
             \/ RefundCaptured(p) \/ RegetRefunded(p) \/ ReconcileCancel(p)
    BY <2>4, GoodsOfStock, GoodsOfRefund
  <2>5. CASE \/ ConfirmIfPaid(p) \/ ShipIfConfirmed(p) \/ SaveWithOutbox(p) \/ CancelSave(p)
             \/ CancelIfPending(p) \/ CancelIfPaidForRefund(p)
    BY <2>5, GoodsOfWrites
  <2> QED BY <1>2, <2>1, <2>2, <2>3, <2>4, <2>5 DEF Continue
<1>3. ASSUME NEW p \in Proc, Fail(p) \/ SaveFails(p) PROVE GoodsInv'
  BY <1>3, GoodsOfPaying
<1>4. CASE \E o \in Order : SetInspectionVideo(o)
  BY <1>4, GoodsStill DEF SetInspectionVideo, NoStock, vars
<1>5. CASE PaymentService
  BY <1>5, GoodsStill DEF PaymentService, CreatePayment, PaymentFails, PaymentSucceeds, CancelPayment,
                          PaymentStep, NoStock, vars, NoOrder, orderVars
<1>6. CASE UNCHANGED sagaVars
  BY <1>6, GoodsStill DEF sagaVars
<1> QED BY <1>1, <1>2, <1>3, <1>4, <1>5, <1>6 DEF SagaNext

LEMMA GoodsInit == SagaInit => GoodsInv
<1> SUFFICES ASSUME SagaInit PROVE GoodsInv
  OBVIOUS
<1>1. \A p \in Proc : GoodsAt(p, call[p].at, call[p].order, call[p].row)
  BY DEF SagaInit, GoodsAt, NoCall, AfterPayment, Collecting, Paying
<1>2. CommittedPaid
  BY DEF SagaInit, Init, CommittedPaid, Committed
<1> QED BY <1>1, <1>2 DEF GoodsInv

(* While one process takes the payments that succeeded, each order is paid  *)
(* once and nobody asks for a cancel or rejects one, no two reservations of *)
(* an order are ever committed: its goods leave at most once.  Calls may    *)
(* fail and processes may die between any two steps (ShipOrder, CancelOrder *)
(* and MarkOrderPaid).                                                      *)
THEOREM GoodsAreSentOnce ==
  ASSUME OneConsumer, OnePaymentPerOrder, NoCancelRequests
  PROVE  SagaSpec => []GoodsLeaveOnce
<1>1. GoodsInv => GoodsLeaveOnce
  BY DEF GoodsInv, CommittedPaid, GoodsLeaveOnce
<1>2. /\ SagaInv /\ MoneyInv /\ [SagaNext]_sagaVars => MoneyInv'
      /\ SagaInv /\ HoldInv /\ [SagaNext]_sagaVars => HoldInv'
  BY MoneyStep, HoldStep
<1>3. SagaInv /\ MoneyInv /\ HoldInv /\ GoodsInv /\ [SagaNext]_sagaVars => GoodsInv'
  BY GoodsStep
<1> QED BY <1>1, <1>2, <1>3, MoneyInit, HoldInit, GoodsInit, SagaInductive, PTL DEF SagaSpec

(**************************************************************************)
(* PlaceOrder: one key places one order, a total is what its parts say,   *)
(* and stock nobody knows of is the trace of a fault.                     *)
(**************************************************************************)
----------------------------------------------------------------------------
(* The inductive invariant.                                                 *)

\* A request that has taken stock and a number.
Taken == {"insert", "undo", "reload"}

Request == [at : {"price", "reserve"} \cup Taken, key : Keys \cup {NoKey}, input : Inputs,
            prices : Seq(Prices), hold : Nat, order : Nat]

(* A request has priced its lines before it takes stock, and what it took    *)
(* is for what it asks; until it inserts, no order has its number or stock. *)
Asked(r) ==
  r # Idle =>
    /\ r \in Request
    /\ r.at = "price" => Len(r.prices) < Len(r.input.lines)
    /\ r.at # "price" => Len(r.prices) = Len(r.input.lines)
    /\ r.at \in {"price", "reserve"} => r.hold = 0
    /\ r.at \in Taken => /\ r.hold \in 1 .. seq /\ r.order \in 1 .. ordered
                         /\ lines[r.hold] = UnitsAsked(r.input)
    /\ r.at = "insert" => /\ order[r.order] = NoRow /\ r.hold \in Open
                          /\ \A o \in Placed : order[o].hold # r.hold

Apart(r, s) == r.at \in Taken /\ s.at \in Taken => r.hold # s.hold /\ r.order # s.order

ReqInv ==
  /\ req = [c \in Client |-> req[c]]
  /\ \A c \in Client : Asked(req[c])
  /\ \A c, d \in Client : c # d => Apart(req[c], req[d])

TotalSound(row) ==
  LET net == row.subtotal - row.input.discount + ShippingFee
      sur == row.total - net
  IN  /\ net >= ShippingFee
      /\ IF row.input.method = "bypass" THEN sur = 0
           ELSE sur * 10000 <= net * SurchargeBps /\ net * SurchargeBps < (sur + 1) * 10000

PlacedRow == [status : {"pending"}, key : Keys \cup {NoKey}, input : Inputs, hold : Nat,
              total : Int, subtotal : Int]

RowSound(o) ==
  /\ order[o] \in PlacedRow
  /\ o <= ordered /\ order[o].hold \in 1 .. seq
  /\ lines[order[o].hold] = UnitsAsked(order[o].input)
  /\ order[o].key # NoKey => keyed[order[o].key] = o
  /\ TotalSound(order[o])

RowInv ==
  /\ order = [o \in Number |-> order[o]] /\ ordered \in 0 .. MaxOrders
  /\ price \in [Sku -> Prices]
  /\ \A o \in Placed : RowSound(o)
  /\ \A a, b \in Placed : order[a].hold = order[b].hold => a = b
  /\ keyed \in [Keys -> {0} \cup Placed]
  /\ \A k \in Keys : keyed[k] # 0 => order[keyed[k]].key = k

Answered(t) ==
  /\ t.order \in Placed /\ order[t.order].key = t.key
  /\ UnitsAsked(order[t.order].input) = UnitsAsked(t.input)
  /\ order[t.order].input.method = t.input.method

ToldInv == \A t \in answers : Answered(t)

(* Stock that no order has and no request will give back: a request that     *)
(* could not give it back has forgotten it before it ends.                  *)
Lost ==
  {r \in Open : /\ \A o \in Placed : order[o].hold # r
                /\ \A c \in Client : req[c] = Idle \/ req[c].hold # r \/ req[c].at = "reload"}

FaultInv == faults \in 0 .. MaxFaults /\ Cardinality(Lost) <= faults

PlaceInv == TypeOK /\ ReqInv /\ RowInv /\ ToldInv /\ FaultInv

(* When the reply of an insert is not lost: a placed order keeps its stock,  *)
(* for nobody gives it back.                                                *)
PlacedHolds ==
  /\ \A o \in Placed : order[o].hold \in Open
  /\ \A c \in Client : req[c].at = "undo" => \A o \in Placed : order[o].hold # req[c].hold

----------------------------------------------------------------------------
(* Requests, stock and rows.                                                *)

LEMMA PlaceBounds ==
  /\ MaxOrders \in Nat /\ MaxFaults \in Nat /\ ShippingFee \in Nat /\ SurchargeBps \in Nat
  /\ Prices \subseteq Nat /\ NoKey \notin Keys /\ MaxReservations \in Nat
BY PlacingAssumption, InputAssumption

LEMMA ReqMoved ==
  ASSUME ReqInv, NEW c \in Client, NEW n, GoOn(c, n)
  PROVE  /\ req' = [d \in Client |-> req'[d]] /\ req'[c] = n
         /\ \A d \in Client \ {c} : req'[d] = req[d]
BY DEF ReqInv, GoOn

LEMMA OpenShape ==
  ASSUME TypeOK
  PROVE  /\ Open \subseteq 1 .. seq /\ seq \in Nat /\ 1 .. seq \subseteq ResId
         /\ IsFiniteSet(Open) /\ 0 \notin Open
<1>1. seq \in Nat /\ seq <= MaxReservations /\ 1 .. seq \subseteq ResId
  BY PlaceBounds DEF TypeOK, ResId
<1>2. Open \subseteq 1 .. seq
  <2> SUFFICES ASSUME NEW r \in Open PROVE r \in 1 .. seq
    OBVIOUS
  <2>1. r \in ResId /\ status[r] # "none"
    BY DEF Open
  <2>2. ~ (r > seq)
    BY <2>1 DEF TypeOK
  <2> QED BY <1>1, <2>1, <2>2 DEF ResId
<1>3. IsFiniteSet(1 .. seq)
  BY <1>1, FS_Interval
<1>4. IsFiniteSet(Open)
  BY <1>2, <1>3, FS_Subset
<1>5. 0 \notin 1 .. seq
  BY <1>1
<1> QED BY <1>1, <1>2, <1>4, <1>5

LEMMA IdleAt == Idle.at = "idle"
BY DEF Idle

LEMMA Busy ==
  ASSUME ReqInv, NEW c \in Client, req[c].at # "idle"
  PROVE  req[c] # Idle /\ Asked(req[c]) /\ req[c] \in Request
BY DEF ReqInv, Asked, Idle

\* What reserving does to the reservations.
LEMMA Reserves ==
  ASSUME TypeOK, NEW want \in Requests, CreateReservation(want)
  PROVE  /\ seq' = seq + 1 /\ seq + 1 \in ResId /\ seq + 1 \notin Open
         /\ Open' = Open \cup {seq + 1}
         /\ lines'[seq + 1] = want /\ \A r \in 1 .. seq : lines'[r] = lines[r]
<1>1. seq \in Nat /\ seq + 1 \in ResId
  BY PlaceBounds DEF CreateReservation, TypeOK, ResId
<1>2. /\ status' = [status EXCEPT ![seq + 1] = "active"] /\ seq' = seq + 1
      /\ lines' = [lines EXCEPT ![seq + 1] = want]
  BY DEF CreateReservation
<1>3. /\ status'[seq + 1] = "active" /\ lines'[seq + 1] = want
      /\ \A r \in ResId : r # seq + 1 => status'[r] = status[r] /\ lines'[r] = lines[r]
  BY <1>1, <1>2 DEF TypeOK
<1>4. seq + 1 \notin Open
  BY <1>1, OpenShape
<1>5. Open' = Open \cup {seq + 1}
  BY <1>1, <1>3 DEF Open
<1>6. \A r \in 1 .. seq : r \in ResId /\ r # seq + 1
  BY <1>1, OpenShape
<1> QED BY <1>1, <1>2, <1>3, <1>4, <1>5, <1>6

LEMMA Releases ==
  ASSUME TypeOK, NEW h \in ResId, FinalizeReservation(h, "released")
  PROVE  Open' = Open \ {h} /\ UNCHANGED <<seq, lines>>
<1>1. status' = [status EXCEPT ![h] = "released"] /\ UNCHANGED <<seq, lines>>
  BY DEF FinalizeReservation
<1>2. status'[h] = "released" /\ \A r \in ResId : r # h => status'[r] = status[r]
  BY <1>1 DEF TypeOK
<1> QED BY <1>1, <1>2 DEF Open

\* The stock as it was, but for a quantity.
LEMMA SameHolds ==
  ASSUME UNCHANGED status
  PROVE  Open' = Open
BY DEF Open

(* Placing orders uses the stock as the product service allows. *)
LEMMA PlaceUsesStock == TypeOK /\ ReqInv /\ [PlaceNext]_allVars => [Next]_vars
<1> SUFFICES ASSUME TypeOK, ReqInv, [PlaceNext]_allVars PROVE [Next]_vars
  OBVIOUS
<1>1. ASSUME NEW c \in Client, ReserveStock(c) PROVE [Next]_vars
  <2>1. req[c].input \in Inputs
    BY <1>1, Busy DEF ReserveStock, Request
  <2>2. UnitsAsked(req[c].input) \in Requests
    BY <2>1, BodyAssumption
  <2> QED BY <1>1, <2>2 DEF ReserveStock, Next
<1>2. ASSUME NEW c \in Client, GiveStockBack(c) PROVE [Next]_vars
  <2>1. req[c].hold \in 1 .. seq
    BY <1>2, Busy DEF GiveStockBack, Asked, Taken
  <2>2. req[c].hold \in ResId
    BY <2>1, OpenShape
  <2> QED BY <1>2, <2>2 DEF GiveStockBack, Next, Closed
<1>3. ASSUME NEW s \in Sku, NEW q \in Quantities, Restock(s, q) PROVE [Next]_vars
  BY <1>3 DEF Restock, Next
<1>4. \/ \E c \in Client : ReserveStock(c) \/ GiveStockBack(c)
      \/ \E s \in Sku, q \in Quantities : Restock(s, q)
      \/ UNCHANGED vars
  BY DEF PlaceNext, allVars, LookUpKey, PriceLine, InsertOrderRow, ReloadByKey, Die, Reprice
<1> QED BY <1>1, <1>2, <1>3, <1>4
----------------------------------------------------------------------------
(* Requests keep what they asked for and took.                              *)

Grows ==
  /\ seq' \in Nat /\ ordered' \in Nat /\ seq <= seq' /\ ordered <= ordered'
  /\ \A h \in 1 .. seq : lines'[h] = lines[h]

Spares(r) ==
  r.at = "insert" =>
    /\ order'[r.order] = NoRow /\ r.hold \in Open'
    /\ \A o \in Placed' : order'[o].hold # r.hold

LEMMA OthersKept ==
  ASSUME TypeOK, RowInv, ReqInv, Grows, NEW d \in Client, req'[d] = req[d], Spares(req[d])
  PROVE  Asked(req[d])'
<1>1. Asked(req[d]) /\ seq \in Nat /\ ordered \in Nat
  BY PlaceBounds, OpenShape DEF ReqInv, RowInv
<1>2. CASE req[d].at \in Taken
  <2>1. CASE req[d] = Idle
    BY <2>1 DEF Asked
  <2>2. CASE req[d] # Idle
    <3>1. /\ req[d].hold \in 1 .. seq /\ req[d].order \in 1 .. ordered
          /\ lines[req[d].hold] = UnitsAsked(req[d].input)
      BY <1>1, <1>2, <2>2 DEF Asked
    <3>2. /\ req[d].hold \in 1 .. seq' /\ req[d].order \in 1 .. ordered'
          /\ lines'[req[d].hold] = UnitsAsked(req[d].input)
      BY <1>1, <3>1 DEF Grows
    <3> QED BY <1>1, <2>2, <3>2 DEF Asked, Spares
  <2> QED BY <2>1, <2>2
<1>3. CASE req[d].at \notin Taken
  BY <1>1, <1>3 DEF Asked, Taken
<1> QED BY <1>2, <1>3

LEMMA OneMoves ==
  ASSUME TypeOK, RowInv, ReqInv, Grows, NEW c \in Client, NEW n, GoOn(c, n),
         Asked(req[c])', \A d \in Client \ {c} : Spares(req[d]) /\ Apart(n, req[d])
  PROVE  ReqInv'
<1>1. /\ req' = [d \in Client |-> req'[d]] /\ req'[c] = n
      /\ \A d \in Client \ {c} : req'[d] = req[d]
  BY ReqMoved
<1>2. \A d \in Client : Asked(req[d])'
  BY <1>1, OthersKept
<1>3. ASSUME NEW d \in Client, NEW e \in Client, d # e PROVE Apart(req'[d], req'[e])
  <2>1. CASE d = c
    BY <2>1, <1>1, <1>3
  <2>2. CASE e = c
    <3>1. Apart(n, req[d]) /\ req'[e] = n /\ req'[d] = req[d]
      BY <2>2, <1>1, <1>3
    <3> QED BY <3>1 DEF Apart
  <2>3. CASE d # c /\ e # c
    <3>1. Apart(req[d], req[e]) /\ req'[d] = req[d] /\ req'[e] = req[e]
      BY <2>3, <1>1, <1>3 DEF ReqInv
    <3> QED BY <3>1
  <2> QED BY <2>1, <2>2, <2>3
<1> QED BY <1>1, <1>2, <1>3 DEF ReqInv, Apart

\* A step that leaves rows and reservations alone leaves other requests alone.
Still == UNCHANGED <<seq, lines, status, ordered, order, keyed>>

LEMMA StillSpares ==
  ASSUME TypeOK, RowInv, ReqInv, Still
  PROVE  Grows /\ \A d \in Client : Spares(req[d])
<1>1. Open' = Open /\ Placed' = Placed /\ order' = order
  BY DEF Still, Open, Placed
<1>2. Grows
  BY OpenShape DEF Still, Grows, RowInv
<1>3. ASSUME NEW d \in Client, req[d].at = "insert"
      PROVE  order[req[d].order] = NoRow /\ req[d].hold \in Open /\ \A o \in Placed : order[o].hold # req[d].hold
  BY <1>3, Busy DEF Asked
<1> QED BY <1>1, <1>2, <1>3 DEF Spares

LEMMA ReqEnds ==
  ASSUME TypeOK, RowInv, ReqInv, NEW c \in Client, End(c), Still
  PROVE  ReqInv'
<1>1. GoOn(c, Idle) /\ req'[c] = Idle
  BY ReqMoved DEF End
<1>2. Asked(req[c])'
  BY <1>1 DEF Asked
<1>3. \A d \in Client \ {c} : Apart(Idle, req[d])
  BY DEF Apart, Idle, Taken
<1> QED BY <1>1, <1>2, <1>3, OneMoves, StillSpares

LEMMA SeqParts ==
  ASSUME NEW S, NEW s \in Seq(S)
  PROVE  /\ Len(s) \in Nat /\ DOMAIN s = 1 .. Len(s)
         /\ s \in [1 .. Len(s) -> S] /\ \A i \in DOMAIN s : s[i] \in S
<1> QED OBVIOUS

LEMMA BodyLines ==
  ASSUME NEW input \in Inputs
  PROVE  /\ input.lines \in Seq([sku : Sku, units : Nat])
         /\ Len(input.lines) \in Nat \ {0} /\ DOMAIN input.lines = 1 .. Len(input.lines)
         /\ \A i \in 1 .. Len(input.lines) : input.lines[i].sku \in Sku
<1>1. input.lines \in Seq([sku : Sku, units : Nat]) /\ input.lines # <<>>
  BY BodyAssumption
<1> DEFINE s == input.lines
<1>2. s \in Seq([sku : Sku, units : Nat]) /\ s # <<>>
  BY <1>1
<1> HIDE DEF s
<1>3. Len(s) \in Nat \ {0}
  BY <1>2
<1>4. DOMAIN s = 1 .. Len(s) /\ \A i \in DOMAIN s : s[i] \in [sku : Sku, units : Nat]
  BY <1>2, SeqParts
<1>5. \A i \in 1 .. Len(s) : s[i].sku \in Sku
  BY <1>4
<1> QED BY <1>2, <1>3, <1>4, <1>5 DEF s

LEMMA LookUpReq ==
  ASSUME TypeOK, RowInv, ReqInv, NEW c \in Client, NEW key \in Keys \cup {NoKey}, NEW input \in Inputs,
         LookUpKey(c, key, input)
  PROVE  ReqInv'
<1>1. Still
  BY DEF LookUpKey, Still, vars
<1>2. CASE End(c)
  BY <1>1, <1>2, ReqEnds
<1>3. CASE ~ End(c)
  <2>1. PICK n : n = [at |-> "price", key |-> key, input |-> input, prices |-> <<>>, hold |-> 0, order |-> 0]
    OBVIOUS
  <2>2. GoOn(c, n) /\ req'[c] = n
    BY <1>3, <2>1, ReqMoved DEF LookUpKey, Replay, Answer
  <2>3. n \in Request /\ n.at = "price" /\ n.input = input /\ n.prices = <<>> /\ n.hold = 0
    BY <2>1 DEF Request
  <2>4. Len(n.prices) = 0 /\ Len(n.input.lines) \in Nat \ {0}
    BY <2>3, BodyLines
  <2>5. Asked(req[c])'
    BY <2>2, <2>3, <2>4 DEF Asked, Taken
  <2>6. \A d \in Client \ {c} : Apart(n, req[d])
    BY <2>3 DEF Apart, Taken
  <2> QED BY <1>1, <2>2, <2>5, <2>6, OneMoves, StillSpares
<1> QED BY <1>2, <1>3

LEMMA PriceReq ==
  ASSUME TypeOK, RowInv, ReqInv, NEW c \in Client, PriceLine(c)
  PROVE  ReqInv'
<1>1. Still
  BY DEF PriceLine, Still, vars
<1>2. CASE End(c)
  BY <1>1, <1>2, ReqEnds
<1>3. CASE ~ End(c)
  <2>1. PICK r : r = req[c]
    OBVIOUS
  <2>2. /\ r \in Request /\ r.at = "price" /\ Len(r.prices) < Len(r.input.lines)
        /\ r.hold = 0
    BY <2>1, Busy DEF PriceLine, Asked
  <2>3. PICK i : i = Len(r.prices) + 1
    OBVIOUS
  <2>4. PICK p : p = price[r.input.lines[i].sku]
    OBVIOUS
  <2>5. r.prices \in Seq(Prices) /\ r.input \in Inputs /\ Len(r.prices) \in Nat
    BY <2>2, SeqParts DEF Request
  <2>6. i \in 1 .. Len(r.input.lines) /\ r.input.lines[i].sku \in Sku
    BY <2>2, <2>3, <2>5, BodyLines
  <2>7. p \in Prices
    BY <2>4, <2>6 DEF RowInv
  <2>8. PICK ps : ps = Append(r.prices, p)
    OBVIOUS
  <2>9. ps \in Seq(Prices) /\ Len(ps) = i
    BY <2>3, <2>5, <2>7, <2>8
  <2>10. PICK w : w = IF i = Len(r.input.lines) THEN "reserve" ELSE "price"
    OBVIOUS
  <2>11. PICK n : n = [r EXCEPT !.prices = ps, !.at = w]
    OBVIOUS
  <2>12. GoOn(c, n) /\ req'[c] = n
    BY <1>3, <2>1, <2>3, <2>4, <2>8, <2>10, <2>11, ReqMoved DEF PriceLine
  <2>13. n \in Request /\ n.at = w /\ n.prices = ps /\ n.input = r.input /\ n.hold = 0
    BY <2>2, <2>9, <2>10, <2>11 DEF Request
  <2>14. w \in {"price", "reserve"} /\ (w = "price" => i # Len(r.input.lines))
         /\ (w # "price" => i = Len(r.input.lines))
    BY <2>10
  <2>15. Len(r.input.lines) \in Nat
    BY <2>5, BodyLines
  <2>16. Asked(req[c])'
    BY <2>6, <2>9, <2>12, <2>13, <2>14, <2>15 DEF Asked, Taken
  <2>17. \A d \in Client \ {c} : Apart(n, req[d])
    BY <2>13, <2>14 DEF Apart, Taken
  <2> QED BY <1>1, <2>12, <2>16, <2>17, OneMoves, StillSpares
<1> QED BY <1>2, <1>3

LEMMA ReserveReq ==
  ASSUME TypeOK, RowInv, ReqInv, NEW c \in Client, ReserveStock(c)
  PROVE  ReqInv'
<1>1. PICK r : r = req[c]
  OBVIOUS
<1>2. r \in Request /\ r.at = "reserve" /\ Len(r.prices) = Len(r.input.lines) /\ r.input \in Inputs
  BY <1>1, Busy DEF ReserveStock, Asked, Request
<1>3. PICK want : want = UnitsAsked(r.input)
  OBVIOUS
<1>4. want \in Requests
  BY <1>2, <1>3, BodyAssumption
<1>5. /\ seq \in Nat /\ ordered \in Nat /\ ordered + 1 \in Number /\ ordered' = ordered + 1
      /\ UNCHANGED <<order, keyed>> /\ Placed' = Placed
      /\ \A o \in Placed : o <= ordered /\ order[o].hold \in 1 .. seq
  <2>1. ordered' = ordered + 1 /\ ordered < MaxOrders /\ UNCHANGED <<order, keyed>>
    BY DEF ReserveStock
  <2>2. ordered \in Nat /\ ordered + 1 \in Number
    BY <2>1, PlaceBounds DEF RowInv, Number
  <2>3. \A o \in Placed : o <= ordered /\ order[o].hold \in 1 .. seq
    BY DEF RowInv, RowSound
  <2> QED BY <2>1, <2>2, <2>3, OpenShape DEF Placed
<1>6. CASE ~ CreateReservation(want)
  <2>1. End(c) /\ UNCHANGED vars
    BY <1>1, <1>3, <1>6 DEF ReserveStock
  <2>2. Grows /\ Open' = Open
    BY <2>1, <1>5 DEF Grows, vars, Open
  <2>3. \A d \in Client : Spares(req[d])
    <3> SUFFICES ASSUME NEW d \in Client, req[d].at = "insert" PROVE Spares(req[d])
      BY DEF Spares
    <3> QED BY <1>5, <2>2, Busy DEF Spares, Asked
  <2>4. GoOn(c, Idle) /\ Asked(req[c])'
    BY <2>1, ReqMoved DEF End, Asked
  <2>5. \A d \in Client \ {c} : Apart(Idle, req[d])
    BY DEF Apart, Idle, Taken
  <2> QED BY <2>2, <2>3, <2>4, <2>5, OneMoves
<1>7. CASE CreateReservation(want)
  <2>1. /\ seq' = seq + 1 /\ seq + 1 \in ResId /\ seq + 1 \notin Open
        /\ Open' = Open \cup {seq + 1}
        /\ lines'[seq + 1] = want /\ \A h \in 1 .. seq : lines'[h] = lines[h]
    BY <1>4, <1>7, Reserves
  <2>2. Grows
    BY <1>5, <2>1 DEF Grows
  <2>3. \A d \in Client : Spares(req[d])
    <3> SUFFICES ASSUME NEW d \in Client, req[d].at = "insert" PROVE Spares(req[d])
      BY DEF Spares
    <3> QED BY <1>5, <2>1, Busy DEF Spares, Asked
  <2>4. ASSUME NEW d \in Client, req[d].at \in Taken
        PROVE  req[d].hold \in 1 .. seq /\ req[d].order \in 1 .. ordered
    BY <2>4, Busy DEF Asked, Taken
  <2>5. CASE End(c)
    <3>1. GoOn(c, Idle) /\ Asked(req[c])'
      BY <2>5, ReqMoved DEF End, Asked
    <3>2. \A d \in Client \ {c} : Apart(Idle, req[d])
      BY DEF Apart, Idle, Taken
    <3> QED BY <2>2, <2>3, <3>1, <3>2, OneMoves
  <2>6. CASE ~ End(c)
    <3>0. PICK h \in Nat, k \in Nat : h = seq' /\ k = ordered'
      BY <1>5, <2>1
    <3>1. PICK n : n = [r EXCEPT !.at = "insert", !.hold = h, !.order = k]
      OBVIOUS
    <3>2. GoOn(c, n) /\ req'[c] = n
      BY <1>1, <1>3, <1>7, <2>6, <3>0, <3>1, ReqMoved DEF ReserveStock
    <3>3. /\ n \in Request /\ n.at = "insert" /\ n.hold = seq + 1 /\ n.order = ordered + 1
          /\ n.input = r.input /\ n.prices = r.prices
      <4>1. n \in Request /\ n.at = "insert" /\ n.hold = h /\ n.order = k
            /\ n.input = r.input /\ n.prices = r.prices
        BY <1>2, <3>1 DEF Request, Taken
      <4> QED BY <1>5, <2>1, <3>0, <4>1
    <3>4. order'[n.order] = NoRow
      <4>1. ordered + 1 \notin Placed
        BY <1>5
      <4> QED BY <1>5, <3>3, <4>1 DEF Placed
    <3>5. n.hold \in Open' /\ \A o \in Placed' : order'[o].hold # n.hold
      BY <1>5, <2>1, <3>3
    <3>6. n.hold \in 1 .. seq' /\ n.order \in 1 .. ordered' /\ lines'[n.hold] = UnitsAsked(n.input)
      BY <1>3, <1>5, <2>1, <3>3
    <3>7. Asked(req[c])'
      BY <1>2, <3>2, <3>3, <3>4, <3>5, <3>6 DEF Asked, Taken
    <3>8. \A d \in Client \ {c} : Apart(n, req[d])
      BY <1>5, <2>4, <3>3 DEF Apart
    <3> QED BY <2>2, <2>3, <3>2, <3>7, <3>8, OneMoves
  <2> QED BY <2>5, <2>6
<1> QED BY <1>6, <1>7

LEMMA InsertReq ==
  ASSUME TypeOK, RowInv, ReqInv, NEW c \in Client, InsertOrderRow(c)
  PROVE  ReqInv'
<1>1. PICK r : r = req[c]
  OBVIOUS
<1>2. /\ r \in Request /\ r.at = "insert" /\ Len(r.prices) = Len(r.input.lines) /\ r.input \in Inputs
      /\ r.hold \in 1 .. seq /\ r.order \in 1 .. ordered /\ lines[r.hold] = UnitsAsked(r.input)
      /\ r # Idle
  BY <1>1, Busy DEF InsertOrderRow, Asked, Request, Taken
<1>3. UNCHANGED <<seq, lines, status, ordered>> /\ Open' = Open
  BY DEF InsertOrderRow, vars, Open
<1>4. Grows
  BY <1>3, OpenShape DEF Grows, RowInv
<1>5. UNCHANGED order \/ order' = [order EXCEPT ![r.order] = NewOrder(r)]
  BY <1>1 DEF InsertOrderRow, Inserted
<1>6. ASSUME NEW d \in Client \ {c} PROVE Spares(req[d])
  <2> SUFFICES ASSUME req[d].at = "insert" PROVE Spares(req[d])
    BY DEF Spares
  <2>1. /\ order[req[d].order] = NoRow /\ req[d].hold \in Open
        /\ \A o \in Placed : order[o].hold # req[d].hold
    BY Busy DEF Asked
  <2>2. req[d].hold # r.hold /\ req[d].order # r.order
    BY <1>1, <1>2 DEF ReqInv, Apart, Taken
  <2>3. CASE UNCHANGED order
    BY <1>3, <2>1, <2>3 DEF Spares, Placed
  <2>4. CASE order' = [order EXCEPT ![r.order] = NewOrder(r)]
    <3>1. /\ \A o \in Number : o # r.order => order'[o] = order[o]
          /\ r.order \in Number => order'[r.order] = NewOrder(r)
      BY <2>4 DEF RowInv
    <3>2. NewOrder(r).hold = r.hold
      BY DEF NewOrder
    <3>3. req[d].order \in Number
      <4>1. req[d].order \in 1 .. ordered
        BY Busy DEF Asked, Taken
      <4> QED BY <4>1, PlaceBounds DEF RowInv, Number
    <3>4. \A o \in Placed' : order'[o].hold # req[d].hold
      BY <2>1, <2>2, <3>1, <3>2 DEF Placed
    <3> QED BY <1>3, <2>1, <2>2, <3>1, <3>3, <3>4 DEF Spares
  <2> QED BY <1>5, <2>3, <2>4
<1>7. CASE End(c)
  <2>1. GoOn(c, Idle) /\ Asked(req[c])'
    BY <1>7, ReqMoved DEF End, Asked
  <2>2. \A d \in Client \ {c} : Apart(Idle, req[d])
    BY DEF Apart, Idle, Taken
  <2> QED BY <1>4, <1>6, <2>1, <2>2, OneMoves
<1>8. CASE ~ End(c)
  <2>1. PICK n : n = [r EXCEPT !.at = "undo"]
    OBVIOUS
  <2>2. GoOn(c, n) /\ req'[c] = n
    BY <1>1, <1>8, <2>1, ReqMoved DEF InsertOrderRow, Answer, Undo
  <2>3. /\ n \in Request /\ n.at = "undo" /\ n.hold = r.hold /\ n.order = r.order
        /\ n.input = r.input /\ n.prices = r.prices
    BY <1>2, <2>1 DEF Request, Taken
  <2>4. Asked(req[c])'
    BY <1>2, <1>3, <2>2, <2>3 DEF Asked, Taken
  <2>5. \A d \in Client \ {c} : Apart(n, req[d])
    BY <1>1, <1>2, <2>3 DEF ReqInv, Apart, Taken
  <2> QED BY <1>4, <1>6, <2>2, <2>4, <2>5, OneMoves
<1> QED BY <1>7, <1>8

LEMMA GiveBackReq ==
  ASSUME TypeOK, RowInv, ReqInv, NEW c \in Client, GiveStockBack(c)
  PROVE  ReqInv'
<1>1. PICK r : r = req[c]
  OBVIOUS
<1>2. /\ r \in Request /\ r.at = "undo" /\ Len(r.prices) = Len(r.input.lines) /\ r.input \in Inputs
      /\ r.hold \in 1 .. seq /\ r.order \in 1 .. ordered /\ lines[r.hold] = UnitsAsked(r.input)
      /\ r # Idle /\ r.hold \in ResId
  BY <1>1, Busy, OpenShape DEF GiveStockBack, Asked, Request, Taken
<1>3. (Open' = Open \/ Open' = Open \ {r.hold}) /\ UNCHANGED <<seq, lines, ordered, order, keyed>>
  BY <1>1, <1>2, Releases DEF GiveStockBack, vars, Open
<1>4. Grows /\ Placed' = Placed
  BY <1>3, OpenShape DEF Grows, RowInv, Placed
<1>5. ASSUME NEW d \in Client \ {c} PROVE Spares(req[d])
  <2> SUFFICES ASSUME req[d].at = "insert" PROVE Spares(req[d])
    BY DEF Spares
  <2>1. /\ order[req[d].order] = NoRow /\ req[d].hold \in Open
        /\ \A o \in Placed : order[o].hold # req[d].hold
    BY Busy DEF Asked
  <2>2. req[d].hold # r.hold
    BY <1>1, <1>2 DEF ReqInv, Apart, Taken
  <2> QED BY <1>3, <1>4, <2>1, <2>2 DEF Spares
<1>6. PICK n : n = [r EXCEPT !.at = "reload"]
  OBVIOUS
<1>7. GoOn(c, n) /\ req'[c] = n
  BY <1>1, <1>6, ReqMoved DEF GiveStockBack
<1>8. /\ n \in Request /\ n.at = "reload" /\ n.hold = r.hold /\ n.order = r.order
      /\ n.input = r.input /\ n.prices = r.prices
  BY <1>2, <1>6 DEF Request, Taken
<1>9. Asked(req[c])'
  BY <1>2, <1>3, <1>7, <1>8 DEF Asked, Taken
<1>10. \A d \in Client \ {c} : Apart(n, req[d])
  BY <1>1, <1>2, <1>8 DEF ReqInv, Apart, Taken
<1> QED BY <1>4, <1>5, <1>7, <1>9, <1>10, OneMoves

LEMMA ReqStep == TypeOK /\ RowInv /\ ReqInv /\ [PlaceNext]_allVars => ReqInv'
<1> SUFFICES ASSUME TypeOK, RowInv, ReqInv, [PlaceNext]_allVars PROVE ReqInv'
  OBVIOUS
<1>1. ASSUME NEW c \in Client, ReloadByKey(c) \/ Die(c) PROVE ReqInv'
  <2>1. End(c) /\ Still
    BY <1>1 DEF ReloadByKey, Replay, Answer, Die, Still, vars
  <2> QED BY <2>1, ReqEnds
<1>2. CASE UNCHANGED req /\ Still
  <2>1. \A d \in Client : Asked(req[d])'
    BY <1>2, StillSpares, OthersKept
  <2> QED BY <1>2, <2>1 DEF ReqInv, Apart
<1>3. ASSUME NEW s \in Sku, NEW q \in Quantities, Restock(s, q) PROVE UNCHANGED req /\ Still
  BY <1>3 DEF Restock, SetQuantity, Still
<1>4. ASSUME NEW s \in Sku, NEW p \in Prices, Reprice(s, p) PROVE UNCHANGED req /\ Still
  BY <1>4 DEF Reprice, Still, vars
<1>5. CASE UNCHANGED allVars
  BY <1>2, <1>5 DEF allVars, vars, placeVars, Still
<1>6. CASE PlaceNext
  BY <1>1, <1>2, <1>3, <1>4, <1>6, LookUpReq, PriceReq, ReserveReq, InsertReq, GiveBackReq DEF PlaceNext
<1> QED BY <1>5, <1>6

----------------------------------------------------------------------------
(* Rows: a key names the order placed with it, and a total is sound.        *)

LEMMA Rounded ==
  ASSUME NEW n \in Nat
  PROVE  /\ n \div 10000 \in Nat
         /\ (n \div 10000) * 10000 <= n /\ n < (n \div 10000 + 1) * 10000
<1> QED OBVIOUS

LEMMA NewRowSound ==
  ASSUME NEW r \in Request, Len(r.prices) = Len(r.input.lines), ValidOrder(r.input, r.prices)
  PROVE  /\ NewOrder(r) \in PlacedRow /\ TotalSound(NewOrder(r)) /\ NewOrder(r) # NoRow
         /\ NewOrder(r).key = r.key /\ NewOrder(r).input = r.input /\ NewOrder(r).hold = r.hold
<1>1. r.input \in Inputs /\ r.prices \in Seq(Prices) /\ r.key \in Keys \cup {NoKey} /\ r.hold \in Nat
  BY DEF Request
<1>2. r.prices \in [DOMAIN r.input.lines -> Prices]
  BY <1>1, BodyLines, SeqParts
<1>3. PICK sub \in Nat : sub = Subtotal(r.input, r.prices)
  BY <1>1, <1>2, BodyAssumption
<1>4. PICK disc \in Nat : disc = r.input.discount
  BY <1>1, BodyAssumption
<1>5. disc <= sub /\ NormalizePaymentMethod(r.input.method) \in {"credit_card", "bypass"}
  BY <1>3, <1>4 DEF ValidOrder
<1>6. PICK net \in Nat : net = sub - disc + ShippingFee /\ net >= ShippingFee
  BY <1>5, PlaceBounds
<1>7. PICK due \in Nat : due = net * SurchargeBps
  BY PlaceBounds
<1>8. PICK sur : sur = Surcharge(r.input, r.prices)
  OBVIOUS
<1>9. IF r.input.method = "bypass" THEN sur = 0 ELSE sur = due \div 10000
  <2>1. NormalizePaymentMethod(r.input.method) = "credit_card" => r.input.method # "bypass"
    BY DEF NormalizePaymentMethod
  <2>2. NormalizePaymentMethod(r.input.method) = "bypass" => r.input.method = "bypass"
    BY DEF NormalizePaymentMethod
  <2>3. NormalizePaymentMethod(r.input.method) = "credit_card" => sur = CardSurchargeWon(net)
    BY <1>3, <1>4, <1>6, <1>8 DEF Surcharge
  <2>4. NormalizePaymentMethod(r.input.method) # "credit_card" => sur = 0
    BY <1>8 DEF Surcharge
  <2> QED BY <1>5, <1>7, <2>1, <2>2, <2>3, <2>4 DEF CardSurchargeWon
<1>10. /\ sur \in Nat
       /\ IF r.input.method = "bypass" THEN sur = 0
            ELSE sur * 10000 <= due /\ due < (sur + 1) * 10000
  BY <1>9, Rounded
<1>11. PICK v : v = NewOrder(r)
  OBVIOUS
<1>12. /\ v.status = "pending" /\ v.key = r.key /\ v.input = r.input /\ v.hold = r.hold
       /\ v.total = net + sur /\ v.subtotal = sub
  BY <1>3, <1>4, <1>6, <1>8, <1>11 DEF NewOrder
<1>13. v \in PlacedRow
  <2>1. net + sur \in Int /\ sub \in Int
    BY <1>10
  <2>2. v = [status |-> "pending", key |-> r.key, input |-> r.input, hold |-> r.hold,
             total |-> v.total, subtotal |-> v.subtotal]
    BY <1>11 DEF NewOrder
  <2>3. v.total \in Int /\ v.subtotal \in Int
    BY <1>12, <2>1
  <2> QED BY <1>1, <2>2, <2>3 DEF PlacedRow
<1>14. v.total - net = sur /\ v.subtotal - v.input.discount + ShippingFee = net
  BY <1>4, <1>6, <1>10, <1>12
<1>15. TotalSound(v)
  <2>1. CASE r.input.method = "bypass"
    <3>1. v.total - net = 0
      BY <1>10, <1>14, <2>1
    <3> QED BY <1>6, <1>12, <1>14, <2>1, <3>1 DEF TotalSound
  <2>2. CASE r.input.method # "bypass"
    <3>1. (v.total - net) * 10000 <= due /\ due < (v.total - net + 1) * 10000
      BY <1>10, <1>14, <2>2
    <3> QED BY <1>6, <1>7, <1>12, <1>14, <2>2, <3>1 DEF TotalSound
  <2> QED BY <2>1, <2>2
<1> QED BY <1>11, <1>12, <1>13, <1>15 DEF NoRow

\* What inserting an order does to the tables.
LEMMA Inserts ==
  ASSUME TypeOK, RowInv, ReqInv, NEW r \in Request, Asked(r), r.at = "insert", r # Idle,
         MayInsert(r), Inserted(r)
  PROVE  /\ r.order \in Number /\ r.order \notin Placed /\ Placed' = Placed \cup {r.order}
         /\ order' = [o \in Number |-> order'[o]] /\ order'[r.order] = NewOrder(r)
         /\ \A o \in Number \ {r.order} : order'[o] = order[o]
         /\ keyed' \in [Keys -> {0} \cup Placed']
         /\ \A k \in Keys \ {r.key} : keyed'[k] = keyed[k]
         /\ r.key \in Keys => keyed[r.key] = 0 /\ keyed'[r.key] = r.order
         /\ NewOrder(r) \in PlacedRow /\ TotalSound(NewOrder(r))
         /\ NewOrder(r).key = r.key /\ NewOrder(r).input = r.input /\ NewOrder(r).hold = r.hold
<1>1. /\ r.order \in 1 .. ordered /\ order[r.order] = NoRow /\ ordered \in 0 .. MaxOrders
      /\ Len(r.prices) = Len(r.input.lines) /\ r.key \in Keys \cup {NoKey}
  BY DEF Asked, Taken, RowInv, Request
<1>2. r.order \in Number /\ r.order \notin Placed
  BY <1>1, PlaceBounds DEF Number, Placed
<1>3. /\ NewOrder(r) \in PlacedRow /\ TotalSound(NewOrder(r)) /\ NewOrder(r) # NoRow
      /\ NewOrder(r).key = r.key /\ NewOrder(r).input = r.input /\ NewOrder(r).hold = r.hold
  BY <1>1, NewRowSound DEF MayInsert
<1>4. /\ order' = [order EXCEPT ![r.order] = NewOrder(r)]
      /\ keyed' = IF r.key = NoKey THEN keyed ELSE [keyed EXCEPT ![r.key] = r.order]
      /\ r.key \in Keys => keyed[r.key] = 0
  BY DEF Inserted, MayInsert, KnownKey
<1>5. /\ order' = [o \in Number |-> order'[o]] /\ order'[r.order] = NewOrder(r)
      /\ \A o \in Number \ {r.order} : order'[o] = order[o]
  BY <1>2, <1>4 DEF RowInv
<1>6. Placed' = Placed \cup {r.order}
  BY <1>2, <1>3, <1>5 DEF Placed
<1>7. /\ keyed' \in [Keys -> {0} \cup Placed']
      /\ \A k \in Keys \ {r.key} : keyed'[k] = keyed[k]
      /\ r.key \in Keys => keyed'[r.key] = r.order
  BY <1>1, <1>4, <1>6, PlaceBounds DEF RowInv
<1> QED BY <1>2, <1>3, <1>4, <1>5, <1>6, <1>7

LEMMA RowsKept ==
  ASSUME TypeOK, RowInv, Grows, UNCHANGED <<order, keyed>>,
         ordered' \in 0 .. MaxOrders, price' \in [Sku -> Prices]
  PROVE  RowInv'
<1>1. Placed' = Placed
  BY DEF Placed
<1>2. ASSUME NEW o \in Placed PROVE RowSound(o)'
  <2>1. RowSound(o) /\ o \in Nat /\ ordered \in Nat /\ seq \in Nat
    BY PlaceBounds, OpenShape DEF RowInv, Placed, Number
  <2>2. o <= ordered' /\ order[o].hold \in 1 .. seq' /\ lines'[order[o].hold] = lines[order[o].hold]
    BY <2>1 DEF RowSound, Grows
  <2> QED BY <2>1, <2>2 DEF RowSound
<1> QED BY <1>1, <1>2 DEF RowInv

LEMMA RowInsert ==
  ASSUME TypeOK, RowInv, ReqInv, NEW c \in Client, InsertOrderRow(c)
  PROVE  RowInv'
<1>1. PICK r : r = req[c]
  OBVIOUS
<1>2. /\ r \in Request /\ r.at = "insert" /\ Asked(r) /\ r # Idle /\ r.input \in Inputs
      /\ r.hold \in 1 .. seq /\ r.order \in 1 .. ordered /\ lines[r.hold] = UnitsAsked(r.input)
      /\ \A o \in Placed : order[o].hold # r.hold
  BY <1>1, Busy DEF InsertOrderRow, Asked, Request, Taken
<1>3. UNCHANGED <<vars, price, ordered>>
  BY DEF InsertOrderRow
<1>4. CASE UNCHANGED <<order, keyed>>
  <2>1. Grows
    BY <1>3, OpenShape DEF Grows, RowInv, vars
  <2> QED BY <1>3, <1>4, <2>1, RowsKept DEF RowInv
<1>5. CASE MayInsert(r) /\ Inserted(r)
  <2>1. /\ r.order \in Number /\ r.order \notin Placed /\ Placed' = Placed \cup {r.order}
        /\ order' = [o \in Number |-> order'[o]] /\ order'[r.order] = NewOrder(r)
        /\ \A o \in Number \ {r.order} : order'[o] = order[o]
        /\ keyed' \in [Keys -> {0} \cup Placed']
        /\ \A k \in Keys \ {r.key} : keyed'[k] = keyed[k]
        /\ r.key \in Keys => keyed[r.key] = 0 /\ keyed'[r.key] = r.order
        /\ NewOrder(r) \in PlacedRow /\ TotalSound(NewOrder(r))
        /\ NewOrder(r).key = r.key /\ NewOrder(r).input = r.input /\ NewOrder(r).hold = r.hold
    BY <1>2, <1>5, Inserts
  <2>2. ASSUME NEW o \in Placed PROVE RowSound(o)' /\ order'[o] = order[o]
    <3>1. RowSound(o) /\ o \in Number /\ o # 0 /\ order'[o] = order[o]
      BY <2>1 DEF RowInv, Placed, Number
    <3>2. order[o].key \in Keys \cup {NoKey}
      BY <3>1 DEF RowSound, PlacedRow
    <3>3. order[o].key # NoKey => keyed'[order[o].key] = o
      BY <2>1, <3>1, <3>2 DEF RowSound
    <3> QED BY <1>3, <3>1, <3>3 DEF RowSound, vars
  <2>3. RowSound(r.order)'
    <3>1. RowInv /\ r.order <= ordered
      BY <1>2 DEF RowInv
    <3>2. r.key # NoKey => keyed'[r.key] = r.order
      BY <1>2, <2>1 DEF Request
    <3> QED BY <1>2, <1>3, <2>1, <3>1, <3>2 DEF RowSound, vars
  <2>4. \A o \in Placed' : RowSound(o)'
    BY <2>1, <2>2, <2>3
  <2>5. \A a, b \in Placed' : order'[a].hold = order'[b].hold => a = b
    BY <1>2, <2>1, <2>2 DEF RowInv
  <2>6. ASSUME NEW k \in Keys, keyed'[k] # 0 PROVE order'[keyed'[k]].key = k
    <3>1. CASE k = r.key
      BY <2>1, <3>1
    <3>2. CASE k # r.key
      BY <2>1, <2>2, <2>6, <3>2 DEF RowInv
    <3> QED BY <3>1, <3>2
  <2> QED BY <1>3, <2>1, <2>4, <2>5, <2>6 DEF RowInv
<1> QED BY <1>1, <1>4, <1>5 DEF InsertOrderRow

LEMMA RowsStep == TypeOK /\ ReqInv /\ RowInv /\ [PlaceNext]_allVars => RowInv'
<1> SUFFICES ASSUME TypeOK, ReqInv, RowInv, [PlaceNext]_allVars PROVE RowInv'
  OBVIOUS
<1>1. CASE Still /\ price' \in [Sku -> Prices]
  BY <1>1, StillSpares, RowsKept DEF Still, RowInv
<1>2. ASSUME NEW c \in Client, ReserveStock(c) PROVE RowInv'
  <2>1. ordered' = ordered + 1 /\ ordered < MaxOrders /\ UNCHANGED <<order, keyed, price>>
    BY <1>2 DEF ReserveStock
  <2>2. ordered \in Nat /\ ordered' \in 0 .. MaxOrders /\ ordered <= ordered' /\ price' \in [Sku -> Prices]
    BY <2>1, PlaceBounds DEF RowInv
  <2>3. UnitsAsked(req[c].input) \in Requests
    BY <1>2, Busy, BodyAssumption DEF ReserveStock, Request
  <2>4. seq' \in Nat /\ seq <= seq' /\ \A h \in 1 .. seq : lines'[h] = lines[h]
    <3>1. CreateReservation(UnitsAsked(req[c].input)) \/ UNCHANGED vars
      BY <1>2 DEF ReserveStock
    <3>2. CASE CreateReservation(UnitsAsked(req[c].input))
      <4>1. seq \in Nat /\ seq' = seq + 1 /\ \A h \in 1 .. seq : lines'[h] = lines[h]
        BY <2>3, <3>2, Reserves, OpenShape
      <4> QED BY <4>1
    <3>3. CASE UNCHANGED vars
      BY <3>3, OpenShape DEF vars
    <3> QED BY <3>1, <3>2, <3>3
  <2> QED BY <2>1, <2>2, <2>4, RowsKept DEF Grows
<1>3. ASSUME NEW c \in Client, GiveStockBack(c) PROVE RowInv'
  <2>1. req[c].hold \in ResId
    BY <1>3, Busy, OpenShape DEF GiveStockBack, Asked, Taken
  <2>2. UNCHANGED <<seq, lines, ordered, order, keyed, price>>
    BY <1>3, <2>1, Releases DEF GiveStockBack, vars
  <2>3. Grows
    BY <2>2, OpenShape DEF Grows, RowInv
  <2> QED BY <2>2, <2>3, RowsKept DEF RowInv
<1>4. \/ Still /\ price' \in [Sku -> Prices]
      \/ \E c \in Client : ReserveStock(c) \/ InsertOrderRow(c) \/ GiveStockBack(c)
  <2>1. ASSUME NEW s \in Sku, NEW p \in Prices, Reprice(s, p) PROVE Still /\ price' \in [Sku -> Prices]
    BY <2>1 DEF Reprice, Still, vars, RowInv
  <2>2. ASSUME NEW s \in Sku, NEW q \in Quantities, Restock(s, q) PROVE Still /\ price' \in [Sku -> Prices]
    BY <2>2 DEF Restock, SetQuantity, Still, RowInv
  <2>3. ASSUME NEW c \in Client, PriceLine(c) \/ ReloadByKey(c) \/ Die(c)
        PROVE  Still /\ price' \in [Sku -> Prices]
    BY <2>3 DEF PriceLine, ReloadByKey, Die, Still, vars, RowInv
  <2>4. ASSUME NEW c \in Client, NEW key \in Keys \cup {NoKey}, NEW input \in Inputs, LookUpKey(c, key, input)
        PROVE  Still /\ price' \in [Sku -> Prices]
    BY <2>4 DEF LookUpKey, Still, vars, RowInv
  <2>5. CASE UNCHANGED allVars
    BY <2>5 DEF allVars, vars, placeVars, Still, RowInv
  <2> QED BY <2>1, <2>2, <2>3, <2>4, <2>5 DEF PlaceNext
<1> QED BY <1>1, <1>2, <1>3, <1>4, RowInsert

----------------------------------------------------------------------------
(* Answers name the order of the key they were asked under.                 *)

\* A placed order stays as it was placed.
LEMMA RowsStay ==
  ASSUME TypeOK, ReqInv, RowInv, [PlaceNext]_allVars
  PROVE  \A o \in Placed : o \in Placed' /\ order'[o] = order[o]
<1>1. ASSUME NEW c \in Client, InsertOrderRow(c)
      PROVE  \A o \in Placed : o \in Placed' /\ order'[o] = order[o]
  <2>1. PICK r : r = req[c]
    OBVIOUS
  <2>2. r \in Request /\ r.at = "insert" /\ Asked(r) /\ r # Idle
    BY <1>1, <2>1, Busy DEF InsertOrderRow
  <2>3. CASE UNCHANGED order
    BY <2>3 DEF Placed
  <2>4. CASE MayInsert(r) /\ Inserted(r)
    <3>1. /\ r.order \notin Placed /\ Placed' = Placed \cup {r.order}
          /\ \A o \in Number \ {r.order} : order'[o] = order[o]
      BY <2>2, <2>4, Inserts
    <3> QED BY <3>1 DEF Placed
  <2> QED BY <1>1, <2>1, <2>3, <2>4 DEF InsertOrderRow
<1>2. CASE UNCHANGED order
  BY <1>2 DEF Placed
<1>3. UNCHANGED order \/ \E c \in Client : InsertOrderRow(c)
  BY DEF PlaceNext, allVars, placeVars, LookUpKey, PriceLine, ReserveStock, GiveStockBack, ReloadByKey,
         Die, Reprice, Restock
<1> QED BY <1>1, <1>2, <1>3

LEMMA ReplayTells ==
  ASSUME RowInv, NEW c \in Client, NEW key \in Keys \cup {NoKey}, NEW input \in Inputs,
         Replay(c, key, input), NEW t \in answers'
  PROVE  t \in answers \/ Answered(t)
<1>1. CASE UNCHANGED answers
  BY <1>1
<1>2. CASE ~ UNCHANGED answers
  <2>1. /\ key \in Keys /\ keyed[key] # 0 /\ SameRequest(order[keyed[key]].input, input)
        /\ answers' = answers \cup {[key |-> key, input |-> input, order |-> keyed[key]]}
    BY <1>2 DEF Replay, KnownKey, Answer
  <2>2. keyed[key] \in Placed /\ order[keyed[key]].key = key /\ order[keyed[key]].input \in Inputs
    BY <2>1 DEF RowInv, RowSound, PlacedRow
  <2>3. /\ UnitsAsked(order[keyed[key]].input) = UnitsAsked(input)
        /\ order[keyed[key]].input.method = input.method
    BY <2>1, <2>2, BodyAssumption DEF SameRequest
  <2> QED BY <2>1, <2>2, <2>3 DEF Answered
<1> QED BY <1>1, <1>2

LEMMA ToldStep == TypeOK /\ ReqInv /\ RowInv /\ ToldInv /\ [PlaceNext]_allVars => ToldInv'
<1> SUFFICES ASSUME TypeOK, ReqInv, RowInv, ToldInv, [PlaceNext]_allVars, NEW t \in answers'
             PROVE  Answered(t)'
  BY DEF ToldInv
<1>1. \A o \in Placed : o \in Placed' /\ order'[o] = order[o]
  BY RowsStay
<1>2. CASE Answered(t)
  BY <1>1, <1>2 DEF Answered
<1>3. CASE t \in answers
  BY <1>2, <1>3 DEF ToldInv
<1>4. ASSUME NEW c \in Client, NEW key \in Keys \cup {NoKey}, NEW input \in Inputs, LookUpKey(c, key, input)
      PROVE  t \in answers \/ Answered(t)
  BY <1>4, ReplayTells DEF LookUpKey
<1>5. ASSUME NEW c \in Client, ReloadByKey(c)
      PROVE  t \in answers \/ Answered(t)
  <2>1. req[c].key \in Keys \cup {NoKey} /\ req[c].input \in Inputs
    BY <1>5, Busy DEF ReloadByKey, Request
  <2> QED BY <1>5, <2>1, ReplayTells DEF ReloadByKey
<1>6. ASSUME NEW c \in Client, InsertOrderRow(c) PROVE t \in answers \/ Answered(t)'
  <2>1. PICK r : r = req[c]
    OBVIOUS
  <2>2. r \in Request /\ r.at = "insert" /\ Asked(r) /\ r # Idle
    BY <1>6, <2>1, Busy DEF InsertOrderRow
  <2>3. CASE MayInsert(r) /\ Inserted(r) /\ answers' = answers \cup {[key |-> r.key, input |-> r.input, order |-> r.order]}
    <3>1. CASE t \in answers
      BY <3>1
    <3>2. CASE t \notin answers
      <4>1. t.key = r.key /\ t.input = r.input /\ t.order = r.order
        BY <2>3, <3>2
      <4>2. /\ r.order \in Placed' /\ order'[r.order] = NewOrder(r)
            /\ NewOrder(r).key = r.key /\ NewOrder(r).input = r.input
        BY <2>2, <2>3, Inserts
      <4> QED BY <4>1, <4>2 DEF Answered
    <3> QED BY <3>1, <3>2
  <2> QED BY <1>6, <2>1, <2>3 DEF InsertOrderRow, Answer
<1>7. \/ UNCHANGED answers
      \/ \E c \in Client, key \in Keys \cup {NoKey}, input \in Inputs : LookUpKey(c, key, input)
      \/ \E c \in Client : ReloadByKey(c) \/ InsertOrderRow(c)
  BY DEF PlaceNext, allVars, placeVars, PriceLine, ReserveStock, GiveStockBack, Die, Reprice, Restock
<1> QED BY <1>2, <1>3, <1>4, <1>5, <1>6, <1>7

----------------------------------------------------------------------------
(* Stock that is lost is counted by the faults.                             *)

LEMMA OneMore ==
  ASSUME NEW S, NEW T, NEW x, IsFiniteSet(S), T \subseteq S \cup {x}
  PROVE  IsFiniteSet(T) /\ Cardinality(T) <= Cardinality(S) + 1
<1>1. IsFiniteSet(S \cup {x}) /\ Cardinality(S \cup {x}) <= Cardinality(S) + 1
  <2>1. IsFiniteSet(S \cup {x}) /\ Cardinality(S \cup {x}) = IF x \in S THEN Cardinality(S) ELSE Cardinality(S) + 1
    BY FS_AddElement
  <2>2. Cardinality(S) \in Nat
    BY FS_CardinalityType
  <2> QED BY <2>1, <2>2
<1>2. IsFiniteSet(T) /\ Cardinality(T) <= Cardinality(S \cup {x})
  BY <1>1, FS_Subset
<1>3. Cardinality(S) \in Nat /\ Cardinality(T) \in Nat /\ Cardinality(S \cup {x}) \in Nat
  BY <1>1, <1>2, FS_CardinalityType
<1> QED BY <1>1, <1>2, <1>3

\* The requests that do not move, and the orders, keep what they hold.
LEMMA LostFrom ==
  ASSUME TypeOK, ReqInv, RowInv, [PlaceNext]_allVars, NEW c \in Client,
         \A d \in Client \ {c} : req'[d] = req[d], NEW r \in Lost', r \in Open
  PROVE  /\ r # req[c].hold => r \in Lost
         /\ req[c] = Idle \/ req[c].at = "reload" => r \in Lost
<1>1. \A o \in Placed : order[o].hold # r
  BY RowsStay DEF Lost
<1>2. \A d \in Client \ {c} : req[d] = Idle \/ req[d].hold # r \/ req[d].at = "reload"
  BY DEF Lost
<1> QED BY <1>1, <1>2 DEF Lost

LEMMA FaultKept ==
  ASSUME TypeOK, FaultInv, Lost' \subseteq Lost, UNCHANGED faults
  PROVE  FaultInv'
<1>1. IsFiniteSet(Lost)
  BY OpenShape, FS_Subset DEF Lost
<1>2. Cardinality(Lost') <= Cardinality(Lost) /\ Cardinality(Lost') \in Nat /\ Cardinality(Lost) \in Nat
  BY <1>1, FS_Subset, FS_CardinalityType
<1> QED BY <1>2, PlaceBounds DEF FaultInv

LEMMA FaultMore ==
  ASSUME TypeOK, FaultInv, NEW x, Lost' \subseteq Lost \cup {x}, NEW k, Suffer(k)
  PROVE  FaultInv'
<1>1. IsFiniteSet(Lost)
  BY OpenShape, FS_Subset DEF Lost
<1>2. IsFiniteSet(Lost') /\ Cardinality(Lost') <= Cardinality(Lost) + 1
  BY <1>1, OneMore
<1>3. Cardinality(Lost') \in Nat /\ Cardinality(Lost) \in Nat
  BY <1>1, <1>2, FS_CardinalityType
<1> QED BY <1>2, <1>3, PlaceBounds DEF FaultInv, Suffer

LEMMA FaultReserve ==
  ASSUME TypeOK, ReqInv, RowInv, FaultInv, NEW c \in Client, ReserveStock(c), [PlaceNext]_allVars
  PROVE  FaultInv'
<1>1. req[c] # Idle /\ req[c].hold = 0 /\ UnitsAsked(req[c].input) \in Requests
  BY Busy, BodyAssumption DEF ReserveStock, Asked, Request
<1>2. \A d \in Client \ {c} : req'[d] = req[d]
  BY ReqMoved DEF ReserveStock, End
<1>3. \A r \in Lost' : r \in Open => r \in Lost
  BY <1>1, <1>2, LostFrom, OpenShape
<1>4. CASE UNCHANGED <<vars, faults>>
  <2>1. Open' = Open
    BY <1>4 DEF vars, Open
  <2>2. Lost' \subseteq Lost
    BY <1>3, <2>1 DEF Lost
  <2> QED BY <1>4, <2>2, FaultKept
<1>5. CASE CreateReservation(UnitsAsked(req[c].input))
  <2>1. seq' = seq + 1 /\ Open' = Open \cup {seq + 1}
    BY <1>1, <1>5, Reserves
  <2>2. Lost' \subseteq Lost \cup {seq + 1}
    BY <1>3, <2>1 DEF Lost
  <2>3. CASE Suffer("reserve lost")
    BY <2>2, <2>3, FaultMore
  <2>4. CASE ~ Suffer("reserve lost")
    <3>1. PICK n : n = [req[c] EXCEPT !.at = "insert", !.hold = seq', !.order = ordered'] /\ GoOn(c, n) /\ UNCHANGED faults
      BY <1>1, <1>5, <2>4 DEF ReserveStock, CreateReservation, InStock
    <3>2. req[c] \in Request
      BY Busy DEF ReserveStock
    <3>3. req'[c] = n /\ n.at = "insert" /\ n.hold = seq + 1
      BY <2>1, <3>1, <3>2, ReqMoved DEF Request
    <3>4. seq + 1 \notin Lost'
      BY <3>3 DEF Lost, Idle
    <3>5. Lost' \subseteq Lost
      BY <2>2, <3>4
    <3> QED BY <3>1, <3>5, FaultKept
  <2> QED BY <2>3, <2>4
<1> QED BY <1>4, <1>5 DEF ReserveStock

LEMMA FaultInsert ==
  ASSUME TypeOK, ReqInv, RowInv, FaultInv, NEW c \in Client, InsertOrderRow(c), [PlaceNext]_allVars
  PROVE  FaultInv'
<1>1. PICK r : r = req[c]
  OBVIOUS
<1>2. r \in Request /\ r.at = "insert" /\ Asked(r) /\ r # Idle
  BY <1>1, Busy DEF InsertOrderRow
<1>3. Open' = Open
  BY DEF InsertOrderRow, vars, Open
<1>4. \A d \in Client \ {c} : req'[d] = req[d]
  BY ReqMoved DEF InsertOrderRow, Answer, End, Undo
<1>5. \A x \in Lost' : x \in Open /\ (x # r.hold => x \in Lost)
  BY <1>1, <1>3, <1>4, LostFrom DEF Lost
<1>6. r.hold \notin Lost'
  <2>1. CASE Undo(c)
    <3>1. PICK n : n = [r EXCEPT !.at = "undo"] /\ GoOn(c, n)
      BY <1>1, <2>1 DEF Undo
    <3>2. req'[c] = n /\ n.at = "undo" /\ n.hold = r.hold
      BY <1>2, <3>1, ReqMoved DEF Request
    <3> QED BY <3>2 DEF Lost, Idle
  <2>2. CASE MayInsert(r) /\ Inserted(r)
    <3>1. r.order \in Placed' /\ order'[r.order].hold = r.hold
      BY <1>2, <2>2, Inserts
    <3> QED BY <3>1 DEF Lost
  <2> QED BY <1>1, <2>1, <2>2 DEF InsertOrderRow
<1>7. Lost' \subseteq Lost
  BY <1>5, <1>6
<1>8. CASE UNCHANGED faults
  BY <1>7, <1>8, FaultKept
<1>9. CASE Suffer("insert failed") \/ Suffer("insert lost")
  BY <1>7, <1>9, FaultMore
<1> QED BY <1>8, <1>9 DEF InsertOrderRow

LEMMA FaultGiveBack ==
  ASSUME TypeOK, ReqInv, RowInv, FaultInv, NEW c \in Client, GiveStockBack(c), [PlaceNext]_allVars
  PROVE  FaultInv'
<1>1. PICK h : h = req[c].hold
  OBVIOUS
<1>2. h \in ResId
  BY <1>1, Busy, OpenShape DEF GiveStockBack, Asked, Taken
<1>3. \A d \in Client \ {c} : req'[d] = req[d]
  BY ReqMoved DEF GiveStockBack
<1>4. \A x \in Lost' : x \in Open /\ x # h => x \in Lost
  BY <1>1, <1>3, LostFrom
<1>5. CASE FinalizeReservation(h, "released") /\ UNCHANGED faults
  <2>1. Open' = Open \ {h}
    BY <1>2, <1>5, Releases
  <2>2. Lost' \subseteq Lost
    BY <1>4, <2>1 DEF Lost
  <2> QED BY <1>5, <2>2, FaultKept
<1>6. CASE Suffer("release failed") /\ UNCHANGED vars
  <2>1. Open' = Open
    BY <1>6 DEF vars, Open
  <2>2. Lost' \subseteq Lost \cup {h}
    BY <1>4, <2>1 DEF Lost
  <2> QED BY <1>6, <2>2, FaultMore
<1> QED BY <1>1, <1>5, <1>6 DEF GiveStockBack

LEMMA FaultStep == TypeOK /\ ReqInv /\ RowInv /\ FaultInv /\ [PlaceNext]_allVars => FaultInv'
<1> SUFFICES ASSUME TypeOK, ReqInv, RowInv, FaultInv, [PlaceNext]_allVars PROVE FaultInv'
  OBVIOUS
<1>1. ASSUME NEW c \in Client, UNCHANGED status, UNCHANGED faults,
             \A d \in Client \ {c} : req'[d] = req[d],
             req[c] = Idle \/ req[c].at = "reload" \/ req[c].hold = 0
      PROVE  FaultInv'
  <2>1. \A r \in Lost' : r \in Open
    BY <1>1, SameHolds DEF Lost
  <2>2. Lost' \subseteq Lost
    BY <1>1, <2>1, LostFrom, OpenShape
  <2> QED BY <1>1, <2>2, FaultKept
<1>2. ASSUME NEW c \in Client, Die(c) PROVE FaultInv'
  <2>1. \A d \in Client \ {c} : req'[d] = req[d]
    BY <1>2, ReqMoved DEF Die, End
  <2>2. \A r \in Lost' : r \in Open
    BY <1>2, SameHolds DEF Lost, Die, vars
  <2>3. Lost' \subseteq Lost \cup {req[c].hold}
    BY <2>1, <2>2, LostFrom
  <2> QED BY <1>2, <2>3, FaultMore DEF Die
<1>3. CASE UNCHANGED <<status, order, req, faults>>
  <2>1. Lost' = Lost
    BY <1>3, SameHolds DEF Lost, Placed
  <2> QED BY <1>3, <2>1, FaultKept
<1>4. ASSUME NEW c \in Client, NEW key \in Keys \cup {NoKey}, NEW input \in Inputs, LookUpKey(c, key, input)
      PROVE  FaultInv'
  <2>1. UNCHANGED <<status, faults>> /\ req[c] = Idle
    BY <1>4 DEF LookUpKey, vars
  <2>2. \A d \in Client \ {c} : req'[d] = req[d]
    BY <1>4, ReqMoved DEF LookUpKey, Replay, Answer, End
  <2> QED BY <1>1, <2>1, <2>2
<1>5. ASSUME NEW c \in Client, PriceLine(c) PROVE FaultInv'
  <2>1. UNCHANGED <<status, faults>> /\ req[c].hold = 0
    BY <1>5, Busy DEF PriceLine, Asked, vars
  <2>2. \A d \in Client \ {c} : req'[d] = req[d]
    BY <1>5, ReqMoved DEF PriceLine, End
  <2> QED BY <1>1, <2>1, <2>2
<1>6. ASSUME NEW c \in Client, ReloadByKey(c) PROVE FaultInv'
  <2>1. UNCHANGED <<status, faults>> /\ req[c].at = "reload"
    BY <1>6 DEF ReloadByKey, vars
  <2>2. \A d \in Client \ {c} : req'[d] = req[d]
    BY <1>6, ReqMoved DEF ReloadByKey, Replay, Answer, End
  <2> QED BY <1>1, <2>1, <2>2
<1>7. ASSUME NEW s \in Sku, NEW q \in Quantities, Restock(s, q) PROVE FaultInv'
  BY <1>3, <1>7 DEF Restock, SetQuantity
<1>8. ASSUME NEW s \in Sku, NEW p \in Prices, Reprice(s, p) PROVE FaultInv'
  BY <1>3, <1>8 DEF Reprice, vars
<1>9. CASE UNCHANGED allVars
  BY <1>3, <1>9 DEF allVars, vars, placeVars
<1> QED BY <1>2, <1>4, <1>5, <1>6, <1>7, <1>8, <1>9, FaultReserve, FaultInsert, FaultGiveBack DEF PlaceNext

----------------------------------------------------------------------------
(* Placed orders keep their stock.                                          *)

LEMMA PlacedHoldsStep ==
  "insert lost" \notin Faults /\ TypeOK /\ ReqInv /\ RowInv /\ PlacedHolds /\ [PlaceNext]_allVars => PlacedHolds'
<1> SUFFICES ASSUME "insert lost" \notin Faults, TypeOK, ReqInv, RowInv, PlacedHolds, [PlaceNext]_allVars
             PROVE  PlacedHolds'
  OBVIOUS
<1>1. ASSUME NEW c \in Client, InsertOrderRow(c) PROVE PlacedHolds'
  <2>1. PICK r : r = req[c]
    OBVIOUS
  <2>2. /\ r \in Request /\ r.at = "insert" /\ Asked(r) /\ r # Idle /\ r.hold \in Open
        /\ \A o \in Placed : order[o].hold # r.hold
    BY <1>1, <2>1, Busy DEF InsertOrderRow, Asked
  <2>3. Open' = Open
    BY <1>1 DEF InsertOrderRow, vars, Open
  <2>4. \A d \in Client \ {c} : req'[d] = req[d]
    BY <1>1, ReqMoved DEF InsertOrderRow, Answer, End, Undo
  <2>5. CASE Undo(c) /\ UNCHANGED order
    <3>1. PICK n : n = [r EXCEPT !.at = "undo"] /\ GoOn(c, n)
      BY <2>1, <2>5 DEF Undo
    <3>2. req'[c] = n /\ n.hold = r.hold
      BY <2>2, <3>1, ReqMoved DEF Request
    <3> QED BY <2>2, <2>3, <2>4, <2>5, <3>2 DEF PlacedHolds, Placed
  <2>6. CASE End(c) /\ MayInsert(r) /\ Inserted(r)
    <3>1. /\ Placed' = Placed \cup {r.order} /\ order'[r.order].hold = r.hold
          /\ \A o \in Placed : order'[o] = order[o]
      BY <2>2, <2>6, Inserts DEF Placed
    <3>2. req'[c] = Idle
      BY <2>6, ReqMoved DEF End
    <3>3. ASSUME NEW d \in Client, req'[d].at = "undo" PROVE \A o \in Placed' : order'[o].hold # req'[d].hold
      <4>1. d # c /\ req'[d] = req[d]
        BY <2>4, <3>2, <3>3, IdleAt
      <4>2. req[d].hold # r.hold
        BY <2>1, <2>2, <3>3, <4>1 DEF ReqInv, Apart, Taken
      <4> QED BY <3>1, <3>3, <4>1, <4>2 DEF PlacedHolds
    <3> QED BY <2>2, <2>3, <3>1, <3>3 DEF PlacedHolds
  <2>7. ~ Suffer("insert lost")
    BY DEF Suffer
  <2> QED BY <1>1, <2>1, <2>5, <2>6, <2>7 DEF InsertOrderRow, Answer
<1>2. ASSUME NEW c \in Client, GiveStockBack(c) PROVE PlacedHolds'
  <2>1. PICK r : r = req[c]
    OBVIOUS
  <2>2. r \in Request /\ r.at = "undo" /\ r.hold \in ResId
    BY <1>2, <2>1, Busy, OpenShape DEF GiveStockBack, Asked, Taken
  <2>3. UNCHANGED order /\ (Open' = Open \/ Open' = Open \ {r.hold})
    BY <1>2, <2>1, <2>2, Releases DEF GiveStockBack, vars, Open
  <2>4. PICK n : n = [r EXCEPT !.at = "reload"] /\ GoOn(c, n)
    BY <1>2, <2>1 DEF GiveStockBack
  <2>5. req'[c] = n /\ n.at = "reload" /\ \A d \in Client \ {c} : req'[d] = req[d]
    BY <2>2, <2>4, ReqMoved DEF Request
  <2>6. \A o \in Placed : order[o].hold # r.hold
    BY <2>1, <2>2 DEF PlacedHolds
  <2> QED BY <2>3, <2>5, <2>6 DEF PlacedHolds, Placed
<1>3. ASSUME NEW c \in Client, UNCHANGED order, Open \subseteq Open',
             \A d \in Client \ {c} : req'[d] = req[d], req'[c].at # "undo"
      PROVE  PlacedHolds'
  BY <1>3 DEF PlacedHolds, Placed
<1>4. ASSUME NEW c \in Client, End(c), UNCHANGED <<order, status>> PROVE PlacedHolds'
  <2>1. req'[c] = Idle /\ \A d \in Client \ {c} : req'[d] = req[d]
    BY <1>4, ReqMoved DEF End
  <2>2. req'[c].at # "undo" /\ Open' = Open
    BY <1>4, <2>1, IdleAt, SameHolds
  <2> QED BY <1>3, <1>4, <2>1, <2>2
<1>5. ASSUME NEW c \in Client, NEW key \in Keys \cup {NoKey}, NEW input \in Inputs, LookUpKey(c, key, input)
      PROVE  PlacedHolds'
  <2>1. UNCHANGED <<order, status>>
    BY <1>5 DEF LookUpKey, vars
  <2>2. CASE End(c)
    BY <1>4, <2>1, <2>2
  <2>3. CASE ~ End(c)
    <3>1. PICK n : n.at = "price" /\ GoOn(c, n)
      BY <1>5, <2>3 DEF LookUpKey, Replay, Answer
    <3>2. req'[c] = n /\ \A d \in Client \ {c} : req'[d] = req[d]
      BY <3>1, ReqMoved
    <3> QED BY <1>3, <2>1, <3>1, <3>2, SameHolds
  <2> QED BY <2>2, <2>3
<1>6. ASSUME NEW c \in Client, PriceLine(c) PROVE PlacedHolds'
  <2>1. UNCHANGED <<order, status>>
    BY <1>6 DEF PriceLine, vars
  <2>2. CASE End(c)
    BY <1>4, <2>1, <2>2
  <2>3. CASE ~ End(c)
    <3>1. req[c] \in Request
      BY <1>6, Busy DEF PriceLine
    <3>2. PICK ps, w : w # "undo" /\ GoOn(c, [req[c] EXCEPT !.prices = ps, !.at = w])
      BY <1>6, <2>3 DEF PriceLine
    <3>3. PICK n : n = [req[c] EXCEPT !.prices = ps, !.at = w] /\ GoOn(c, n)
      BY <3>2
    <3>4. req'[c] = n /\ n.at = w /\ \A d \in Client \ {c} : req'[d] = req[d]
      BY <3>1, <3>3, ReqMoved DEF Request
    <3> QED BY <1>3, <2>1, <3>2, <3>4, SameHolds
  <2> QED BY <2>2, <2>3
<1>7. ASSUME NEW c \in Client, ReserveStock(c) PROVE PlacedHolds'
  <2>1. UNCHANGED order /\ req[c] \in Request /\ UnitsAsked(req[c].input) \in Requests
    BY <1>7, Busy, BodyAssumption DEF ReserveStock, Request
  <2>2. CASE ~ CreateReservation(UnitsAsked(req[c].input))
    <3>1. End(c) /\ UNCHANGED status
      BY <1>7, <2>2 DEF ReserveStock, vars
    <3> QED BY <1>4, <2>1, <3>1
  <2>3. CASE CreateReservation(UnitsAsked(req[c].input))
    <3>1. Open \subseteq Open'
      BY <2>1, <2>3, Reserves
    <3>2. PICK n : n.at # "undo" /\ GoOn(c, n)
      BY <1>7, <2>1, <2>3 DEF ReserveStock, CreateReservation, InStock, End, Idle, Request
    <3>3. req'[c] = n /\ \A d \in Client \ {c} : req'[d] = req[d]
      BY <3>2, ReqMoved
    <3> QED BY <1>3, <2>1, <3>1, <3>2, <3>3
  <2> QED BY <2>2, <2>3
<1>8. ASSUME NEW c \in Client, ReloadByKey(c) \/ Die(c) PROVE PlacedHolds'
  BY <1>4, <1>8 DEF ReloadByKey, Replay, Answer, Die, vars
<1>9. CASE UNCHANGED <<status, order, req>>
  BY <1>9, SameHolds DEF PlacedHolds, Placed
<1>10. ASSUME NEW s \in Sku, NEW q \in Quantities, Restock(s, q) PROVE PlacedHolds'
  BY <1>9, <1>10 DEF Restock, SetQuantity
<1>11. ASSUME NEW s \in Sku, NEW p \in Prices, Reprice(s, p) PROVE PlacedHolds'
  BY <1>9, <1>11 DEF Reprice, vars
<1>12. CASE UNCHANGED allVars
  BY <1>9, <1>12 DEF allVars, vars, placeVars
<1> QED BY <1>1, <1>2, <1>5, <1>6, <1>7, <1>8, <1>10, <1>11, <1>12 DEF PlaceNext

----------------------------------------------------------------------------
LEMMA PlaceBegins == PlaceInit => PlaceInv /\ PlacedHolds
<1> SUFFICES ASSUME PlaceInit PROVE PlaceInv /\ PlacedHolds
  OBVIOUS
<1>1. TypeOK
  BY TypeInit DEF PlaceInit
<1>2. \A c \in Client : req[c] = Idle
  BY DEF PlaceInit
<1>3. ReqInv
  <2>1. req = [c \in Client |-> req[c]]
    BY DEF PlaceInit
  <2>2. \A c \in Client : Asked(req[c])
    BY <1>2 DEF Asked
  <2>3. \A c, d \in Client : Apart(req[c], req[d])
    BY <1>2, IdleAt DEF Apart, Taken
  <2> QED BY <2>1, <2>2, <2>3 DEF ReqInv
<1>4. Placed = {}
  BY DEF PlaceInit, Placed
<1>5. RowInv
  <2>1. order = [o \in Number |-> order[o]] /\ ordered \in 0 .. MaxOrders /\ price \in [Sku -> Prices]
    BY PlaceBounds DEF PlaceInit
  <2>2. keyed \in [Keys -> {0} \cup Placed] /\ \A k \in Keys : keyed[k] = 0
    BY DEF PlaceInit
  <2> QED BY <1>4, <2>1, <2>2 DEF RowInv
<1>6. ToldInv
  BY DEF PlaceInit, ToldInv
<1>7. Lost = {}
  BY DEF Lost, PlaceInit, Init, Open
<1>8. FaultInv
  BY <1>7, PlaceBounds, FS_EmptySet DEF PlaceInit, FaultInv
<1>9. PlacedHolds
  BY <1>2, <1>4, IdleAt DEF PlacedHolds
<1> QED BY <1>1, <1>3, <1>5, <1>6, <1>8, <1>9 DEF PlaceInv

LEMMA PlaceStep == PlaceInv /\ [PlaceNext]_allVars => PlaceInv'
<1> SUFFICES ASSUME PlaceInv, [PlaceNext]_allVars PROVE PlaceInv'
  OBVIOUS
<1>1. TypeOK /\ ReqInv /\ RowInv /\ ToldInv /\ FaultInv
  BY DEF PlaceInv
<1>2. [Next]_vars
  BY <1>1, PlaceUsesStock
<1>3. TypeOK'
  BY <1>1, <1>2, TypeStep
<1> QED BY <1>1, <1>3, ReqStep, RowsStep, ToldStep, FaultStep DEF PlaceInv

LEMMA PlaceInvariant == PlaceSpec => []PlaceInv
BY PlaceBegins, PlaceStep, PTL DEF PlaceSpec

(* The tables of the order service: numbers come from the sequence, rows    *)
(* have a reservation that was made, and a key names a placed order.        *)
THEOREM PlaceTypeCorrect == PlaceSpec => []PlaceTypeOK
<1>1. PlaceInv => PlaceTypeOK
  BY DEF PlaceInv, RowInv, RowSound, FaultInv, PlaceTypeOK
<1> QED BY <1>1, PlaceInvariant, PTL

(* However often and however much at once a request is sent under one key,   *)
(* it places one order, and every answer names that order and answers the   *)
(* body that was sent, whatever calls fail or lose their reply.             *)
THEOREM OneKeyOneOrder == PlaceSpec => []OneOrderPerKey
<1>1. PlaceInv => OneOrderPerKey
  <2> SUFFICES ASSUME PlaceInv PROVE OneOrderPerKey
    OBVIOUS
  <2>1. \A a \in Placed : order[a].key # NoKey => keyed[order[a].key] = a
    BY DEF PlaceInv, RowInv, RowSound
  <2>2. \A t \in answers : Answered(t)
    BY DEF PlaceInv, ToldInv
  <2> QED BY <2>1, <2>2 DEF OneOrderPerKey, Answered
<1> QED BY <1>1, PlaceInvariant, PTL

LEMMA PlaceKeeps ==
  ASSUME PlaceInv
  PROVE  ForgottenHoldsAreFaults /\ TotalIsSound
<1>1. TypeOK /\ FaultInv /\ RowInv
  BY DEF PlaceInv
<1>2. IsFiniteSet(Open)
  BY <1>1, OpenShape
<1>3. IsFiniteSet(Lost) /\ Forgotten \subseteq Lost
  BY <1>2, FS_Subset DEF Lost, Forgotten
<1>4. Cardinality(Forgotten) <= Cardinality(Lost) /\ Cardinality(Forgotten) \in Nat /\ Cardinality(Lost) \in Nat
  BY <1>3, FS_Subset, FS_CardinalityType
<1>5. ForgottenHoldsAreFaults
  BY <1>1, <1>4, PlaceBounds DEF FaultInv, ForgottenHoldsAreFaults
<1>6. \A o \in Placed : TotalSound(order[o])
  BY <1>1 DEF RowInv, RowSound
<1> QED BY <1>5, <1>6 DEF TotalIsSound, TotalSound

(* Whatever fails and whatever reply is lost: an order's total is what its   *)
(* parts say, and stock held for nothing is the trace of a fault.           *)
THEOREM PlacedWithFaults == PlaceSpec => [](ForgottenHoldsAreFaults /\ TotalIsSound)
<1>1. PlaceInv => ForgottenHoldsAreFaults /\ TotalIsSound
  BY PlaceKeeps
<1> QED BY <1>1, PlaceInvariant, PTL

(* While no insert commits and loses its reply (CreateOrder then gives back  *)
(* the stock of an order that was placed), every order a client was         *)
(* answered with has the stock of its lines, as well.                       *)
THEOREM PlacedOrdersAreSound ==
  ASSUME "insert lost" \notin Faults
  PROVE  PlaceSpec => []PlacedIsSound
<1>1. PlaceInv /\ PlacedHolds /\ [PlaceNext]_allVars => PlacedHolds'
  BY PlacedHoldsStep DEF PlaceInv
<1>2. PlaceInv /\ PlacedHolds => PlacedIsSound
  <2> SUFFICES ASSUME PlaceInv, PlacedHolds PROVE PlacedIsSound
    OBVIOUS
  <2>1. \A t \in answers : t.order \in Placed
    BY DEF PlaceInv, ToldInv, Answered
  <2>2. AnsweredOrderHoldsStock
    BY <2>1 DEF PlacedHolds, PlaceInv, RowInv, RowSound, AnsweredOrderHoldsStock
  <2> QED BY <2>2, PlaceKeeps DEF PlacedIsSound
<1> QED BY <1>1, <1>2, PlaceBegins, PlaceInvariant, PTL DEF PlaceSpec
============================================================================
