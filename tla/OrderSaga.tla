----------------------------- MODULE OrderSaga -----------------------------
(***************************************************************************)
(* The life of an order across three services: the order service's row     *)
(* (order/pkg), the stock reservation in the product service (Inventory)   *)
(* and the captured payment in the payment service.                        *)
(*                                                                         *)
(* There is no distributed transaction.  A request of the order service is *)
(* a sequence of calls and each call is a step here: read the row, call    *)
(* product or payment, write the row back.  Guarded writes (UPDATE ...     *)
(* WHERE status = ...) check the row they overwrite; SaveWithOutbox writes *)
(* every column of the row as it was read.  Requests, workers and event    *)
(* consumers run concurrently.                                             *)
(*                                                                         *)
(* Events travel over core NATS: one that was published may be delivered   *)
(* late, again (the outbox retries, the reconcile worker republishes) or   *)
(* never, and two events in either order.                                  *)
(***************************************************************************)
EXTENDS Inventory

CONSTANTS
  NumOrders,      \* orders that are placed
  ItemsOf,        \* units per sku of each order
  Payment,        \* payments
  PaymentOrder,   \* the order each payment is for
  NoPayment,      \* payment_id of an order that was never paid
  Proc,           \* requests, workers and consumers that run concurrently
  Serves,         \* the handlers each of them runs
  CallsMayFail    \* whether calls fail and processes die between two steps

Order == 1..NumOrders

ASSUME OrderAssumption ==
  /\ NumOrders \in Nat
  /\ ItemsOf \in [Order -> Requests]

ASSUME PaymentAssumption ==
  /\ PaymentOrder \in [Payment -> Order]
  /\ NoPayment \notin Payment

ASSUME ProcAssumption == CallsMayFail \in BOOLEAN

VARIABLES
  orders,     \* table orders
  filmed,     \* orders with an inspection video
  use,        \* the order's use of its promotional code
  holder,     \* reservations.order_id
  payments,   \* payments.status
  refunded,   \* payments whose money went back
  events,     \* events ever published
  told,       \* payments whose payment.canceled the order service has handled
  call        \* what each process is doing

orderVars   == <<orders, filmed, use>>
paymentVars == <<payments, refunded, events>>
sagaVars    == <<rows, retired, quantity, reserved, seq, status, lines, deleted, soldCount,
                 orders, filmed, use, holder, payments, refunded, events, told, call>>

PreShip  == {"paid", "confirmed"}
Shipping == {"in_transit", "delivered", "disputed"}
Final    == {"fulfilled", "canceled"}
Shipped  == Shipping \cup {"fulfilled"}

OrderStatus == {"new", "pending"} \cup PreShip \cup Shipping \cup Final

Cancelable(st) == st \notin Final \cup {"new"}

NewRow == [status |-> "new", reservation |-> 0, payment |-> NoPayment, requested |-> FALSE]

NoCall == [at |-> "idle", order |-> 0, row |-> NewRow, payment |-> NoPayment, hold |-> 0]

Event(kind, q) == [kind |-> kind, payment |-> q]

----------------------------------------------------------------------------
SagaInit ==
  /\ Init
  /\ rows = Sku
  /\ orders = [o \in Order |-> NewRow]
  /\ filmed = {}
  /\ use = [o \in Order |-> "none"]
  /\ holder = [r \in ResId |-> 0]
  /\ payments = [q \in Payment |-> "none"]
  /\ refunded = {}
  /\ events = {}
  /\ told = {}
  /\ call = [p \in Proc |-> NoCall]

\* Process p is at step `at` of its request.
At(p, at) == call[p].at = at
Free(p, handler) == At(p, "idle") /\ handler \in Serves[p]

\* The row in the database now, and the row as the request read it.
Db(p)   == orders[call[p].order]
Read(p) == call[p].row

Goto(p, at)       == call' = [call EXCEPT ![p].at = at]
GotoWith(p, at, r) == call' = [call EXCEPT ![p].at = at, ![p].row = r]
Return(p)         == call' = [call EXCEPT ![p] = NoCall]

\* A request on order o that goes on at step `at` with row r in memory.
Start(p, o, at, r) == call' = [call EXCEPT ![p] = [NoCall EXCEPT !.at = at, !.order = o, !.row = r]]

Write(p, r) == orders' = [orders EXCEPT ![call[p].order] = r]

NoStock   == UNCHANGED <<vars, holder>>
NoOrder   == UNCHANGED orderVars
NoPay     == UNCHANGED paymentVars
OnlyCall  == NoStock /\ NoOrder /\ NoPay /\ UNCHANGED told
OnlyRow   == NoStock /\ NoPay /\ UNCHANGED <<filmed, use, told>>
OnlyStock == NoOrder /\ NoPay /\ UNCHANGED told

\* POST /inventory/reservations for order o; the new id is seq + 1.
Reserve(o) ==
  /\ CreateReservation(ItemsOf[o])
  /\ holder' = [holder EXCEPT ![seq + 1] = o]

CanReserve(o) ==
  /\ seq < MaxReservations
  /\ \A s \in Wanted(ItemsOf[o]) : Available(s) >= ItemsOf[o][s]

\* Releasing a closed reservation is an error the callers ignore or log.
Release(r) ==
  IF status[r] = "active"
  THEN FinalizeReservation(r, "released") /\ UNCHANGED holder
  ELSE NoStock

----------------------------------------------------------------------------
(* Placing an order: reserve, insert the row, claim the code's use.         *)

Place(p, o) ==
  /\ Free(p, "place")
  /\ orders[o] = NewRow
  /\ \A u \in Proc : call[u].order = o => ~ At(u, "insert")
  /\ Reserve(o)
  /\ call' = [call EXCEPT ![p] = [NoCall EXCEPT !.at = "insert", !.order = o, !.hold = seq + 1]]
  /\ OnlyStock

InsertOrder(p) ==
  /\ At(p, "insert")
  /\ Write(p, [NewRow EXCEPT !.status = "pending", !.reservation = call[p].hold])
  /\ Goto(p, "claim")
  /\ OnlyRow

(* The order is payable, and cancelable, before the use is claimed. *)
ClaimUse(p) ==
  /\ At(p, "claim")
  /\ use' = [use EXCEPT ![call[p].order] = "reserved"]
  /\ Return(p)
  /\ NoStock /\ NoPay /\ UNCHANGED <<orders, filmed, told>>

----------------------------------------------------------------------------
(* MarkOrderPaid: the payment.succeeded consumer.  An order the expiry      *)
(* worker canceled is reinstated with a new reservation.                    *)

Applied(row, q) == row.payment = q /\ row.status # "pending"

\* Slip: a payment that arrives after the order expired is dropped.
MarkPaidPendingOnly(p, q) ==
  LET o == PaymentOrder[q]
  IN
  /\ Free(p, "markPaid")
  /\ Event("payment.succeeded", q) \in events
  /\ orders[o].status = "pending"
  /\ call' = [call EXCEPT ![p] = [NoCall EXCEPT !.at = "reread", !.order = o,
                                                 !.row = orders[o], !.payment = q]]
  /\ OnlyCall

\* Slip: a payment that is announced again is not recognized.
MarkPaidAgain(p, q) ==
  LET o == PaymentOrder[q]
      r == orders[o]
  IN
  /\ Free(p, "markPaid")
  /\ Event("payment.succeeded", q) \in events
  /\ r.status \in {"pending", "canceled"}
  /\ call' = [call EXCEPT ![p] =
                [NoCall EXCEPT !.at = IF r.status = "pending" THEN "reread" ELSE "reinstate",
                               !.order = o, !.row = r, !.payment = q]]
  /\ OnlyCall

MarkPaid(p, q) ==
  LET o == PaymentOrder[q]
      r == orders[o]
  IN
  /\ Free(p, "markPaid")
  /\ Event("payment.succeeded", q) \in events
  /\ ~ Applied(r, q)
  /\ r.status \in {"pending", "canceled"}
  /\ call' = [call EXCEPT ![p] =
                [NoCall EXCEPT !.at = IF r.status = "pending" THEN "reread" ELSE "reinstate",
                               !.order = o, !.row = r, !.payment = q]]
  /\ OnlyCall

RereadPending(p) ==
  /\ At(p, "reread")
  /\ IF Applied(Db(p), call[p].payment)   THEN Return(p)
     ELSE IF Db(p).status = "canceled"    THEN GotoWith(p, "reinstate", Db(p))
     ELSE Goto(p, "savePaid")
  /\ OnlyCall

\* On the second try the first new reservation is not looked at again.
Reinstate(p) ==
  /\ call[p].at \in {"reinstate", "reinstateAgain"}
  /\ IF CanReserve(call[p].order)
     THEN /\ Reserve(call[p].order)
          /\ call' = [call EXCEPT ![p].hold = seq + 1,
                                  ![p].at = IF @ = "reinstate" THEN "savePaid" ELSE "savePaidAgain"]
     ELSE Return(p) /\ NoStock
  /\ OnlyStock

(* Slip: the save does not look at the status the expiry worker wrote. *)
SavePaidAnyway(p) ==
  LET c == call[p]
  IN
  /\ c.at \in {"savePaid", "savePaidAgain"}
  /\ Write(p, [Db(p) EXCEPT !.status = "paid", !.payment = c.payment,
                             !.reservation = IF c.hold = 0 THEN c.row.reservation ELSE c.hold])
  /\ Goto(p, "consume")
  /\ OnlyRow

\* SavePaidIfCanceled after a reinstatement, SavePaidIfPending otherwise.
SavePaid(p) ==
  LET c == call[p]
      from == IF c.hold = 0 THEN "pending" ELSE "canceled"
  IN
  /\ c.at \in {"savePaid", "savePaidAgain"}
  /\ IF Db(p).status = from
     THEN /\ Write(p, [Db(p) EXCEPT !.status = "paid", !.payment = c.payment,
                                    !.reservation = IF c.hold = 0 THEN c.row.reservation ELSE c.hold])
          /\ Goto(p, "consume")
     ELSE /\ Goto(p, IF c.at = "savePaid" THEN "recheck" ELSE "undo")
          /\ UNCHANGED orders
  /\ OnlyRow

RecheckPaid(p) ==
  /\ At(p, "recheck")
  /\ IF ~ Applied(Db(p), call[p].payment) /\ Db(p).status = "canceled"
     THEN GotoWith(p, "reinstateAgain", Db(p))
     ELSE IF call[p].hold = 0 THEN Return(p) ELSE Goto(p, "undo")
  /\ OnlyCall

UndoReinstate(p) ==
  /\ At(p, "undo")
  /\ Release(call[p].hold)
  /\ Return(p)
  /\ OnlyStock

\* A released use is taken again; an order without a use is ignored.
ConsumeUse(p) ==
  /\ At(p, "consume")
  /\ use' = [use EXCEPT ![call[p].order] = IF @ = "none" THEN @ ELSE "consumed"]
  /\ Return(p)
  /\ NoStock /\ NoPay /\ UNCHANGED <<orders, filmed, told>>

----------------------------------------------------------------------------
(* ConfirmOrder, by a manager or after two hours by the policy worker.      *)

Confirm(p, o) ==
  /\ Free(p, "confirm")
  /\ orders[o].status = "paid"
  /\ Start(p, o, "confirm", orders[o])
  /\ OnlyCall

ConfirmIfPaid(p) ==
  /\ At(p, "confirm")
  /\ IF Db(p).status = "paid"
     THEN Write(p, [Db(p) EXCEPT !.status = "confirmed"])
     ELSE UNCHANGED orders
  /\ Return(p)
  /\ OnlyRow

(* SetInspectionVideo locks the row and checks its status. *)
SetInspectionVideo(o) ==
  /\ orders[o].status \in PreShip \cup Shipping
  /\ filmed' = filmed \cup {o}
  /\ NoStock /\ NoPay /\ UNCHANGED <<orders, use, told, call>>

----------------------------------------------------------------------------
(* ShipOrder: commit the stock, then move the row.                          *)

(* Slip: the row is moved before the stock is committed. *)
ShipFirst(p, o) ==
  /\ Free(p, "ship")
  /\ orders[o].status = "confirmed"
  /\ Start(p, o, "ship", orders[o])
  /\ OnlyCall

Ship(p, o) ==
  /\ Free(p, "ship")
  /\ orders[o].status = "confirmed"
  /\ o \in filmed
  /\ Start(p, o, "commit", orders[o])
  /\ OnlyCall

\* An already committed reservation is a retry; a released one ends the request.
CommitStock(p) ==
  LET r == Read(p).reservation
  IN
  /\ At(p, "commit")
  /\ CASE status[r] = "active"    -> /\ FinalizeReservation(r, "committed")
                                     /\ UNCHANGED holder
                                     /\ Goto(p, "ship")
       [] status[r] = "committed" -> NoStock /\ Goto(p, "ship")
       [] OTHER                   -> NoStock /\ Return(p)
  /\ OnlyStock

ShipIfConfirmed(p) ==
  /\ At(p, "ship")
  /\ IF Db(p).status = "confirmed"
     THEN Write(p, [Db(p) EXCEPT !.status = "in_transit"])
     ELSE UNCHANGED orders
  /\ Return(p)
  /\ OnlyRow

----------------------------------------------------------------------------
(* CancelOrder: refund what was captured, cancel the row, give back what    *)
(* the order held.                                                          *)

\* Slip: the row is canceled first and the refund left to the operator.
BeginCancelUnrefunded(p, o) ==
  /\ Cancelable(orders[o].status)
  /\ Start(p, o, IF orders[o].status = "pending" THEN "cancelPending" ELSE "cancelSave", orders[o])
  /\ OnlyCall

\* Also what ApproveCancelRequest and CustomerCancel end in.
BeginCancel(p, o) ==
  /\ Cancelable(orders[o].status)
  /\ Start(p, o, IF orders[o].status = "pending" THEN "cancelPending" ELSE "refund", orders[o])
  /\ OnlyCall

Cancel(p, o) == Free(p, "cancel") /\ BeginCancel(p, o)

\* The code was spent between evaluating and claiming it.
ClaimRefused(p) == At(p, "claim") /\ BeginCancel(p, call[p].order)

(* Slip: the worker waits for payments that are still open. *)
ExpireUnlessOpen(p, o) ==
  /\ Free(p, "expire")
  /\ orders[o].status = "pending"
  /\ \A q \in Payment : PaymentOrder[q] = o => payments[q] # "open"
  /\ Start(p, o, "cancelPending", orders[o])
  /\ OnlyCall

(* The expiry worker writes under the same guard, pending. *)
Expire(p, o) ==
  /\ Free(p, "expire")
  /\ orders[o].status = "pending"
  /\ Start(p, o, "cancelPending", orders[o])
  /\ OnlyCall

(* The payment.canceled consumer.  Anything but a paid or confirmed order   *)
(* with this very payment is left alone.                                    *)
RefundedEvent(q) == Event("payment.canceled", q) \in events
CancelsOnRefund(r, q) == r.payment = q /\ r.status \in PreShip

CancelForRefund(p, q) ==
  LET o == PaymentOrder[q]
  IN
  /\ Free(p, "refunded")
  /\ RefundedEvent(q)
  /\ IF CancelsOnRefund(orders[o], q)
     THEN Start(p, o, "cancelRefunded", orders[o]) /\ UNCHANGED told
     ELSE told' = told \cup {q} /\ UNCHANGED call
  /\ NoStock /\ NoOrder /\ NoPay

\* A full refund, of an order that was paid.  One already made counts as done when payment says so (the
\* payment is canceled, or the idempotency key is its last); else it ends here.
RefundCaptured(p) ==
  LET q == Read(p).payment
  IN
  /\ At(p, "refund")
  /\ CASE q # NoPayment /\ payments[q] = "succeeded" /\ q \notin refunded ->
              /\ payments' = [payments EXCEPT ![q] = "canceled"]
              /\ refunded' = refunded \cup {q}
              /\ events' = events \cup {Event("payment.canceled", q)}
              /\ Goto(p, "reget")
       [] q = NoPayment \/ payments[q] = "canceled" -> NoPay /\ Goto(p, "reget")
       [] OTHER -> NoPay /\ (Goto(p, "reget") \/ Return(p))
  /\ NoStock /\ NoOrder /\ UNCHANGED told

RegetRefunded(p) ==
  /\ At(p, "reget")
  /\ IF Cancelable(Db(p).status)
     THEN GotoWith(p, IF Db(p).status \in PreShip THEN "cancelPaid" ELSE "cancelSave", Db(p))
     ELSE Return(p)
  /\ OnlyCall

\* Slip: the canceled order keeps what it held.
CancelIfPendingKeepsHold(p) ==
  /\ At(p, "cancelPending")
  /\ IF Db(p).status = "pending"
     THEN Write(p, [Db(p) EXCEPT !.status = "canceled"])
     ELSE UNCHANGED orders
  /\ Return(p)
  /\ OnlyRow

CancelIfPending(p) ==
  /\ At(p, "cancelPending")
  /\ IF Db(p).status = "pending"
     THEN /\ Write(p, [Db(p) EXCEPT !.status = "canceled"])
          /\ GotoWith(p, "release", Db(p))
     ELSE Return(p) /\ UNCHANGED orders
  /\ OnlyRow

\* CancelIfPaidForRefund, for the operator and for the consumer.
CancelIfPaidForRefund(p) ==
  LET q == Read(p).payment
  IN
  /\ call[p].at \in {"cancelPaid", "cancelRefunded"}
  /\ IF CancelsOnRefund(Db(p), q)
     THEN /\ Write(p, [Db(p) EXCEPT !.status = "canceled"])
          /\ GotoWith(p, "release", Db(p))
     ELSE /\ IF At(p, "cancelPaid") THEN Goto(p, "reconcile") ELSE Return(p)
          /\ UNCHANGED orders
  /\ told' = IF At(p, "cancelRefunded") THEN told \cup {q} ELSE told
  /\ NoStock /\ NoPay /\ UNCHANGED <<filmed, use>>

\* A ship won the race after the refund: cancel what it left.
ReconcileCancel(p) ==
  /\ At(p, "reconcile")
  /\ IF Cancelable(Db(p).status) THEN GotoWith(p, "cancelSave", Db(p)) ELSE Return(p)
  /\ OnlyCall

\* The whole row as it was read; committed stock is not given back.
CancelSave(p) ==
  /\ At(p, "cancelSave")
  /\ Write(p, [Read(p) EXCEPT !.status = "canceled"])
  /\ IF Read(p).status \in Shipping THEN Return(p) ELSE Goto(p, "release")
  /\ OnlyRow

\* releaseHoldsForCancel: the stock, then the code; a failure is logged.
ReleaseStock(p) ==
  /\ At(p, "release")
  /\ Release(Read(p).reservation) \/ (CallsMayFail /\ NoStock)
  /\ Goto(p, "releaseUse")
  /\ OnlyStock

ReleaseUse(p) ==
  /\ At(p, "releaseUse")
  /\ use' = [use EXCEPT ![call[p].order] = IF @ = "none" THEN @ ELSE "released"]
  /\ Return(p)
  /\ NoStock /\ NoPay /\ UNCHANGED <<orders, filmed, told>>

----------------------------------------------------------------------------
(* The handlers that read the row, change it in memory and save all of it. *)

Amend(p, handler, o, from, r) ==
  /\ Free(p, handler)
  /\ orders[o].status \in from
  /\ Start(p, o, "save", r)
  /\ OnlyCall

Deliver(p, o) ==
  Amend(p, "deliver", o, {"in_transit"}, [orders[o] EXCEPT !.status = "delivered"])

ConfirmReceipt(p, o) ==
  Amend(p, "receipt", o, {"delivered"}, [orders[o] EXCEPT !.status = "fulfilled"])

ReportNotReceived(p, o) ==
  Amend(p, "dispute", o, {"delivered"},
        [orders[o] EXCEPT !.status = "disputed", !.requested = FALSE])

ResolveDisputeFulfilled(p, o) ==
  Amend(p, "resolve", o, {"disputed"}, [orders[o] EXCEPT !.status = "fulfilled"])

\* Slip: an order with an open cancel request is passed over.
FulfillUnlessRequested(p, o) ==
  /\ ~ orders[o].requested
  /\ Amend(p, "fulfill", o, {"delivered", "disputed"}, [orders[o] EXCEPT !.status = "fulfilled"])

\* A manager, or the policy worker fourteen days after delivery.
Fulfill(p, o) ==
  Amend(p, "fulfill", o, {"delivered", "disputed"}, [orders[o] EXCEPT !.status = "fulfilled"])

RequestCancel(p, o) ==
  /\ ~ orders[o].requested
  /\ Amend(p, "request", o, {"confirmed", "in_transit", "delivered"},
           [orders[o] EXCEPT !.requested = TRUE])

\* Rejecting where nothing was requested saves the row unchanged.
RejectCancelRequest(p, o) ==
  Amend(p, "reject", o,
        IF orders[o].requested THEN {"confirmed", "in_transit", "delivered"}
                               ELSE OrderStatus \ {"new"},
        [orders[o] EXCEPT !.requested = FALSE])

SaveWithOutbox(p) ==
  /\ At(p, "save")
  /\ Write(p, Read(p))
  /\ Return(p)
  /\ OnlyRow

----------------------------------------------------------------------------
(* The payment service, as far as orders see it.                            *)

PaysFor(o) == {q \in Payment : PaymentOrder[q] = o}

NoneSucceeded(o) == \A q \in PaysFor(o) : payments[q] # "succeeded"

PaymentStep == NoStock /\ NoOrder /\ UNCHANGED <<told, call>>

(* One open payment per order; a succeeded one is returned instead.  The    *)
(* order was pending when payment asked and need not be any more.           *)
CreatePayment(q) ==
  /\ payments[q] = "none"
  /\ orders[PaymentOrder[q]].status # "new"
  /\ \A u \in PaysFor(PaymentOrder[q]) : payments[u] \notin {"open", "succeeded"}
  /\ payments' = [payments EXCEPT ![q] = "open"]
  /\ UNCHANGED <<refunded, events>>
  /\ PaymentStep

PaymentFails(q) ==
  /\ payments[q] = "open"
  /\ payments' = [payments EXCEPT ![q] = "failed"]
  /\ UNCHANGED <<refunded, events>>
  /\ PaymentStep

(* An approval marks whatever was not succeeded, also a canceled payment;   *)
(* a unique index allows one succeeded payment per order.                   *)
PaymentSucceeds(q) ==
  /\ payments[q] # "none"
  /\ NoneSucceeded(PaymentOrder[q])
  /\ payments' = [payments EXCEPT ![q] = "succeeded"]
  /\ events' = events \cup {Event("payment.succeeded", q)}
  /\ UNCHANGED refunded
  /\ PaymentStep

(* A refund made at the payment service itself. *)
CancelPayment(q) ==
  /\ payments[q] = "succeeded"
  /\ q \notin refunded
  /\ payments' = [payments EXCEPT ![q] = "canceled"]
  /\ refunded' = refunded \cup {q}
  /\ events' = events \cup {Event("payment.canceled", q)}
  /\ PaymentStep

----------------------------------------------------------------------------
(* The process dies, the client gives up or a call returns an error.        *)
Fail(p) ==
  /\ CallsMayFail
  /\ ~ At(p, "idle")
  /\ Return(p)
  /\ OnlyCall

(* A failed insert or save of a reinstated order gives its stock back. *)
SaveFails(p) ==
  /\ CallsMayFail
  /\ call[p].at \in {"insert", "savePaid", "savePaidAgain"}
  /\ call[p].hold # 0
  /\ Goto(p, "undo")
  /\ OnlyCall

Continue(p) ==
  \/ InsertOrder(p) \/ ClaimUse(p) \/ ClaimRefused(p)
  \/ RereadPending(p) \/ Reinstate(p) \/ SavePaid(p) \/ RecheckPaid(p)
  \/ UndoReinstate(p) \/ ConsumeUse(p)
  \/ ConfirmIfPaid(p) \/ CommitStock(p) \/ ShipIfConfirmed(p)
  \/ RefundCaptured(p) \/ RegetRefunded(p) \/ CancelIfPending(p)
  \/ CancelIfPaidForRefund(p) \/ ReconcileCancel(p) \/ CancelSave(p)
  \/ ReleaseStock(p) \/ ReleaseUse(p) \/ SaveWithOutbox(p)

StartRequest(p) ==
  \/ \E o \in Order :
       \/ Place(p, o) \/ Confirm(p, o) \/ Ship(p, o) \/ Cancel(p, o) \/ Expire(p, o)
       \/ Deliver(p, o) \/ ConfirmReceipt(p, o) \/ ReportNotReceived(p, o)
       \/ ResolveDisputeFulfilled(p, o) \/ Fulfill(p, o)
       \/ RequestCancel(p, o) \/ RejectCancelRequest(p, o)
  \/ \E q \in Payment : MarkPaid(p, q) \/ CancelForRefund(p, q)

PaymentService ==
  \E q \in Payment :
    CreatePayment(q) \/ PaymentFails(q) \/ PaymentSucceeds(q) \/ CancelPayment(q)

SagaNext ==
  \/ \E p \in Proc : StartRequest(p) \/ Continue(p) \/ Fail(p) \/ SaveFails(p)
  \/ \E o \in Order : SetInspectionVideo(o)
  \/ PaymentService

SagaSpec == SagaInit /\ [][SagaNext]_sagaVars

(* A request that was started goes on.  The workers tick for ever, and each *)
(* minute the reconcile worker publishes a succeeded payment again: their   *)
(* requests are not starved by others that share the process of the model.  *)
FairSagaSpec ==
  /\ SagaSpec
  /\ \A p \in Proc : WF_sagaVars(Continue(p))
  /\ \A o \in Order : /\ SF_sagaVars(\E p \in Proc : Expire(p, o))
                      /\ SF_sagaVars(\E p \in Proc : Confirm(p, o))
                      /\ SF_sagaVars(\E p \in Proc : Fulfill(p, o))
  /\ \A q \in Payment : SF_sagaVars(\E p \in Proc : MarkPaid(p, q))

----------------------------------------------------------------------------
(* Type invariant. *)
Step == {"idle", "insert", "claim", "reread", "reinstate", "savePaid", "recheck",
         "reinstateAgain", "savePaidAgain", "undo", "consume", "confirm", "commit", "ship",
         "cancelPending", "refund", "reget", "cancelPaid", "cancelRefunded", "reconcile",
         "cancelSave", "release", "releaseUse", "save"}

OrderRow == [status      : OrderStatus,
             reservation : 0..MaxReservations,
             payment     : Payment \cup {NoPayment},
             requested   : BOOLEAN]

CallRecord == [at      : Step,
               order   : 0..NumOrders,
               row     : OrderRow,
               payment : Payment \cup {NoPayment},
               hold    : 0..MaxReservations]

SagaTypeOK ==
  /\ orders \in [Order -> OrderRow]
  /\ filmed \subseteq Order
  /\ use \in [Order -> {"none", "reserved", "consumed", "released"}]
  /\ holder \in [ResId -> 0..NumOrders]
  /\ payments \in [Payment -> {"none", "open", "failed", "succeeded", "canceled"}]
  /\ refunded \subseteq Payment
  /\ events \subseteq [kind : {"payment.succeeded", "payment.canceled"}, payment : Payment]
  /\ told \subseteq Payment
  /\ call \in [Proc -> CallRecord]

(* Goods only leave once stock of this very order was committed, whatever   *)
(* refunds, cancels and late payments happen between committing it and      *)
(* moving the row (ShipOrder makes two separate calls).                     *)
ShippedFor(o) == \E r \in Committed : holder[r] = o

ShippedStockCommitted ==
  \A o \in Order : orders[o].status \in Shipped => ShippedFor(o)

\* Reservation x exists and was made for order o.
Owns(x, o) == x \in ResId /\ status[x] # "none" /\ holder[x] = o

\* A row of order o, in the database or in a request's memory, names a
\* reservation of its own, and shows shipped only when stock was committed.
RowOK(r, o) ==
  /\ r.status # "new" => Owns(r.reservation, o)
  /\ r.status \in Shipped => ShippedFor(o)

CallOK(c) ==
  /\ c.at # "idle" => c.order \in Order
  /\ RowOK(c.row, c.order)
  /\ c.hold # 0 => Owns(c.hold, c.order)
  /\ c.at \in {"insert", "undo", "savePaidAgain"} => c.hold # 0
  /\ c.at \notin {"idle", "insert", "claim", "undo"} => c.row.status # "new"
  /\ c.at = "ship" => ShippedFor(c.order)
  /\ c.at = "cancelRefunded" => c.row.payment # NoPayment

(* The inductive invariant that ShippedStockCommitted rests on. *)
SagaInv ==
  /\ TypeOK
  /\ SagaTypeOK
  /\ \A o \in Order : RowOK(orders[o], o)
  /\ \A p \in Proc : CallOK(call[p])

(* An order that can still ship points at a reservation nobody released:    *)
(* neither the losing side of a race between cancel and a late payment nor  *)
(* a retry gives back the stock of the order that won.                      *)
LiveOrderHoldsStock ==
  \A o \in Order :
    orders[o].status \in {"pending"} \cup PreShip =>
      status[orders[o].reservation] \in {"active", "committed"}

(* When no request is under way, every open reservation belongs to an order *)
(* that can still ship: cancels, expiries and reinstatements that lost a    *)
(* race gave back what they took.  (Without failing calls.)                 *)
NoOrphanHold ==
  (\A p \in Proc : At(p, "idle")) =>
    \A r \in Open :
      /\ orders[holder[r]].reservation = r
      /\ orders[holder[r]].status \in {"pending"} \cup PreShip

(* The goods of an order leave at most once.  An order may be canceled and  *)
(* refunded when its stock is already committed and its row not yet moved;  *)
(* payment.succeeded, which is published again and again, must not          *)
(* reinstate it with new stock, and a retry of the ship must find the old   *)
(* (MarkOrderPaid, ShipOrder).                                              *)
GoodsLeaveOnce ==
  \A r, s \in Committed : holder[r] = holder[s] => r = s

(* The money of a canceled order went back before the order was canceled.   *)
CanceledMoneyReturned ==
  \A o \in Order :
    orders[o].status = "canceled" /\ orders[o].payment # NoPayment =>
      orders[o].payment \in refunded

(* Once the payment.canceled consumer is done with a refund, the order is   *)
(* out of the fulfillment queue.                                            *)
ToldRefundStopsShipping ==
  \A q \in told :
    LET r == orders[PaymentOrder[q]]
    IN ~ (r.payment = q /\ r.status \in PreShip)

(* releaseHoldsForCancel: the stock and the use of the code travel          *)
(* together, so a canceled order whose stock was given back holds no use.   *)
UseFollowsStock ==
  (\A p \in Proc : At(p, "idle")) =>
    \A o \in Order :
      orders[o].status = "canceled" /\ status[orders[o].reservation] = "released" =>
        use[o] \in {"none", "released"}

(* The status table of docs/api.md:1103-1113, with the reinstatement of a   *)
(* canceled order by a late payment (docs/order-service.md:90).             *)
Documented ==
  {<<"new", "pending">>, <<"pending", "paid">>, <<"canceled", "paid">>,
   <<"paid", "confirmed">>, <<"confirmed", "in_transit">>, <<"in_transit", "delivered">>,
   <<"delivered", "fulfilled">>, <<"delivered", "disputed">>, <<"disputed", "fulfilled">>}
  \cup {<<st, "canceled">> : st \in {"pending"} \cup PreShip \cup Shipping}

DocumentedTransitions ==
  [][\A o \in Order : orders'[o].status = orders[o].status
                       \/ <<orders[o].status, orders'[o].status>> \in Documented]_orders

(* Money that was captured finds its order, or goes back: also when the     *)
(* order expired before payment.succeeded arrived.  (While stock lasts.)    *)
CapturedMoneySettles ==
  \A q \in Payment :
    payments[q] = "succeeded" ~> orders[PaymentOrder[q]].payment = q \/ payments[q] = "canceled"

(* An order that is not paid does not hold its stock for ever. *)
UnpaidOrderCloses ==
  \A o \in Order : orders[o].status = "pending" ~> orders[o].status # "pending"

(* A delivered order closes although deliveries, disputes and fulfilments   *)
(* overwrite each other.                                                    *)
DeliveredOrderCloses ==
  \A o \in Order : orders[o].status = "delivered" ~> orders[o].status # "delivered"
============================================================================
