------------------------------ MODULE Payment ------------------------------
(***************************************************************************)
(* The payment service: opening a payment for an order, the card           *)
(* processor's callbacks, refunds, and the outbox that tells the order     *)
(* service.  Every request is a handler whose reads and writes of the      *)
(* payments table interleave with the others'.  A refund holds the row's   *)
(* lock from its read to its commit, the processor's call in between; the  *)
(* other writers read the row, change the copy and later save all of it.   *)
(*                                                                         *)
(* The processor is external: it charges a card once per payment, may call *)
(* back or not, once or again, and cancels up to what it still holds.  A   *)
(* request may be lost between any two steps, a save may fail; these       *)
(* faults together are bounded by MaxFaults.                               *)
(***************************************************************************)
EXTENDS Integers, FiniteSets, Sequences

CONSTANTS
  NumPayments,    \* the payment ids the sequence hands out are 1..NumPayments
  Orders,
  OrderMethod,    \* the method each order was priced for, None before it was recorded
  Amount,         \* the orders' total, in the refunds' unit
  CreateKeys,     \* idempotency keys of creations
  CancelKeys,     \* idempotency keys of refunds
  Handlers,       \* requests being served at a time
  None,
  MaxCallbacks,   \* approvals that arrive per payment
  MaxFaults,      \* lost requests, failed saves
  MaxEvents       \* outbox rows, those of callbacks apart

ASSUME AmountAssumption   == {NumPayments, Amount} \subseteq Nat \ {0}
ASSUME BoundsAssumption   == {MaxCallbacks, MaxFaults, MaxEvents} \subseteq Nat
ASSUME MethodAssumption   ==
  /\ OrderMethod \in [Orders -> {None, "credit_card", "bypass"}]
  /\ None \notin {"credit_card", "bypass"}

VARIABLES
  row,        \* the payments table
  call,       \* what each handler is doing, with the copy of the row it read
  charged,    \* payments whose card the processor charged
  declined,   \* payments the processor declined at least once
  refunded,   \* what the processor gave back
  approvals,  \* approvals that arrived, per payment
  logged,     \* payments named in an ALERT line of the log
  alerted,    \* payments named in a callback_rejected event that was published
  outbox,     \* events in the order they were enqueued
  diverged,   \* history: payments whose row may disagree with the processor
  lost,       \* history: payments whose last approval died with its request
  faults

processor == <<charged, declined, refunded>>
alerts == <<logged, alerted>>
vars == <<row, call, processor, approvals, alerts, outbox, diverged, lost, faults>>

Payments == 1..NumPayments
Methods  == {"credit_card", "bypass"}
Statuses == {"requires_payment", "succeeded", "failed", "canceled"}
NoRow    == [status |-> "none", order |-> None, method |-> None, ref |-> None,
             canceled |-> 0, cancelKey |-> None, idem |-> None]
Idle     == [at |-> "idle"]

Remaining(r)   == Amount - r.canceled
Stored(p)      == row[p].status # "none"
Of(o, s)       == {p \in Payments : row[p].order = o /\ row[p].status = s}
WithKey(i)     == {p \in Payments : i # None /\ row[p].idem = i}
Locked(p)      == \E h \in Handlers : call[h].at \in {"refund", "record"} /\ call[h].id = p
Succeeded(p)   == [subject |-> "payment.succeeded", id |-> p, remaining |-> Amount]
Canceled(p, n) == [subject |-> "payment.canceled", id |-> p, remaining |-> n]

----------------------------------------------------------------------------
Init ==
  /\ row = [p \in Payments |-> NoRow]
  /\ call = [h \in Handlers |-> Idle]
  /\ charged = {} /\ declined = {}
  /\ refunded = [p \in Payments |-> 0]
  /\ approvals = [p \in Payments |-> 0]
  /\ logged = {} /\ alerted = {}
  /\ outbox = <<>>
  /\ diverged = {} /\ lost = {}
  /\ faults = 0

Continue(h, c) == call' = [call EXCEPT ![h] = c]
End(h)         == Continue(h, Idle)
Fault          == faults < MaxFaults /\ faults' = faults + 1

Busy           == {h \in Handlers : call[h].at # "idle"}
Creating       == {h \in Handlers : call[h].at \in {"find_open", "find_succeeded", "insert"}}
Room           == Len(outbox) + Cardinality(Busy) < MaxEvents

\* The outbox rows commit with the payment.
Enqueue(events) == outbox' = outbox \o events

----------------------------------------------------------------------------
(* Opening a payment *)

\* No row holds the request's key; a switched-off method is refused before
\* an open payment of the order is looked for.
BeginCreate(h, o, m, i) ==
  /\ call[h].at = "idle"
  /\ Room
  /\ Cardinality(Creating) < Cardinality({p \in Payments : ~ Stored(p)})
  /\ WithKey(i) = {}
  /\ Continue(h, [at |-> "find_open", order |-> o, method |-> m, idem |-> i])
  /\ UNCHANGED <<row, processor, approvals, alerts, outbox, diverged, lost, faults>>

\* reuseOpenPaymentForOrder reads twice; a payment it finds is the answer.
FindPayment(h) ==
  LET c == call[h]
      found == IF c.at = "find_open" THEN Of(c.order, "requires_payment")
                                     ELSE Of(c.order, "succeeded")
  IN
  /\ c.at \in {"find_open", "find_succeeded"}
  /\ IF found # {} THEN End(h)
     ELSE Continue(h, [c EXCEPT !.at = IF @ = "find_open" THEN "find_succeeded" ELSE "insert"])
  /\ UNCHANGED <<row, processor, approvals, alerts, outbox, diverged, lost, faults>>

Fresh(p) == ~ Stored(p) /\ \A q \in Payments : q < p => Stored(q)

\* One open and one succeeded payment per order, one payment per key.
IndexesAllow(p, r) ==
  /\ r.status \in {"requires_payment", "succeeded"} => Of(r.order, r.status) \ {p} = {}
  /\ WithKey(r.idem) \ {p} = {}

NewRow(c) ==
  LET bypass == c.method = "bypass"
  IN [status |-> IF bypass THEN "succeeded" ELSE "requires_payment",
      order |-> c.order, method |-> c.method, ref |-> IF bypass THEN "bypass" ELSE "issued",
      canceled |-> 0, cancelKey |-> None, idem |-> c.idem]

\* A bypass payment is inserted as succeeded, with its event.
InsertPayment(h, p) ==
  LET c == call[h]
  IN
  /\ c.at = "insert"
  /\ Fresh(p)
  /\ c.method = "credit_card" => OrderMethod[c.order] # "bypass"
  /\ IndexesAllow(p, NewRow(c))
  /\ row' = [row EXCEPT ![p] = NewRow(c)]
  /\ Enqueue(IF c.method = "bypass" THEN <<Succeeded(p)>> ELSE <<>>)
  /\ End(h)
  /\ UNCHANGED <<processor, approvals, alerts, diverged, lost, faults>>

\* The insert failed or was refused; a card request answers with the payment
\* that won, if it still finds one, and ends either way.
AbandonInsert(h) ==
  LET c == call[h]
      refused == \E p \in Payments : Fresh(p) /\ ~ IndexesAllow(p, NewRow(c))
      mismatch == c.method = "credit_card" /\ OrderMethod[c.order] = "bypass"
  IN
  /\ c.at = "insert"
  /\ IF refused \/ mismatch THEN UNCHANGED faults ELSE Fault
  /\ End(h)
  /\ UNCHANGED <<row, processor, approvals, alerts, outbox, diverged, lost>>

\* Slip: the replay completes the payment whatever its status.
ReplayCreateAny(h, p, i) ==
  /\ call[h].at = "idle"
  /\ Room
  /\ p \in WithKey(i)
  /\ Continue(h, [at |-> "complete", id |-> p])
  /\ UNCHANGED <<row, processor, approvals, alerts, outbox, diverged, lost, faults>>

\* A repeated creation answers with the payment it made.  One that has
\* succeeded is completed again, so its event goes out again.
ReplayCreate(h, p, i) ==
  /\ call[h].at = "idle"
  /\ Room
  /\ p \in WithKey(i)
  /\ row[p].status = "succeeded"
  /\ Continue(h, [at |-> "complete", id |-> p])
  /\ UNCHANGED <<row, processor, approvals, alerts, outbox, diverged, lost, faults>>

\* CompletePayment reads the row again and marks the copy succeeded.
CompletePayment(h) ==
  LET p == call[h].id
  IN
  /\ call[h].at = "complete"
  /\ Continue(h, [at |-> "save", id |-> p, callback |-> FALSE,
                  copy |-> [row[p] EXCEPT !.status = "succeeded"]])
  /\ UNCHANGED <<row, processor, approvals, alerts, outbox, diverged, lost, faults>>

----------------------------------------------------------------------------
(* The processor's verdict *)

ChargeCard(p) ==
  /\ row[p].method = "credit_card"
  /\ p \notin charged
  /\ charged' = charged \cup {p}
  /\ UNCHANGED <<row, call, declined, refunded, approvals, alerts, outbox, diverged, lost, faults>>

DeclineCard(p) ==
  /\ row[p].method = "credit_card"
  /\ p \notin charged \cup declined
  /\ declined' = declined \cup {p}
  /\ UNCHANGED <<row, call, charged, refunded, approvals, alerts, outbox, diverged, lost, faults>>

\* An approval brings the processor's transaction id with it.
Verdict(p, approved) ==
  IF approved THEN [row[p] EXCEPT !.status = "succeeded", !.ref = "tran"]
  ELSE IF row[p].status = "succeeded" THEN row[p]
  ELSE [row[p] EXCEPT !.status = "failed"]

Arrives(p) ==
  /\ approvals[p] < MaxCallbacks
  /\ approvals' = [approvals EXCEPT ![p] = @ + 1]
  /\ lost' = lost \ {p}

\* HandleNanoResult: the browser's return, the webhook, or either again.
\* A decline after success changes nothing and ends here.
BeginCallback(h, p, approved) ==
  LET copy == Verdict(p, approved)
  IN
  /\ call[h].at = "idle"
  /\ IF approved THEN p \in charged ELSE p \in declined
  /\ IF approved THEN Arrives(p) ELSE UNCHANGED <<approvals, lost>>
  /\ IF ~ approved /\ copy = row[p] /\ copy.status = "succeeded" THEN End(h)
     ELSE Continue(h, [at |-> "save", id |-> p, callback |-> approved, copy |-> copy])
  /\ UNCHANGED <<row, processor, alerts, outbox, diverged, faults>>

\* nanoReject of an approval: the log line is always written; the event is
\* published at once, not through the outbox, and a failure is only logged.
Alert(p) ==
  /\ logged' = logged \cup {p}
  /\ alerted' \in {alerted, alerted \cup {p}}

\* An approval whose shop, amount or signature does not check out, or whose
\* payment could not be read.
RejectCallback(p) ==
  /\ p \in charged
  /\ Arrives(p)
  /\ Alert(p)
  /\ UNCHANGED <<row, call, processor, outbox, diverged, faults>>

\* Slip: telling the order service is left to the reconcile pass.
SucceededEventsLater(c) == <<>>

\* A payment saved as succeeded announces it again each time.
SucceededEvents(c) == IF c.copy.status = "succeeded" THEN <<Succeeded(c.id)>> ELSE <<>>

\* The save writes every column of the copy.  It waits for a refund that
\* holds the row, and then writes what was read before it.
SaveCopy(h) ==
  LET c == call[h]
  IN
  /\ c.at = "save"
  /\ ~ Locked(c.id)
  /\ IndexesAllow(c.id, c.copy)
  /\ row' = [row EXCEPT ![c.id] = c.copy]
  /\ Enqueue(SucceededEvents(c))
  /\ diverged' = IF c.copy.canceled # row[c.id].canceled THEN diverged \cup {c.id} ELSE diverged
  /\ End(h)
  /\ UNCHANGED <<processor, approvals, alerts, lost, faults>>

\* The row may no longer succeed, or the save fails.
RefuseSave(h) ==
  LET c == call[h]
  IN
  /\ c.at = "save"
  /\ ~ Locked(c.id)
  /\ IF IndexesAllow(c.id, c.copy) THEN Fault ELSE UNCHANGED faults
  /\ IF c.callback THEN Alert(c.id) ELSE UNCHANGED alerts
  /\ End(h)
  /\ UNCHANGED <<row, processor, approvals, outbox, diverged, lost>>

----------------------------------------------------------------------------
(* Refunds: CancelPayment inside MutateLocked *)

\* Takes the row's lock.  The key of the last refund applied answers with the
\* payment as it is; no amount means all that remains.
BeginCancel(h, p, n, k) ==
  /\ call[h].at = "idle"
  /\ Room
  /\ ~ Locked(p)
  /\ k # None => row[p].cancelKey # k
  /\ row[p].status = "succeeded"
  /\ n \in 1..Remaining(row[p])
  /\ Continue(h, [at |-> IF row[p].method = "bypass" THEN "record" ELSE "refund",
                  id |-> p, amount |-> n, key |-> k, known |-> FALSE])
  /\ UNCHANGED <<row, processor, approvals, alerts, outbox, diverged, lost, faults>>

\* Slip: the amount asked for is recorded, whatever the processor says.
RequestedAmount(p, requested, given, known) == requested

\* reconcileCanceledAmount: the processor's balance wins over the amount it
\* reports, and that over the request; at least 1, at most what remains.
ReconciledAmount(p, requested, given, known) ==
  LET reported == IF known THEN Remaining(row[p]) - (Amount - refunded[p] - given) ELSE given
      atLeast1 == IF reported < 1 THEN 1 ELSE reported
  IN IF atLeast1 > Remaining(row[p]) THEN Remaining(row[p]) ELSE atLeast1

\* The processor cancels up to what it was asked and still holds, and says
\* how much; it may also say what it has left.
RefundCard(h, given, known) ==
  LET c == call[h]
      p == c.id
  IN
  /\ c.at = "refund"
  /\ row[p].ref = "tran"
  /\ c.amount <= Amount - refunded[p]
  /\ given \in 1..c.amount
  /\ refunded' = [refunded EXCEPT ![p] = @ + given]
  /\ Continue(h, [c EXCEPT !.at = "record", !.known = known,
                           !.amount = ReconciledAmount(p, @, given, known)])
  /\ UNCHANGED <<row, charged, declined, approvals, alerts, outbox, diverged, lost, faults>>

\* Refused or unreachable: the row is left as it was.
RefuseRefund(h) ==
  /\ call[h].at = "refund"
  /\ End(h)
  /\ UNCHANGED <<row, processor, approvals, alerts, outbox, diverged, lost, faults>>

\* ApplyCancel.
AfterRefund(r, n) ==
  [r EXCEPT !.canceled = @ + n,
            !.status = IF r.canceled + n = Amount THEN "canceled" ELSE @]

\* The row, the key and the event commit together; the lock goes.
RecordRefund(h) ==
  LET c == call[h]
      p == c.id
      after == AfterRefund(row[p], c.amount)
  IN
  /\ c.at = "record"
  /\ row' = [row EXCEPT ![p] = [after EXCEPT !.cancelKey = IF c.key = None THEN @ ELSE c.key]]
  /\ Enqueue(<<Canceled(p, Remaining(after))>>)
  /\ diverged' = IF c.known THEN diverged \ {p} ELSE diverged
  /\ End(h)
  /\ UNCHANGED <<processor, approvals, alerts, lost, faults>>

\* The process dies, or the request's connection goes: the transaction rolls
\* back and its lock with it, and nothing remembers the processor's answer.
LoseRequest(h) ==
  LET c == call[h]
  IN
  /\ c.at # "idle"
  /\ Fault
  /\ diverged' = IF c.at = "record" /\ row[c.id].method = "credit_card"
                 THEN diverged \cup {c.id} ELSE diverged
  /\ lost' = IF c.at = "save" /\ c.callback THEN lost \cup {c.id} ELSE lost
  /\ End(h)
  /\ UNCHANGED <<row, processor, approvals, alerts, outbox>>

----------------------------------------------------------------------------
Create(h) ==
  \/ \E o \in Orders, m \in Methods, i \in CreateKeys \cup {None} : BeginCreate(h, o, m, i)
  \/ FindPayment(h)
  \/ \E p \in Payments : InsertPayment(h, p)
  \/ AbandonInsert(h)
  \/ \E p \in Payments, i \in CreateKeys : ReplayCreate(h, p, i)
  \/ CompletePayment(h)

Cancel(h) ==
  \/ \E p \in Payments, n \in 1..Amount, k \in CancelKeys \cup {None} : BeginCancel(h, p, n, k)
  \/ \E given \in 1..Amount, known \in BOOLEAN : RefundCard(h, given, known)
  \/ RefuseRefund(h)
  \/ RecordRefund(h)

Serve(h) ==
  \/ Create(h)
  \/ Cancel(h)
  \/ \E p \in Payments, approved \in BOOLEAN : BeginCallback(h, p, approved)
  \/ SaveCopy(h)
  \/ RefuseSave(h)
  \/ LoseRequest(h)

World ==
  \/ \E p \in Payments : ChargeCard(p) \/ DeclineCard(p) \/ RejectCallback(p)

Next == World \/ \E h \in Handlers : Serve(h)

\* A request under way ends.  Nothing is assumed of the processor: it may
\* never call back, or only once.
Proceed(h) ==
  FindPayment(h) \/ CompletePayment(h) \/ SaveCopy(h) \/ RefuseSave(h) \/ RecordRefund(h)
    \/ AbandonInsert(h) \/ RefuseRefund(h) \/ \E p \in Payments : InsertPayment(h, p)

Fairness == \A h \in Handlers : WF_vars(Proceed(h))

Spec == Init /\ [][Next]_vars /\ Fairness

----------------------------------------------------------------------------
RowType ==
  [status : Statuses \cup {"none"}, order : Orders \cup {None}, method : Methods \cup {None},
   ref : {None, "issued", "tran", "bypass"}, canceled : 0..Amount,
   cancelKey : CancelKeys \cup {None}, idem : CreateKeys \cup {None}]

Events ==
  [subject : {"payment.succeeded", "payment.canceled"}, id : Payments, remaining : 0..Amount]

(* What a handler carries: the request, the payment found, the copy it will *)
(* save, or the refund it has the row's lock for.                           *)
CallType ==
  {Idle}
    \cup [at : {"find_open", "find_succeeded", "insert"}, order : Orders, method : Methods,
          idem : CreateKeys \cup {None}]
    \cup [at : {"complete"}, id : Payments]
    \cup [at : {"save"}, id : Payments, callback : BOOLEAN, copy : RowType]
    \cup [at : {"refund", "record"}, id : Payments, amount : 1..Amount,
          key : CancelKeys \cup {None}, known : BOOLEAN]

PaymentTypeOK ==
  /\ row \in [Payments -> RowType]
  /\ call \in [Handlers -> CallType]
  /\ charged \subseteq Payments /\ declined \subseteq Payments
  /\ logged \subseteq Payments /\ alerted \subseteq logged /\ lost \subseteq Payments
  /\ refunded \in [Payments -> 0..Amount]
  /\ approvals \in [Payments -> 0..MaxCallbacks]
  /\ outbox \in Seq(Events)
  /\ diverged \subseteq Payments
  /\ faults \in 0..MaxFaults

Card(p)        == row[p].method = "credit_card"
Enqueued(e)    == \E i \in 1..Len(outbox) : outbox[i] = e

(* The order service is never told that an order was paid unless the       *)
(* processor charged a card for it or staff recorded the payment by hand,  *)
(* however creations, replays and callbacks overlap (HandleNanoResult,     *)
(* CompletePayment).                                                       *)
ToldWasCaptured ==
  \A p \in Payments : Enqueued(Succeeded(p)) => ~ Card(p) \/ p \in charged

(* Two payments of one order never both count as succeeded, and a payment  *)
(* that does was announced, also when it got there by a late approval.     *)
OneSucceededAnnounced ==
  \A p \in Payments : row[p].status = "succeeded" =>
    /\ Enqueued(Succeeded(p))
    /\ Of(row[p].order, "succeeded") = {p}

(* What is told of captures is what was captured, once per order.          *)
CapturesAccounted == ToldWasCaptured /\ OneSucceededAnnounced

(* What the row says was refunded is what the processor gave back, unless  *)
(* an answer of the processor was lost or a save overwrote the row since   *)
(* the processor last reported its balance (CancelPayment,                 *)
(* reconcileCanceledAmount).                                               *)
BooksMatchProcessor ==
  \A p \in Payments : Card(p) /\ p \notin diverged /\ ~ Locked(p) => row[p].canceled = refunded[p]

(* The books never claim more given back than was: a refused or            *)
(* unreachable processor leaves no refund recorded (CancelPayment).        *)
NoInventedRefund ==
  \A p \in Payments : Card(p) => row[p].canceled <= refunded[p]

(* The order service cancels on a payment.canceled that names a balance of *)
(* zero: whatever balance a row shows was put in the outbox, with the      *)
(* commit that made it (paymentCanceledOutbox).                            *)
BalanceAnnounced ==
  \A p \in Payments : row[p].canceled > 0 => Enqueued(Canceled(p, Remaining(row[p])))

(* What the books and the events say of refunds is what was given back.    *)
RefundsAccounted == BooksMatchProcessor /\ NoInventedRefund /\ BalanceAnnounced

(* The comment on CanceledAmountWon: once it equals the amount, the        *)
(* payment is canceled.                                                    *)
FullyRefundedIsCanceled ==
  \A p \in Payments : Stored(p) /\ Remaining(row[p]) = 0 => row[p].status = "canceled"

(* The processor charged a card and said so: the payment is announced to   *)
(* the order service or the log names it for a human, also when its row    *)
(* can no longer succeed, a decline or a refund overlaps, or the save      *)
(* fails, unless the process died over the last approval that arrived      *)
(* (HandleNanoResult, nanoReject).  A charge whose approval never arrives  *)
(* is nobody's to see.                                                     *)
ApprovalIsNotSilent ==
  \A p \in Payments :
    approvals[p] > 0 ~> (Enqueued(Succeeded(p)) \/ p \in logged \/ p \in lost)
============================================================================
