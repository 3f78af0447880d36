--------------------------- MODULE PaymentProofs ---------------------------
(* Proofs about Payment for every set of orders, keys, handlers and amounts: *)
(* no capture is announced that was not made, none is made twice for an    *)
(* order, and the books agree with the processor.                          *)
EXTENDS Payment, TLAPS

----------------------------------------------------------------------------
(* The inductive invariant. *)

Holds(h, p)   == call[h].at \in {"refund", "record"} /\ call[h].id = p
Records(h, p) == call[h].at = "record" /\ call[h].id = p
Captured(p)   == Card(p) => p \in charged
Told(p)       == Enqueued(Succeeded(p))

\* An id without a row has nothing anywhere.
RowFresh(p) ==
  ~ Stored(p) => row[p] = NoRow /\ refunded[p] = 0 /\ p \notin charged \cup declined /\ ~ Told(p)

\* What a row or an event says was captured, was; and it is one per order.
RowCaptured(p) ==
  /\ row[p].status \in {"succeeded", "canceled"} \/ Told(p) => Captured(p)
  /\ row[p].status = "succeeded" =>
       /\ Told(p)
       /\ \A q \in Payments : row[q].status = "succeeded" /\ row[q].order = row[p].order => q = p

\* What a row says was given back, was; but for an answer not yet recorded.
RowRefunded(p) ==
  /\ Card(p) => row[p].canceled <= refunded[p]
  /\ Card(p) /\ p \notin diverged /\ (\A h \in Handlers : ~ Records(h, p)) =>
       row[p].canceled = refunded[p]
  /\ row[p].canceled > 0 => Enqueued(Canceled(p, Remaining(row[p])))

\* A copy waiting to be saved was read from its row.
CopySound(p, r) ==
  /\ Stored(p)
  /\ r.status \in {"succeeded", "failed"} /\ r.order = row[p].order /\ r.method = row[p].method
  /\ r.status = "succeeded" => Captured(p)
  /\ Card(p) => r.canceled <= refunded[p]
  /\ r.canceled > 0 => Enqueued(Canceled(p, Remaining(r)))

\* A refund has the row to itself, and its amount fits what remains.
RefundSound(h) ==
  LET c == call[h]
  IN
  /\ row[c.id].status = "succeeded" /\ row[c.id].canceled + c.amount <= Amount
  /\ \A g \in Handlers \ {h} : ~ Holds(g, c.id)
  /\ c.at = "record" /\ Card(c.id) =>
       /\ row[c.id].canceled + c.amount <= refunded[c.id]
       /\ c.known \/ c.id \notin diverged => row[c.id].canceled + c.amount = refunded[c.id]

CallSound(h) ==
  LET c == call[h]
  IN
  /\ c.at = "complete" => Stored(c.id) /\ Captured(c.id)
  /\ c.at = "save" => CopySound(c.id, c.copy)
  /\ c.at \in {"refund", "record"} => RefundSound(h)

RowsSound  == \A p \in Payments : RowFresh(p) /\ RowCaptured(p) /\ RowRefunded(p)
CallsSound == \A h \in Handlers : CallSound(h)

PaymentInv == PaymentTypeOK /\ RowsSound /\ CallsSound

----------------------------------------------------------------------------
(* Rows and events. *)

LEMMA AmountType == Amount \in Nat /\ Amount > 0 /\ NumPayments \in Nat
BY AmountAssumption

LEMMA KeySet ==
  ASSUME NEW r \in RowType, NEW k \in CancelKeys \cup {None},
         NEW a, a = [r EXCEPT !.cancelKey = k]
  PROVE  /\ a \in RowType /\ a.order = r.order /\ a.method = r.method
         /\ a.canceled = r.canceled /\ a.status = r.status
BY DEF RowType

(* The row as a refund of n under key k leaves it. *)
Recorded(r, n, k) == [AfterRefund(r, n) EXCEPT !.cancelKey = k]

LEMMA RecordedFields ==
  ASSUME NEW r \in RowType, NEW n \in 1..(Amount - r.canceled), NEW k \in CancelKeys \cup {None},
         NEW after, after = Recorded(r, n, k)
  PROVE  /\ after \in RowType /\ after.order = r.order /\ after.method = r.method
         /\ after.canceled = r.canceled + n /\ AfterRefund(r, n).canceled = r.canceled + n
         /\ after.status = IF r.canceled + n = Amount THEN "canceled" ELSE r.status
<1> DEFINE a     == AfterRefund(r, n)
           total == r.canceled + n
           s     == IF total = Amount THEN "canceled" ELSE r.status
<1>1. total \in 0..Amount /\ s \in Statuses \cup {"none"}
  BY AmountType DEF RowType, Statuses
<1>2. a = [r EXCEPT !.canceled = total, !.status = s]
  BY DEF AfterRefund
<1>3. after = [a EXCEPT !.cancelKey = k]
  BY DEF Recorded
<1>4. /\ a \in RowType /\ a.order = r.order /\ a.method = r.method
      /\ a.canceled = total /\ a.status = s
  <2> HIDE DEF total, s, a
  <2> QED BY <1>1, <1>2 DEF RowType
<1>5. /\ after \in RowType /\ after.order = a.order /\ after.method = a.method
      /\ after.canceled = a.canceled /\ after.status = a.status
  <2> HIDE DEF a
  <2> QED BY <1>3, <1>4, KeySet, Zenon
<1> QED BY <1>4, <1>5

LEMMA EventAdded ==
  ASSUME NEW s \in Seq(Events), NEW x \in Events, NEW e
  PROVE  /\ s \o <<x>> \in Seq(Events)
         /\ (\E i \in 1..Len(s \o <<x>>) : (s \o <<x>>)[i] = e)
              <=> (\E i \in 1..Len(s) : s[i] = e) \/ x = e
<1> DEFINE t == s \o <<x>>
<1>1. t \in Seq(Events) /\ Len(t) = Len(s) + 1 /\ Len(s) \in Nat
  OBVIOUS
<1>2. t[Len(s) + 1] = x /\ \A i \in 1..Len(s) : t[i] = s[i]
  OBVIOUS
<1>3. 1..Len(t) = (1..Len(s)) \cup {Len(s) + 1}
  BY <1>1
<1> HIDE DEF t
<1> QED BY <1>1, <1>2, <1>3

LEMMA EventsDiffer ==
  \A p, q, n, m : /\ Succeeded(p) # Canceled(q, n)
                  /\ Succeeded(p) = Succeeded(q) => p = q
                  /\ Canceled(p, n) = Canceled(q, m) => p = q /\ n = m
BY DEF Succeeded, Canceled

LEMMA EventsTyped ==
  ASSUME NEW p \in Payments, NEW n \in 0..Amount
  PROVE  Succeeded(p) \in Events /\ Canceled(p, n) \in Events
BY AmountType DEF Succeeded, Canceled, Events

(* An event put in the outbox stays there, after those already in it. *)
LEMMA Announced ==
  ASSUME outbox \in Seq(Events), NEW e \in Events, Enqueue(<<e>>)
  PROVE  outbox' \in Seq(Events) /\ \A f : Enqueued(f)' <=> Enqueued(f) \/ f = e
<1>1. outbox' = outbox \o <<e>>
  BY DEF Enqueue
<1> QED BY <1>1, EventAdded DEF Enqueued

LEMMA NothingAnnounced ==
  ASSUME outbox \in Seq(Events), Enqueue(<<>>)
  PROVE  outbox' = outbox
BY DEF Enqueue

LEMMA RowTyped ==
  ASSUME PaymentTypeOK, NEW p \in Payments
  PROVE  /\ row[p] \in RowType /\ row[p].status \in Statuses \cup {"none"}
         /\ row[p].canceled \in 0..Amount /\ row[p].cancelKey \in CancelKeys \cup {None}
BY DEF PaymentTypeOK, RowType

LEMMA NoRowTyped == NoRow \in RowType /\ NoRow.canceled = 0 /\ NoRow.status = "none" /\ NoRow.method = None
BY AmountType DEF NoRow, RowType

(* The row a creation inserts. *)
LEMMA NewRowFields ==
  ASSUME NEW c \in CallType, c.at = "insert"
  PROVE  /\ NewRow(c) \in RowType /\ NewRow(c).order = c.order /\ NewRow(c).method = c.method
         /\ NewRow(c).canceled = 0 /\ NewRow(c).method \in Methods
         /\ NewRow(c).status = IF c.method = "bypass" THEN "succeeded" ELSE "requires_payment"
<1>1. c.order \in Orders /\ c.method \in Methods /\ c.idem \in CreateKeys \cup {None}
  BY DEF CallType, Idle
<1> QED BY <1>1, AmountType DEF NewRow, RowType, Statuses

(* The copy an approval or a decline makes of a row. *)
LEMMA VerdictFields ==
  ASSUME PaymentTypeOK, NEW p \in Payments, NEW approved \in BOOLEAN, NEW c, c = Verdict(p, approved)
  PROVE  /\ c \in RowType /\ c.order = row[p].order /\ c.method = row[p].method
         /\ c.canceled = row[p].canceled
         /\ c.status \in {"succeeded", "failed"}
         /\ approved => c.status = "succeeded"
         /\ ~ approved /\ c.status = "succeeded" => c = row[p]
<1> row[p] \in RowType
  BY RowTyped
<1>1. CASE approved
  BY <1>1 DEF Verdict, RowType, Statuses
<1>2. CASE ~ approved /\ row[p].status = "succeeded"
  BY <1>2 DEF Verdict
<1>3. CASE ~ approved /\ row[p].status # "succeeded"
  BY <1>3 DEF Verdict, RowType, Statuses
<1> QED BY <1>1, <1>2, <1>3

LEMMA CompletedFields ==
  ASSUME PaymentTypeOK, NEW p \in Payments, NEW c, c = [row[p] EXCEPT !.status = "succeeded"]
  PROVE  /\ c \in RowType /\ c.order = row[p].order /\ c.method = row[p].method
         /\ c.canceled = row[p].canceled /\ c.status = "succeeded"
<1> row[p] \in RowType
  BY RowTyped
<1> QED BY DEF RowType, Statuses

----------------------------------------------------------------------------
(* What a handler carries. *)

LEMMA CallShape ==
  ASSUME NEW c \in CallType
  PROVE  /\ c.at \in {"idle", "find_open", "find_succeeded", "insert", "complete", "save",
                      "refund", "record"}
         /\ c.at \in {"find_open", "find_succeeded", "insert"} =>
              c \in [at : {"find_open", "find_succeeded", "insert"}, order : Orders,
                     method : Methods, idem : CreateKeys \cup {None}]
         /\ c.at = "complete" => c.id \in Payments
         /\ c.at = "save" => c.id \in Payments /\ c.callback \in BOOLEAN /\ c.copy \in RowType
         /\ c.at \in {"refund", "record"} =>
              c \in [at : {"refund", "record"}, id : Payments, amount : 1..Amount,
                     key : CancelKeys \cup {None}, known : BOOLEAN]
BY DEF CallType, Idle

LEMMA Continued ==
  ASSUME PaymentTypeOK, NEW h \in Handlers, NEW c \in CallType, Continue(h, c)
  PROVE  /\ call'[h] = c /\ \A g \in Handlers \ {h} : call'[g] = call[g]
         /\ call' \in [Handlers -> CallType]
BY DEF Continue, PaymentTypeOK

LEMMA EndedCall ==
  ASSUME PaymentTypeOK, NEW h \in Handlers, End(h)
  PROVE  /\ call'[h] = Idle /\ Idle.at = "idle" /\ \A g \in Handlers \ {h} : call'[g] = call[g]
         /\ call' \in [Handlers -> CallType]
<1>1. Idle \in CallType /\ Idle.at = "idle"
  BY DEF CallType, Idle
<1> QED BY <1>1, Continued DEF End

----------------------------------------------------------------------------
(* What a step leaves alone stays sound. *)

LEMMA RowKept ==
  ASSUME NEW q \in Payments, RowFresh(q), RowCaptured(q), RowRefunded(q),
         row'[q] = row[q], refunded'[q] = refunded[q], q \in diverged => q \in diverged',
         q \in charged => q \in charged', q \in charged' \cup declined' => q \in charged \cup declined \/ Stored(q),
         \A e : Enqueued(e) => Enqueued(e)', Told(q)' => Told(q),
         \A h \in Handlers : Records(h, q) => Records(h, q)',
         row[q].status = "succeeded" =>
           \A r \in Payments : row'[r].status = "succeeded" /\ row'[r].order = row[q].order => r = q
  PROVE  RowFresh(q)' /\ RowCaptured(q)' /\ RowRefunded(q)'
<1>1. Told(q)' <=> Told(q)
  BY DEF Told
<1>2. RowFresh(q)'
  BY <1>1 DEF RowFresh, Stored
<1>3. RowCaptured(q)'
  BY <1>1 DEF RowCaptured, Captured, Card
<1>4. row[q].canceled > 0 => Enqueued(Canceled(q, Remaining(row[q])))'
  BY DEF RowRefunded, Remaining, Canceled
<1>5. RowRefunded(q)'
  BY <1>4 DEF RowRefunded, Card, Remaining, Canceled
<1> QED BY <1>2, <1>3, <1>5

(* Nothing but the calls, the alerts and the counters changes. *)
LEMMA RowsKept ==
  ASSUME RowsSound, UNCHANGED <<row, charged, declined, refunded, outbox, diverged>>,
         \A h \in Handlers, q \in Payments : Records(h, q) => Records(h, q)'
  PROVE  RowsSound'
<1>1. ASSUME NEW q \in Payments PROVE RowFresh(q)' /\ RowCaptured(q)' /\ RowRefunded(q)'
  <2>1. RowFresh(q) /\ RowCaptured(q) /\ RowRefunded(q)
    BY DEF RowsSound
  <2>2. /\ \A e : Enqueued(e) => Enqueued(e)'
        /\ Told(q)' => Told(q)
    BY DEF Enqueued, Told, Succeeded
  <2>3. row[q].status = "succeeded" =>
          \A r \in Payments : row'[r].status = "succeeded" /\ row'[r].order = row[q].order => r = q
    BY <2>1 DEF RowCaptured
  <2> QED BY <2>1, <2>2, <2>3, RowKept
<1> QED BY <1>1 DEF RowsSound

LEMMA CallQuiet ==
  ASSUME PaymentTypeOK, NEW g \in Handlers, CallSound(g), call'[g] = call[g],
         UNCHANGED <<row, refunded, diverged>>, charged \subseteq charged',
         \A e : Enqueued(e) => Enqueued(e)',
         call[g].at \in {"refund", "record"} =>
           \A f \in Handlers \ {g} : Holds(f, call[g].id)' => Holds(f, call[g].id)
  PROVE  CallSound(g)'
<1> DEFINE c == call[g]
<1>1. c.at = "complete" => Stored(c.id)' /\ Captured(c.id)'
  BY DEF CallSound, Stored, Captured, Card
<1>2. c.at = "save" => CopySound(c.id, c.copy)'
  BY DEF CallSound, CopySound, Stored, Captured, Card, Canceled, Remaining
<1>3. c.at \in {"refund", "record"} => RefundSound(g)'
  BY DEF CallSound, RefundSound, Holds, Card
<1> QED BY <1>1, <1>2, <1>3 DEF CallSound

(* A call that does not hold p is not hurt by a change of p's row. *)
LEMMA CallBeside ==
  ASSUME PaymentTypeOK, NEW g \in Handlers, NEW p \in Payments, CallSound(g), call'[g] = call[g],
         ~ Holds(g, p),
         \A q \in Payments \ {p} : /\ row'[q] = row[q] /\ refunded'[q] = refunded[q]
                                   /\ q \in diverged' <=> q \in diverged,
         Stored(p) => /\ row'[p].order = row[p].order /\ row'[p].method = row[p].method
                      /\ row'[p].status # "none",
         refunded'[p] \in Nat /\ refunded[p] <= refunded'[p],
         UNCHANGED charged,
         \A e : Enqueued(e) => Enqueued(e)',
         \A f \in Handlers \ {g}, q \in Payments \ {p} : Holds(f, q)' => Holds(f, q)
  PROVE  CallSound(g)'
<1> DEFINE c == call[g]
<1> c \in CallType
  BY DEF PaymentTypeOK
<1>0. c.at \in {"complete", "save", "refund", "record"} => c.id \in Payments
  BY CallShape
<1>1. c.at = "complete" => Stored(c.id)' /\ Captured(c.id)'
  BY <1>0 DEF CallSound, Stored, Captured, Card
<1>2. c.at = "save" => CopySound(c.id, c.copy)'
  <2> SUFFICES ASSUME c.at = "save" PROVE CopySound(c.id, c.copy)'
    OBVIOUS
  <2>1. CopySound(c.id, c.copy) /\ c.id \in Payments /\ c.copy \in RowType
    BY CallShape DEF CallSound
  <2>2. /\ row'[c.id].order = row[c.id].order /\ row'[c.id].method = row[c.id].method
        /\ row'[c.id].status # "none"
    BY <2>1 DEF CopySound, Stored
  <2>3. c.copy.canceled <= refunded[c.id] => c.copy.canceled <= refunded'[c.id]
    <3>1. c.copy.canceled \in Nat /\ refunded[c.id] \in Nat
      BY <2>1, AmountType DEF RowType, PaymentTypeOK
    <3>2. refunded'[c.id] \in Nat /\ refunded[c.id] <= refunded'[c.id]
      BY <2>1, <3>1
    <3> QED BY <3>1, <3>2
  <2> QED BY <2>1, <2>2, <2>3 DEF CopySound, Stored, Captured, Card, Canceled, Remaining
<1>3. c.at \in {"refund", "record"} => RefundSound(g)'
  <2> SUFFICES ASSUME c.at \in {"refund", "record"} PROVE RefundSound(g)'
    OBVIOUS
  <2>1. RefundSound(g) /\ c.id \in Payments \ {p}
    BY <1>0 DEF CallSound, Holds
  <2>2. \A f \in Handlers \ {g} : ~ Holds(f, c.id)'
    BY <2>1 DEF RefundSound
  <2> QED BY <2>1, <2>2 DEF RefundSound, Holds, Card
<1> QED BY <1>1, <1>2, <1>3 DEF CallSound

----------------------------------------------------------------------------
(* Every action keeps the invariant. *)

LEMMA FaultTyped == PaymentTypeOK /\ (Fault \/ UNCHANGED faults) => faults' \in 0..MaxFaults
BY BoundsAssumption DEF Fault, PaymentTypeOK

(* A step of one handler that changes only what it carries. *)
LEMMA QuietStep ==
  ASSUME PaymentInv, NEW h \in Handlers, NEW c \in CallType, Continue(h, c),
         call[h].at # "record", c.at \notin {"refund", "record"}, CallSound(h)',
         UNCHANGED <<row, charged, declined, refunded, outbox, diverged>>,
         approvals' \in [Payments -> 0..MaxCallbacks],
         logged' \subseteq Payments, alerted' \subseteq logged', lost' \subseteq Payments,
         faults' \in 0..MaxFaults
  PROVE  PaymentInv'
<1>1. /\ call'[h] = c /\ \A g \in Handlers \ {h} : call'[g] = call[g]
      /\ call' \in [Handlers -> CallType]
  BY Continued DEF PaymentInv
<1>2. PaymentTypeOK'
  BY <1>1 DEF PaymentInv, PaymentTypeOK
<1>3. RowsSound'
  <2>1. \A g \in Handlers, q \in Payments : Records(g, q) => Records(g, q)'
    BY <1>1 DEF Records
  <2> QED BY <2>1, RowsKept DEF PaymentInv
<1>4. ASSUME NEW g \in Handlers \ {h} PROVE CallSound(g)'
  <2>1. \A f \in Handlers : \A q : Holds(f, q)' => Holds(f, q)
    BY <1>1 DEF Holds
  <2>2. \A e : Enqueued(e) => Enqueued(e)'
    BY DEF Enqueued
  <2> QED BY <1>1, <2>1, <2>2, CallQuiet DEF PaymentInv, CallsSound
<1> QED BY <1>2, <1>3, <1>4 DEF PaymentInv, CallsSound

(* One that carries nothing to check. *)
LEMMA PlainStep ==
  ASSUME PaymentInv, NEW h \in Handlers, NEW c \in CallType, Continue(h, c),
         call[h].at # "record", c.at \notin {"complete", "save", "refund", "record"},
         UNCHANGED <<row, charged, declined, refunded, outbox, diverged>>,
         approvals' \in [Payments -> 0..MaxCallbacks],
         logged' \subseteq Payments, alerted' \subseteq logged', lost' \subseteq Payments,
         faults' \in 0..MaxFaults
  PROVE  PaymentInv'
<1>1. call'[h] = c
  BY Continued DEF PaymentInv
<1>2. CallSound(h)'
  BY <1>1 DEF CallSound
<1> QED BY <1>2, QuietStep

LEMMA EndsQuietly ==
  ASSUME PaymentInv, NEW h \in Handlers, End(h), call[h].at # "record",
         UNCHANGED <<row, charged, declined, refunded, outbox, diverged>>,
         approvals' \in [Payments -> 0..MaxCallbacks],
         logged' \subseteq Payments, alerted' \subseteq logged', lost' \subseteq Payments,
         faults' \in 0..MaxFaults
  PROVE  PaymentInv'
<1>1. Idle \in CallType /\ Idle.at = "idle"
  BY DEF CallType, Idle
<1> QED BY <1>1, PlainStep DEF End

LEMMA BeginCreateKeeps ==
  ASSUME PaymentInv, NEW h \in Handlers, NEW o \in Orders, NEW m \in Methods,
         NEW i \in CreateKeys \cup {None}, BeginCreate(h, o, m, i)
  PROVE  PaymentInv'
<1> DEFINE c == [at |-> "find_open", order |-> o, method |-> m, idem |-> i]
<1>1. c \in CallType /\ c.at = "find_open"
  BY DEF CallType
<1>2. Continue(h, c) /\ call[h].at = "idle"
  BY DEF BeginCreate
<1> HIDE DEF c
<1> QED BY <1>1, <1>2, PlainStep DEF BeginCreate, processor, alerts, PaymentInv, PaymentTypeOK

LEMMA FindPaymentKeeps ==
  ASSUME PaymentInv, NEW h \in Handlers, FindPayment(h) PROVE PaymentInv'
<1>1. /\ approvals' \in [Payments -> 0..MaxCallbacks]
      /\ logged' \subseteq Payments /\ alerted' \subseteq logged' /\ lost' \subseteq Payments
      /\ faults' \in 0..MaxFaults
      /\ UNCHANGED <<row, charged, declined, refunded, outbox, diverged>>
  BY DEF FindPayment, processor, alerts, PaymentInv, PaymentTypeOK
<1>2. call[h] \in CallType /\ call[h].at \in {"find_open", "find_succeeded"}
  BY DEF FindPayment, PaymentInv, PaymentTypeOK
<1>3. ASSUME NEW a \in {"find_succeeded", "insert"}, Continue(h, [call[h] EXCEPT !.at = a])
      PROVE  PaymentInv'
  <2>1. /\ [call[h] EXCEPT !.at = a] \in CallType
        /\ [call[h] EXCEPT !.at = a].at = a
    <3>1. call[h] \in [at : {"find_open", "find_succeeded", "insert"}, order : Orders,
                       method : Methods, idem : CreateKeys \cup {None}]
      BY <1>2, CallShape
    <3>2. [call[h] EXCEPT !.at = a]
            \in [at : {"find_open", "find_succeeded", "insert"}, order : Orders,
                 method : Methods, idem : CreateKeys \cup {None}]
      BY <3>1
    <3> QED BY <3>1, <3>2 DEF CallType
  <2> QED BY <1>1, <1>2, <1>3, <2>1, PlainStep
<1> QED BY <1>1, <1>2, <1>3, EndsQuietly DEF FindPayment

LEMMA ReplayCreateKeeps ==
  ASSUME PaymentInv, NEW h \in Handlers, NEW p \in Payments, NEW i \in CreateKeys,
         ReplayCreate(h, p, i)
  PROVE  PaymentInv'
<1> DEFINE c == [at |-> "complete", id |-> p]
<1>1. c \in CallType /\ c.at = "complete" /\ c.id = p
  BY DEF CallType
<1>2. Continue(h, c) /\ call[h].at = "idle" /\ row[p].status = "succeeded"
  BY DEF ReplayCreate
<1>3. UNCHANGED <<row, charged, declined, refunded, outbox, diverged, approvals,
                  logged, alerted, lost, faults>>
  BY DEF ReplayCreate, processor, alerts
<1> HIDE DEF c
<1>4. call'[h] = c
  BY <1>1, <1>2, Continued DEF PaymentInv
<1>5. CallSound(h)'
  <2>1. Stored(p) /\ Captured(p)
    BY <1>2 DEF Stored, PaymentInv, RowsSound, RowCaptured
  <2> QED BY <1>1, <1>3, <1>4, <2>1 DEF CallSound, Stored, Captured, Card
<1> QED BY <1>1, <1>2, <1>3, <1>5, QuietStep DEF PaymentInv, PaymentTypeOK

(* A copy read now is sound until the row is written by another. *)
LEMMA CopyRead ==
  ASSUME PaymentInv, NEW p \in Payments, Stored(p), NEW r, r.order = row[p].order,
         r.method = row[p].method, r.canceled = row[p].canceled,
         r.status \in {"succeeded", "failed"}, r.status = "succeeded" => Captured(p)
  PROVE  CopySound(p, r)
BY DEF CopySound, PaymentInv, RowsSound, RowRefunded, Remaining

LEMMA ArrivalTyped ==
  ASSUME PaymentTypeOK, NEW p \in Payments, Arrives(p) \/ UNCHANGED <<approvals, lost>>
  PROVE  approvals' \in [Payments -> 0..MaxCallbacks] /\ lost' \subseteq Payments
<1>1. approvals \in [Payments -> 0..MaxCallbacks] /\ MaxCallbacks \in Nat /\ lost \subseteq Payments
  BY BoundsAssumption DEF PaymentTypeOK
<1> QED BY <1>1 DEF Arrives

LEMMA AlertTyped ==
  ASSUME PaymentTypeOK, NEW p \in Payments, Alert(p) \/ UNCHANGED alerts
  PROVE  logged' \subseteq Payments /\ alerted' \subseteq logged'
BY DEF Alert, alerts, PaymentTypeOK

LEMMA SaveBegins ==
  ASSUME PaymentInv, NEW h \in Handlers, NEW p \in Payments, NEW b \in BOOLEAN, NEW r \in RowType,
         Continue(h, [at |-> "save", id |-> p, callback |-> b, copy |-> r]),
         CopySound(p, r), call[h].at # "record",
         UNCHANGED <<row, charged, declined, refunded, outbox, diverged, logged, alerted, faults>>,
         approvals' \in [Payments -> 0..MaxCallbacks], lost' \subseteq Payments
  PROVE  PaymentInv'
<1> DEFINE c == [at |-> "save", id |-> p, callback |-> b, copy |-> r]
<1>1. c \in CallType /\ c.at = "save" /\ c.id = p /\ c.copy = r
  BY DEF CallType
<1> HIDE DEF c
<1>2. Continue(h, c)
  BY DEF c
<1>3. call'[h] = c
  BY <1>1, <1>2, Continued DEF PaymentInv
<1>4. CopySound(p, r)'
  BY DEF CopySound, Stored, Captured, Card, Enqueued
<1>5. CallSound(h)'
  BY <1>1, <1>3, <1>4 DEF CallSound
<1> QED BY <1>1, <1>2, <1>5, QuietStep DEF PaymentInv, PaymentTypeOK

LEMMA CompletePaymentKeeps ==
  ASSUME PaymentInv, NEW h \in Handlers, CompletePayment(h) PROVE PaymentInv'
<1> DEFINE p == call[h].id
           r == [row[p] EXCEPT !.status = "succeeded"]
<1>1. call[h] \in CallType /\ call[h].at = "complete" /\ p \in Payments
  BY CallShape DEF CompletePayment, PaymentInv, PaymentTypeOK
<1>2. Stored(p) /\ Captured(p)
  BY <1>1 DEF PaymentInv, CallsSound, CallSound
<1>3. /\ r \in RowType /\ r.order = row[p].order /\ r.method = row[p].method
      /\ r.canceled = row[p].canceled /\ r.status = "succeeded"
  BY <1>1, CompletedFields DEF PaymentInv
<1>4. /\ Continue(h, [at |-> "save", id |-> p, callback |-> FALSE, copy |-> r])
      /\ UNCHANGED <<row, charged, declined, refunded, outbox, diverged,
                     logged, alerted, lost, faults, approvals>>
  BY DEF CompletePayment, processor, alerts
<1> HIDE DEF p, r
<1>5. CopySound(p, r)
  BY <1>1, <1>2, <1>3, CopyRead
<1> QED BY <1>1, <1>3, <1>4, <1>5, SaveBegins DEF PaymentInv, PaymentTypeOK

LEMMA BeginCallbackKeeps ==
  ASSUME PaymentInv, NEW h \in Handlers, NEW p \in Payments, NEW approved \in BOOLEAN,
         BeginCallback(h, p, approved)
  PROVE  PaymentInv'
<1> DEFINE r == Verdict(p, approved)
<1>1. /\ call[h].at = "idle"
      /\ UNCHANGED <<row, charged, declined, refunded, outbox, diverged, logged, alerted, faults>>
      /\ approvals' \in [Payments -> 0..MaxCallbacks] /\ lost' \subseteq Payments
  BY ArrivalTyped DEF BeginCallback, processor, alerts, PaymentInv
<1>2. CASE End(h)
  BY <1>1, <1>2, EndsQuietly DEF PaymentInv, PaymentTypeOK
<1>3. CASE ~ End(h)
  <2>1. /\ Continue(h, [at |-> "save", id |-> p, callback |-> approved, copy |-> r])
        /\ ~ (~ approved /\ r = row[p] /\ r.status = "succeeded")
        /\ IF approved THEN p \in charged ELSE p \in declined
    BY <1>3 DEF BeginCallback
  <2>2. /\ r \in RowType /\ r.order = row[p].order /\ r.method = row[p].method
        /\ r.canceled = row[p].canceled /\ r.status \in {"succeeded", "failed"}
        /\ ~ approved /\ r.status = "succeeded" => r = row[p]
    BY VerdictFields DEF PaymentInv
  <2> HIDE DEF r
  <2>3. Stored(p)
    BY <2>1 DEF PaymentInv, RowsSound, RowFresh
  <2>4. r.status = "succeeded" => Captured(p)
    BY <2>1, <2>2 DEF Captured
  <2>5. CopySound(p, r)
    BY <2>2, <2>3, <2>4, CopyRead
  <2> QED BY <1>1, <2>1, <2>2, <2>5, SaveBegins
<1> QED BY <1>2, <1>3

LEMMA RefuseSaveKeeps ==
  ASSUME PaymentInv, NEW h \in Handlers, RefuseSave(h) PROVE PaymentInv'
<1>1. call[h] \in CallType /\ call[h].at = "save" /\ call[h].id \in Payments
  BY CallShape DEF RefuseSave, PaymentInv, PaymentTypeOK
<1>2. /\ logged' \subseteq Payments /\ alerted' \subseteq logged' /\ lost' \subseteq Payments
      /\ faults' \in 0..MaxFaults
  BY <1>1, FaultTyped, AlertTyped DEF RefuseSave, PaymentInv, PaymentTypeOK
<1> QED BY <1>1, <1>2, EndsQuietly DEF RefuseSave, processor, alerts, PaymentInv, PaymentTypeOK

LEMMA AbandonInsertKeeps ==
  ASSUME PaymentInv, NEW h \in Handlers, AbandonInsert(h) PROVE PaymentInv'
<1>1. End(h) /\ call[h].at = "insert"
      /\ UNCHANGED <<row, charged, declined, refunded, outbox, diverged, approvals,
                     logged, alerted, lost>>
  BY DEF AbandonInsert, processor, alerts
<1>2. faults' \in 0..MaxFaults
  BY FaultTyped DEF AbandonInsert, PaymentInv
<1> QED BY <1>1, <1>2, EndsQuietly DEF PaymentInv, PaymentTypeOK

LEMMA RefuseRefundKeeps ==
  ASSUME PaymentInv, NEW h \in Handlers, RefuseRefund(h) PROVE PaymentInv'
BY EndsQuietly DEF RefuseRefund, processor, alerts, PaymentInv, PaymentTypeOK

(* A step of a handler that changes what is known of one payment, which no *)
(* other handler holds.                                                    *)
LEMMA PaymentChanged ==
  ASSUME PaymentInv, NEW h \in Handlers, NEW c \in CallType, Continue(h, c), NEW p \in Payments,
         PaymentTypeOK', UNCHANGED <<charged, declined>>,
         \A q \in Payments \ {p} : /\ row'[q] = row[q] /\ refunded'[q] = refunded[q]
                                   /\ q \in diverged' <=> q \in diverged
                                   /\ Told(q)' => Told(q),
         \A e : Enqueued(e) => Enqueued(e)',
         call[h].at = "record" => call[h].id = p,
         c.at \in {"refund", "record"} => c.id = p,
         \A g \in Handlers \ {h} : ~ Holds(g, p),
         Stored(p) => /\ row'[p].order = row[p].order /\ row'[p].method = row[p].method
                      /\ row'[p].status # "none",
         refunded'[p] \in Nat /\ refunded[p] <= refunded'[p],
         row'[p].status = "succeeded" =>
           \A q \in Payments \ {p} :
             ~ (row[q].status = "succeeded" /\ row[q].order = row'[p].order),
         RowFresh(p)' /\ RowCaptured(p)' /\ RowRefunded(p)', CallSound(h)'
  PROVE  PaymentInv'
<1>1. call'[h] = c /\ \A g \in Handlers \ {h} : call'[g] = call[g]
  BY Continued DEF PaymentInv
<1>2. ASSUME NEW q \in Payments \ {p} PROVE RowFresh(q)' /\ RowCaptured(q)' /\ RowRefunded(q)'
  <2>1. RowFresh(q) /\ RowCaptured(q) /\ RowRefunded(q)
    BY DEF PaymentInv, RowsSound
  <2>2. \A g \in Handlers : Records(g, q) => Records(g, q)'
    BY <1>1 DEF Records
  <2>3. row[q].status = "succeeded" =>
          \A r \in Payments : row'[r].status = "succeeded" /\ row'[r].order = row[q].order => r = q
    BY <2>1 DEF RowCaptured
  <2> QED BY <2>1, <2>2, <2>3, RowKept
<1>3. ASSUME NEW g \in Handlers \ {h} PROVE CallSound(g)'
  <2>1. \A f \in Handlers \ {g}, q \in Payments \ {p} : Holds(f, q)' => Holds(f, q)
    BY <1>1 DEF Holds
  <2>2. CallSound(g) /\ call'[g] = call[g] /\ ~ Holds(g, p) /\ PaymentTypeOK
    BY <1>1 DEF PaymentInv, CallsSound
  <2> QED BY <2>1, <2>2, CallBeside
<1>4. RowsSound'
  BY <1>2 DEF RowsSound
<1>5. CallsSound'
  BY <1>3 DEF CallsSound
<1> QED BY <1>4, <1>5 DEF PaymentInv

(* No refund has the row of an id that was not handed out, nor one at work  *)
(* beside another.                                                         *)
LEMMA HeldAlone ==
  ASSUME PaymentInv, NEW h \in Handlers, call[h].at \in {"refund", "record"}
  PROVE  /\ call[h].id \in Payments /\ call[h].amount \in 1..Amount /\ call[h].known \in BOOLEAN
         /\ call[h].key \in CancelKeys \cup {None}
         /\ row[call[h].id].status = "succeeded"
         /\ row[call[h].id].canceled + call[h].amount <= Amount
         /\ \A g \in Handlers \ {h} : ~ Holds(g, call[h].id)
<1>1. call[h] \in CallType /\ RefundSound(h)
  BY DEF PaymentInv, PaymentTypeOK, CallsSound, CallSound
<1> QED BY <1>1, CallShape DEF RefundSound

LEMMA LoseRequestKeeps ==
  ASSUME PaymentInv, NEW h \in Handlers, LoseRequest(h) PROVE PaymentInv'
<1>1. /\ End(h) /\ Idle \in CallType /\ Idle.at = "idle" /\ Continue(h, Idle)
      /\ UNCHANGED <<row, charged, declined, refunded, approvals, logged, alerted, outbox>>
  BY DEF LoseRequest, processor, alerts, CallType, Idle, End
<1>2. faults' \in 0..MaxFaults /\ lost' \subseteq Payments
  <2>1. call[h] \in CallType
    BY DEF PaymentInv, PaymentTypeOK
  <2> QED BY <2>1, CallShape, FaultTyped DEF LoseRequest, PaymentInv, PaymentTypeOK
<1>3. CASE call[h].at # "record"
  BY <1>1, <1>2, <1>3, EndsQuietly DEF LoseRequest, PaymentInv, PaymentTypeOK
<1>4. CASE call[h].at = "record"
  <2>0. PICK p \in Payments : p = call[h].id
    BY <1>4, HeldAlone
  <2>1. \A g \in Handlers \ {h} : ~ Holds(g, p)
    BY <1>4, <2>0, HeldAlone
  <2>2. diverged' = IF Card(p) THEN diverged \cup {p} ELSE diverged
    BY <1>4, <2>0 DEF LoseRequest, Card
  <2>3. PaymentTypeOK'
    BY <1>1, <1>2, <2>1, <2>2, EndedCall DEF PaymentInv, PaymentTypeOK
  <2>4. RowFresh(p) /\ RowCaptured(p) /\ RowRefunded(p)
    BY <2>1 DEF PaymentInv, RowsSound
  <2>5. call'[h] = Idle
    BY <1>1, EndedCall DEF PaymentInv
  <2>6. CallSound(h)'
    BY <1>1, <2>5 DEF CallSound
  <2>7. RowFresh(p)' /\ RowCaptured(p)'
    BY <1>1, <2>4 DEF RowFresh, RowCaptured, Stored, Told, Enqueued, Succeeded, Captured, Card
  <2>8. RowRefunded(p)'
    BY <1>1, <2>2, <2>4 DEF RowRefunded, Card, Enqueued, Canceled, Remaining
  <2>9. refunded[p] \in Nat /\ (row[p].status = "succeeded" =>
           \A q \in Payments \ {p} : ~ (row[q].status = "succeeded" /\ row[q].order = row[p].order))
    BY <2>1, <2>4, AmountType DEF RowCaptured, PaymentInv, PaymentTypeOK
  <2>10. row[p].status # "none"
    BY <1>4, <2>0, HeldAlone
  <2>11. /\ \A e : Enqueued(e) => Enqueued(e)'
         /\ \A q : Told(q)' => Told(q)
    BY <1>1 DEF Enqueued, Told, Succeeded
  <2> QED BY <1>1, <2>0, <2>1, <2>2, <2>3, <2>6, <2>7, <2>8, <2>9, <2>10, <2>11, PaymentChanged
<1> QED BY <1>3, <1>4

LEMMA BeginCancelKeeps ==
  ASSUME PaymentInv, NEW h \in Handlers, NEW p \in Payments, NEW n \in 1..Amount,
         NEW k \in CancelKeys \cup {None}, BeginCancel(h, p, n, k)
  PROVE  PaymentInv'
<1>1. PICK a \in {"refund", "record"} : a = IF row[p].method = "bypass" THEN "record" ELSE "refund"
  OBVIOUS
<1> DEFINE c == [at |-> a, id |-> p, amount |-> n, key |-> k, known |-> FALSE]
<1>2. c \in CallType /\ c.at = a /\ c.id = p /\ c.amount = n
  BY DEF CallType
<1>3. Continue(h, c) /\ call[h].at = "idle"
  BY <1>1 DEF BeginCancel
<1>4. UNCHANGED <<row, charged, declined, refunded, outbox, diverged, approvals,
                  logged, alerted, lost, faults>>
  BY DEF BeginCancel, processor, alerts
<1> HIDE DEF c
<1>5. /\ call'[h] = c /\ \A g \in Handlers \ {h} : call'[g] = call[g]
      /\ call' \in [Handlers -> CallType]
  BY <1>2, <1>3, Continued DEF PaymentInv
<1>6. PaymentTypeOK'
  BY <1>4, <1>5 DEF PaymentInv, PaymentTypeOK
<1>7. RowsSound'
  <2>1. \A g \in Handlers, q \in Payments : Records(g, q) => Records(g, q)'
    BY <1>3, <1>5 DEF Records
  <2> QED BY <1>4, <2>1, RowsKept DEF PaymentInv
<1>8. \A g \in Handlers \ {h} : ~ Holds(g, p) /\ ~ Holds(g, p)'
  BY <1>5 DEF BeginCancel, Locked, Holds
<1>9. CallSound(h)'
  <2>1. row[p].status = "succeeded" /\ row[p].canceled + n <= Amount
    <3>1. n <= Amount - row[p].canceled /\ row[p].canceled \in Nat
      BY RowTyped, AmountType DEF BeginCancel, Remaining, PaymentInv
    <3> QED BY <3>1, AmountType DEF BeginCancel
  <2>2. a = "record" => ~ Card(p)
    BY <1>1 DEF Card
  <2>3. RefundSound(h)'
    BY <1>2, <1>4, <1>5, <1>8, <2>1, <2>2 DEF RefundSound, Card
  <2> QED BY <1>2, <1>5, <2>3 DEF CallSound
<1>10. ASSUME NEW g \in Handlers \ {h} PROVE CallSound(g)'
  <2>1. call[g].at \in {"refund", "record"} => call[g].id # p
    BY <1>8 DEF Holds
  <2>2. call[g].at \in {"refund", "record"} =>
          \A f \in Handlers \ {g} : Holds(f, call[g].id)' => Holds(f, call[g].id)
    BY <1>2, <1>5, <2>1 DEF Holds
  <2>3. \A e : Enqueued(e) => Enqueued(e)'
    BY <1>4 DEF Enqueued
  <2> QED BY <1>4, <1>5, <2>2, <2>3, CallQuiet DEF PaymentInv, CallsSound
<1>11. CallsSound'
  BY <1>9, <1>10 DEF CallsSound
<1> QED BY <1>6, <1>7, <1>11 DEF PaymentInv

(* The amount recorded: it fits what remains, it is no more than was given, *)
(* and it is exactly what was given when the processor reported its balance *)
(* or the books agreed with it before.                                      *)
LEMMA ReconciledFits ==
  ASSUME NEW p \in Payments, NEW n, NEW given \in 1..Amount, NEW known \in BOOLEAN,
         row[p].canceled \in 0..Amount, row[p].canceled < Amount,
         refunded[p] \in 0..Amount, refunded[p] + given <= Amount
  PROVE  LET m == ReconciledAmount(p, n, given, known)
         IN /\ m \in 1..Amount /\ row[p].canceled + m <= Amount
            /\ row[p].canceled <= refunded[p] => row[p].canceled + m <= refunded[p] + given
            /\ known /\ row[p].canceled <= refunded[p] => row[p].canceled + m = refunded[p] + given
            /\ row[p].canceled = refunded[p] => row[p].canceled + m = refunded[p] + given
<1>1. PICK r \in 0..Amount : r = row[p].canceled
  OBVIOUS
<1>2. PICK f \in 0..Amount : f = refunded[p]
  OBVIOUS
<1> DEFINE reported == IF known THEN (Amount - r) - (Amount - f - given) ELSE given
           atLeast1 == IF reported < 1 THEN 1 ELSE reported
           m        == IF atLeast1 > Amount - r THEN Amount - r ELSE atLeast1
<1>3. ReconciledAmount(p, n, given, known) = m
  BY <1>1, <1>2 DEF ReconciledAmount, Remaining
<1>4. /\ m \in 1..Amount /\ r + m <= Amount
      /\ r <= f => r + m <= f + given
      /\ known /\ r <= f => r + m = f + given
      /\ r = f => r + m = f + given
  BY <1>1, <1>2, AmountType
<1> HIDE DEF m
<1> QED BY <1>1, <1>2, <1>3, <1>4

LEMMA RefundCardKeeps ==
  ASSUME PaymentInv, NEW h \in Handlers, NEW given \in 1..Amount, NEW known \in BOOLEAN,
         RefundCard(h, given, known)
  PROVE  PaymentInv'
<1>1. call[h].at = "refund"
  BY DEF RefundCard
<1>2. PICK p \in Payments : p = call[h].id
  BY <1>1, HeldAlone
<1>3. PICK m : m = ReconciledAmount(p, call[h].amount, given, known)
  OBVIOUS
<1> DEFINE c == [call[h] EXCEPT !.at = "record", !.known = known, !.amount = m]
<1>4. /\ Continue(h, c) /\ refunded' = [refunded EXCEPT ![p] = @ + given]
      /\ call[h].amount <= Amount - refunded[p] /\ given <= call[h].amount
      /\ UNCHANGED <<row, charged, declined, approvals,
                     logged, alerted, lost, outbox, diverged, faults>>
  BY <1>2, <1>3 DEF RefundCard, alerts
<1>5. /\ call[h].amount \in 1..Amount /\ row[p].status = "succeeded"
      /\ row[p].canceled + call[h].amount <= Amount
      /\ \A g \in Handlers \ {h} : ~ Holds(g, p)
  BY <1>1, <1>2, HeldAlone
<1>6. row[p].canceled \in 0..Amount /\ refunded[p] \in 0..Amount
  BY RowTyped DEF PaymentInv, PaymentTypeOK
<1>7. row[p].canceled < Amount /\ refunded[p] + given <= Amount
  BY <1>4, <1>5, <1>6, AmountType
<1>8. /\ m \in 1..Amount /\ row[p].canceled + m <= Amount
      /\ row[p].canceled <= refunded[p] => row[p].canceled + m <= refunded[p] + given
      /\ known /\ row[p].canceled <= refunded[p] => row[p].canceled + m = refunded[p] + given
      /\ row[p].canceled = refunded[p] => row[p].canceled + m = refunded[p] + given
  BY <1>3, <1>6, <1>7, ReconciledFits
<1>9. c \in CallType /\ c.at = "record" /\ c.id = p /\ c.known = known /\ c.amount = m
  <2>1. call[h] \in [at : {"refund", "record"}, id : Payments, amount : 1..Amount,
                     key : CancelKeys \cup {None}, known : BOOLEAN]
    BY <1>1, CallShape DEF PaymentInv, PaymentTypeOK
  <2>2. c \in [at : {"refund", "record"}, id : Payments, amount : 1..Amount,
               key : CancelKeys \cup {None}, known : BOOLEAN]
    BY <1>8, <2>1
  <2> QED BY <1>2, <2>1, <2>2 DEF CallType
<1> HIDE DEF c
<1>10. /\ call'[h] = c /\ \A g \in Handlers \ {h} : call'[g] = call[g]
       /\ call' \in [Handlers -> CallType]
  BY <1>4, <1>9, Continued DEF PaymentInv
<1>11. refunded'[p] = refunded[p] + given /\ refunded' \in [Payments -> 0..Amount]
       /\ \A q \in Payments \ {p} : refunded'[q] = refunded[q]
  BY <1>4, <1>6, <1>7, AmountType DEF PaymentInv, PaymentTypeOK
<1>12. PaymentTypeOK'
  BY <1>4, <1>10, <1>11 DEF PaymentInv, PaymentTypeOK
<1>13. RowFresh(p) /\ RowCaptured(p) /\ RowRefunded(p)
  BY DEF PaymentInv, RowsSound
<1>14. \A g \in Handlers : ~ Records(g, p)
  BY <1>1, <1>5 DEF Records, Holds
<1>15. CallSound(h)'
  <2>1. Card(p) => /\ row[p].canceled <= refunded[p]
                   /\ p \notin diverged => row[p].canceled = refunded[p]
    BY <1>13, <1>14 DEF RowRefunded
  <2>2. Card(p) => /\ row[p].canceled + m <= refunded'[p]
                   /\ known \/ p \notin diverged => row[p].canceled + m = refunded'[p]
    BY <1>8, <1>11, <2>1
  <2>3. \A g \in Handlers \ {h} : ~ Holds(g, p)'
    BY <1>5, <1>10 DEF Holds
  <2>4. RefundSound(h)'
    BY <1>4, <1>5, <1>8, <1>9, <1>10, <2>2, <2>3 DEF RefundSound, Card
  <2> QED BY <1>9, <1>10, <2>4 DEF CallSound
<1>16. RowFresh(p)' /\ RowCaptured(p)'
  BY <1>4, <1>5, <1>13
     DEF RowFresh, RowCaptured, Stored, Told, Enqueued, Succeeded, Captured, Card
<1>17. RowRefunded(p)'
  <2>1. Records(h, p)'
    BY <1>9, <1>10 DEF Records
  <2>2. Card(p) => row[p].canceled <= refunded'[p]
    BY <1>6, <1>11, <1>13, AmountType DEF RowRefunded
  <2> QED BY <1>4, <1>13, <2>1, <2>2 DEF RowRefunded, Card, Enqueued, Canceled, Remaining
<1>18. /\ \A e : Enqueued(e) => Enqueued(e)'
       /\ \A q : Told(q)' => Told(q)
  BY <1>4 DEF Enqueued, Told, Succeeded
<1>19. refunded'[p] \in Nat /\ refunded[p] <= refunded'[p]
  BY <1>6, <1>11, AmountType
<1>20. \A q \in Payments \ {p} : ~ (row[q].status = "succeeded" /\ row[q].order = row[p].order)
  BY <1>5, <1>13 DEF RowCaptured
<1> QED
  BY <1>1, <1>4, <1>5, <1>9, <1>11, <1>12, <1>15, <1>16, <1>17, <1>18, <1>19, <1>20, PaymentChanged

LEMMA RecordRefundKeeps ==
  ASSUME PaymentInv, NEW h \in Handlers, RecordRefund(h) PROVE PaymentInv'
<1>1. call[h].at = "record"
  BY DEF RecordRefund
<1>2. PICK p \in Payments : p = call[h].id
  BY <1>1, HeldAlone
<1>3. PICK n \in 1..Amount : n = call[h].amount
  BY <1>1, HeldAlone
<1>4. PICK k \in CancelKeys \cup {None} : k = IF call[h].key = None THEN row[p].cancelKey
                                                                   ELSE call[h].key
  BY <1>1, HeldAlone, RowTyped DEF PaymentInv
<1>5. PICK known \in BOOLEAN : known = call[h].known
  BY <1>1, HeldAlone
<1>6. PICK r : r = Recorded(row[p], n, k)
  OBVIOUS
<1>7. /\ row[p].status = "succeeded" /\ row[p].canceled + n <= Amount
      /\ \A g \in Handlers \ {h} : ~ Holds(g, p)
      /\ Card(p) => /\ row[p].canceled + n <= refunded[p]
                    /\ known \/ p \notin diverged => row[p].canceled + n = refunded[p]
  BY <1>1, <1>2, <1>3, <1>5, HeldAlone DEF RefundSound, PaymentInv, CallsSound, CallSound
<1>8. /\ row[p] \in RowType /\ row[p].canceled \in 0..Amount /\ refunded[p] \in 0..Amount
  BY RowTyped DEF PaymentInv, PaymentTypeOK
<1>9. /\ r \in RowType /\ r.order = row[p].order /\ r.method = row[p].method
      /\ r.canceled = row[p].canceled + n /\ AfterRefund(row[p], n).canceled = r.canceled
      /\ r.status = IF r.canceled = Amount THEN "canceled" ELSE "succeeded"
  <2>1. n \in 1..(Amount - row[p].canceled)
    BY <1>7, <1>8, AmountType
  <2>2. /\ r \in RowType /\ r.order = row[p].order /\ r.method = row[p].method
        /\ r.canceled = row[p].canceled + n /\ AfterRefund(row[p], n).canceled = row[p].canceled + n
        /\ r.status = IF row[p].canceled + n = Amount THEN "canceled" ELSE row[p].status
    BY <1>6, <1>8, <2>1, RecordedFields
  <2> QED BY <1>7, <2>2
<1>10. /\ row' = [row EXCEPT ![p] = r] /\ End(h)
       /\ diverged' = IF known THEN diverged \ {p} ELSE diverged
       /\ UNCHANGED <<charged, declined, refunded, approvals, logged, alerted, lost, faults>>
  <2>1. AfterRefund(row[p], n).cancelKey = row[p].cancelKey
    BY <1>8 DEF AfterRefund, RowType
  <2> QED BY <1>2, <1>3, <1>4, <1>5, <1>6, <2>1 DEF RecordRefund, Recorded, processor, alerts
<1> DEFINE e == Canceled(p, Amount - r.canceled)
<1>11. outbox' \in Seq(Events) /\ \A f : Enqueued(f)' <=> Enqueued(f) \/ f = e
  <2>1. e \in Events
    BY <1>7, <1>8, <1>9, AmountType, EventsTyped
  <2>2. Enqueue(<<e>>)
    BY <1>2, <1>3, <1>9 DEF RecordRefund, Remaining
  <2> QED BY <2>1, <2>2, Announced DEF PaymentInv, PaymentTypeOK
<1>12. /\ row'[p] = r /\ \A q \in Payments \ {p} : row'[q] = row[q]
       /\ row' \in [Payments -> RowType]
  BY <1>9, <1>10 DEF PaymentInv, PaymentTypeOK
<1>13. /\ Idle \in CallType /\ Idle.at = "idle" /\ Continue(h, Idle) /\ call'[h] = Idle
       /\ call' \in [Handlers -> CallType]
  BY <1>10, EndedCall DEF CallType, Idle, End, PaymentInv
<1>14. PaymentTypeOK'
  BY <1>10, <1>11, <1>12, <1>13 DEF PaymentInv, PaymentTypeOK
<1>15. RowFresh(p) /\ RowCaptured(p) /\ RowRefunded(p)
  BY DEF PaymentInv, RowsSound
<1>16. \A q : Told(q)' <=> Told(q)
  BY <1>11, EventsDiffer DEF Told, Succeeded, Canceled
<1>17. RowFresh(p)'
  BY <1>9, <1>12 DEF RowFresh, Stored
<1>18. RowCaptured(p)'
  BY <1>7, <1>9, <1>10, <1>12, <1>15, <1>16 DEF RowCaptured, Captured, Card
<1>19. RowRefunded(p)'
  <2>1. Card(p)' <=> Card(p)
    BY <1>9, <1>12 DEF Card
  <2>2. Enqueued(e)'
    BY <1>11
  <2>3. Enqueued(Canceled(p, Remaining(row[p])))'
    BY <1>12, <2>2 DEF Remaining, Canceled
  <2> QED BY <1>7, <1>9, <1>10, <1>12, <2>1, <2>3 DEF RowRefunded
<1>20. CallSound(h)'
  BY <1>13 DEF CallSound
<1>21. refunded'[p] \in Nat /\ refunded[p] <= refunded'[p]
  BY <1>8, <1>10, AmountType
<1>22. \A q \in Payments \ {p} : ~ (row[q].status = "succeeded" /\ row[q].order = row[p].order)
  BY <1>7, <1>15 DEF RowCaptured
<1> QED
  BY <1>1, <1>2, <1>7, <1>9, <1>10, <1>11, <1>12, <1>13, <1>14, <1>16, <1>17, <1>18, <1>19, <1>20,
     <1>21, <1>22, PaymentChanged

LEMMA InsertPaymentKeeps ==
  ASSUME PaymentInv, NEW h \in Handlers, NEW p \in Payments, InsertPayment(h, p)
  PROVE  PaymentInv'
<1>1. call[h] \in CallType /\ call[h].at = "insert" /\ ~ Stored(p)
  BY DEF InsertPayment, Fresh, PaymentInv, PaymentTypeOK
<1>2. PICK r : r = NewRow(call[h])
  OBVIOUS
<1>3. /\ r \in RowType /\ r.canceled = 0 /\ r.method \in Methods /\ r.method = call[h].method
      /\ r.status = IF r.method = "bypass" THEN "succeeded" ELSE "requires_payment"
  BY <1>1, <1>2, NewRowFields
<1>4. /\ row' = [row EXCEPT ![p] = r] /\ End(h)
      /\ Enqueue(IF r.method = "bypass" THEN <<Succeeded(p)>> ELSE <<>>)
      /\ UNCHANGED <<charged, declined, refunded, approvals,
                     logged, alerted, lost, diverged, faults>>
      /\ r.status = "succeeded" =>
           \A q \in Payments \ {p} : ~ (row[q].status = "succeeded" /\ row[q].order = r.order)
  BY <1>2, <1>3 DEF InsertPayment, IndexesAllow, Of, processor, alerts
<1>5. /\ outbox' \in Seq(Events) /\ \A f : Enqueued(f) => Enqueued(f)'
      /\ \A f : Enqueued(f)' => Enqueued(f) \/ (f = Succeeded(p) /\ r.method = "bypass")
      /\ r.method = "bypass" => Enqueued(Succeeded(p))'
  <2>1. CASE r.method = "bypass"
    <3>1. Succeeded(p) \in Events /\ Enqueue(<<Succeeded(p)>>)
      BY <1>4, <2>1, AmountType, EventsTyped
    <3>2. outbox' \in Seq(Events) /\ \A f : Enqueued(f)' <=> Enqueued(f) \/ f = Succeeded(p)
      BY <3>1, Announced DEF PaymentInv, PaymentTypeOK
    <3> QED BY <2>1, <3>2 DEF Succeeded
  <2>2. CASE r.method # "bypass"
    BY <1>4, <2>2, NothingAnnounced DEF Enqueued, PaymentInv, PaymentTypeOK
  <2> QED BY <2>1, <2>2
<1>6. /\ row'[p] = r /\ \A q \in Payments \ {p} : row'[q] = row[q]
      /\ row' \in [Payments -> RowType]
  BY <1>3, <1>4 DEF PaymentInv, PaymentTypeOK
<1>7. /\ Idle \in CallType /\ Idle.at = "idle" /\ Continue(h, Idle) /\ call'[h] = Idle
      /\ call' \in [Handlers -> CallType]
  BY <1>4, EndedCall DEF CallType, Idle, End, PaymentInv
<1>8. PaymentTypeOK'
  BY <1>4, <1>5, <1>6, <1>7 DEF PaymentInv, PaymentTypeOK
<1>9. refunded[p] = 0 /\ refunded'[p] = 0 /\ ~ Told(p)
  BY <1>1, <1>4 DEF PaymentInv, RowsSound, RowFresh
<1>10. /\ \A q \in Payments \ {p} : Told(q)' => Told(q)
       /\ r.method = "bypass" => Told(p)'
       /\ Told(p)' => r.method = "bypass"
  BY <1>5, <1>9, EventsDiffer DEF Told, Succeeded
<1>11. RowFresh(p)'
  BY <1>3, <1>6 DEF RowFresh, Stored
<1>12. RowCaptured(p)'
  BY <1>3, <1>4, <1>6, <1>10 DEF RowCaptured, Captured, Card
<1>13. RowRefunded(p)'
  BY <1>3, <1>6, <1>9 DEF RowRefunded
<1>14. CallSound(h)'
  BY <1>7 DEF CallSound
<1>15. \A g \in Handlers \ {h} : ~ Holds(g, p)
  BY <1>1, HeldAlone DEF Holds, Stored
<1> QED
  BY <1>1, <1>3, <1>4, <1>5, <1>6, <1>7, <1>8, <1>9, <1>10, <1>11, <1>12, <1>13, <1>14, <1>15,
     PaymentChanged

LEMMA SaveCopyKeeps ==
  ASSUME PaymentInv, NEW h \in Handlers, SaveCopy(h) PROVE PaymentInv'
<1>1. call[h] \in CallType /\ call[h].at = "save"
  BY DEF SaveCopy, PaymentInv, PaymentTypeOK
<1>2. PICK p \in Payments, r \in RowType : p = call[h].id /\ r = call[h].copy
  BY <1>1, CallShape
<1>3. CopySound(p, r)
  BY <1>1, <1>2 DEF PaymentInv, CallsSound, CallSound
<1>4. /\ row' = [row EXCEPT ![p] = r] /\ End(h) /\ ~ Locked(p)
      /\ Enqueue(IF r.status = "succeeded" THEN <<Succeeded(p)>> ELSE <<>>)
      /\ diverged' = IF r.canceled # row[p].canceled THEN diverged \cup {p} ELSE diverged
      /\ UNCHANGED <<charged, declined, refunded, approvals, logged, alerted, lost, faults>>
      /\ r.status = "succeeded" =>
           \A q \in Payments \ {p} : ~ (row[q].status = "succeeded" /\ row[q].order = r.order)
  BY <1>2 DEF SaveCopy, SucceededEvents, IndexesAllow, Of, processor, alerts
<1>5. /\ outbox' \in Seq(Events) /\ \A f : Enqueued(f) => Enqueued(f)'
      /\ \A f : Enqueued(f)' => Enqueued(f) \/ (f = Succeeded(p) /\ r.status = "succeeded")
      /\ r.status = "succeeded" => Enqueued(Succeeded(p))'
  <2>1. CASE r.status = "succeeded"
    <3>1. Succeeded(p) \in Events /\ Enqueue(<<Succeeded(p)>>)
      BY <1>4, <2>1, AmountType, EventsTyped
    <3>2. outbox' \in Seq(Events) /\ \A f : Enqueued(f)' <=> Enqueued(f) \/ f = Succeeded(p)
      BY <3>1, Announced DEF PaymentInv, PaymentTypeOK
    <3> QED BY <2>1, <3>2 DEF Succeeded
  <2>2. CASE r.status # "succeeded"
    BY <1>4, <2>2, NothingAnnounced DEF Enqueued, PaymentInv, PaymentTypeOK
  <2> QED BY <2>1, <2>2
<1>6. /\ row'[p] = r /\ \A q \in Payments \ {p} : row'[q] = row[q]
      /\ row' \in [Payments -> RowType]
  BY <1>4 DEF PaymentInv, PaymentTypeOK
<1>7. /\ Idle \in CallType /\ Idle.at = "idle" /\ Continue(h, Idle) /\ call'[h] = Idle
      /\ call' \in [Handlers -> CallType]
  BY <1>4, EndedCall DEF CallType, Idle, End, PaymentInv
<1>8. PaymentTypeOK'
  BY <1>4, <1>5, <1>6, <1>7 DEF PaymentInv, PaymentTypeOK
<1>9. RowFresh(p) /\ RowCaptured(p) /\ RowRefunded(p)
  BY DEF PaymentInv, RowsSound
<1>10. /\ \A q \in Payments \ {p} : Told(q)' => Told(q)
       /\ r.status = "succeeded" => Told(p)'
       /\ Told(p)' => r.status = "succeeded" \/ Told(p)
  BY <1>5, EventsDiffer DEF Told, Succeeded
<1>11. \A g \in Handlers : ~ Holds(g, p) /\ ~ Records(g, p)
  BY <1>4 DEF Locked, Holds, Records
<1>12. /\ r.order = row[p].order /\ r.method = row[p].method
       /\ r.status \in {"succeeded", "failed"}
  BY <1>3 DEF CopySound
<1>13. RowFresh(p)'
  BY <1>6, <1>12 DEF RowFresh, Stored
<1>14. RowCaptured(p)'
  <2>1. Captured(p)' <=> Captured(p)
    BY <1>4, <1>6, <1>12 DEF Captured, Card
  <2>2. r.status = "succeeded" \/ Told(p) => Captured(p)
    BY <1>3, <1>9 DEF CopySound, RowCaptured
  <2> QED BY <1>4, <1>6, <1>10, <1>12, <2>1, <2>2 DEF RowCaptured
<1>15. RowRefunded(p)'
  <2>1. Card(p)' <=> Card(p)
    BY <1>6, <1>12 DEF Card
  <2>2. r.canceled > 0 => Enqueued(Canceled(p, Remaining(r)))
    BY <1>3 DEF CopySound
  <2>3. r.canceled > 0 => Enqueued(Canceled(p, Remaining(row[p])))'
    BY <1>5, <1>6, <2>2 DEF Remaining, Canceled
  <2>4. Card(p) => r.canceled <= refunded[p]
    BY <1>3 DEF CopySound
  <2>5. Card(p) /\ p \notin diverged' => r.canceled = refunded[p]
    BY <1>4, <1>9, <1>11 DEF RowRefunded
  <2> QED BY <1>4, <1>6, <2>1, <2>3, <2>4, <2>5 DEF RowRefunded
<1>16. CallSound(h)'
  BY <1>7 DEF CallSound
<1>17. refunded'[p] \in Nat /\ refunded[p] <= refunded'[p]
  BY <1>4, AmountType DEF PaymentInv, PaymentTypeOK
<1> QED
  BY <1>1, <1>4, <1>5, <1>6, <1>7, <1>8, <1>10, <1>11, <1>12, <1>13, <1>14, <1>15, <1>16, <1>17,
     PaymentChanged

(* The processor's own steps, and an approval that does not check out. *)
LEMMA WorldKeeps ==
  ASSUME PaymentInv, NEW p \in Payments, ChargeCard(p) \/ DeclineCard(p) \/ RejectCallback(p)
  PROVE  PaymentInv'
<1>1. UNCHANGED <<row, call, refunded, outbox, diverged, faults>>
  BY DEF ChargeCard, DeclineCard, RejectCallback, processor
<1>2. /\ charged' \in SUBSET Payments /\ declined' \in SUBSET Payments
      /\ charged \subseteq charged'
  BY DEF ChargeCard, DeclineCard, RejectCallback, processor, PaymentInv, PaymentTypeOK
<1>3. /\ logged' \subseteq Payments /\ alerted' \subseteq logged' /\ lost' \subseteq Payments
      /\ approvals' \in [Payments -> 0..MaxCallbacks]
  BY ArrivalTyped, AlertTyped DEF ChargeCard, DeclineCard, RejectCallback, alerts, PaymentInv
<1>4. PaymentTypeOK'
  BY <1>1, <1>2, <1>3 DEF PaymentInv, PaymentTypeOK
<1>5. \A q \in Payments : q \in charged' \cup declined' => q \in charged \cup declined \/ Stored(q)
  <2>1. Card(p) => Stored(p)
    BY MethodAssumption, NoRowTyped DEF Card, PaymentInv, RowsSound, RowFresh
  <2> QED BY <2>1 DEF ChargeCard, DeclineCard, RejectCallback, processor, alerts, Card
<1>6. /\ \A e : Enqueued(e) => Enqueued(e)'
      /\ \A q : Told(q)' => Told(q)
  BY <1>1 DEF Enqueued, Told, Succeeded
<1>7. ASSUME NEW q \in Payments PROVE RowFresh(q)' /\ RowCaptured(q)' /\ RowRefunded(q)'
  <2>1. RowFresh(q) /\ RowCaptured(q) /\ RowRefunded(q)
    BY DEF PaymentInv, RowsSound
  <2>2. row[q].status = "succeeded" =>
          \A r \in Payments : row'[r].status = "succeeded" /\ row'[r].order = row[q].order => r = q
    BY <1>1, <2>1 DEF RowCaptured
  <2>3. \A g \in Handlers : Records(g, q) => Records(g, q)'
    BY <1>1 DEF Records
  <2> QED BY <1>1, <1>2, <1>5, <1>6, <2>1, <2>2, <2>3, RowKept
<1>8. ASSUME NEW g \in Handlers PROVE CallSound(g)'
  <2>1. \A f \in Handlers : \A q : Holds(f, q)' => Holds(f, q)
    BY <1>1 DEF Holds
  <2> QED BY <1>1, <1>2, <1>6, <2>1, CallQuiet DEF PaymentInv, CallsSound
<1>9. RowsSound' /\ CallsSound'
  BY <1>7, <1>8 DEF RowsSound, CallsSound
<1> QED BY <1>4, <1>9 DEF PaymentInv

----------------------------------------------------------------------------
(* The theorems. *)

LEMMA PaymentInit == Init => PaymentInv
<1> SUFFICES ASSUME Init PROVE PaymentInv
  OBVIOUS
<1>1. PaymentTypeOK
  BY NoRowTyped, AmountType, BoundsAssumption DEF Init, PaymentTypeOK, CallType
<1>2. RowsSound
  <2>1. \A p \in Payments : ~ Told(p) /\ row[p].status = "none" /\ row[p].canceled = 0
                            /\ row[p] = NoRow
    BY NoRowTyped DEF Init, Told, Enqueued
  <2> QED BY <2>1 DEF Init, RowsSound, RowFresh, RowCaptured, RowRefunded, Stored
<1>3. CallsSound
  BY DEF Init, CallsSound, CallSound, Idle
<1> QED BY <1>1, <1>2, <1>3 DEF PaymentInv

LEMMA PaymentStep == PaymentInv /\ [Next]_vars => PaymentInv'
<1> SUFFICES ASSUME PaymentInv, [Next]_vars PROVE PaymentInv'
  OBVIOUS
<1>1. CASE UNCHANGED vars
  <2>1. PaymentTypeOK'
    BY <1>1 DEF vars, processor, alerts, PaymentInv, PaymentTypeOK
  <2>2. RowsSound'
    BY <1>1, RowsKept DEF vars, processor, alerts, PaymentInv, Records
  <2>3. ASSUME NEW g \in Handlers PROVE CallSound(g)'
    <3>1. /\ \A e : Enqueued(e) => Enqueued(e)'
          /\ \A f \in Handlers : \A q : Holds(f, q)' => Holds(f, q)
      BY <1>1 DEF vars, Enqueued, Holds
    <3> QED BY <1>1, <3>1, CallQuiet DEF vars, processor, alerts, PaymentInv, CallsSound
  <2> QED BY <2>1, <2>2, <2>3 DEF PaymentInv, CallsSound
<1>2. ASSUME NEW h \in Handlers, Create(h) PROVE PaymentInv'
  BY <1>2, BeginCreateKeeps, FindPaymentKeeps, InsertPaymentKeeps, AbandonInsertKeeps,
     ReplayCreateKeeps, CompletePaymentKeeps DEF Create
<1>3. ASSUME NEW h \in Handlers, Cancel(h) PROVE PaymentInv'
  BY <1>3, BeginCancelKeeps, RefundCardKeeps, RefuseRefundKeeps, RecordRefundKeeps DEF Cancel
<1>4. ASSUME NEW h \in Handlers, Serve(h) PROVE PaymentInv'
  BY <1>2, <1>3, <1>4, BeginCallbackKeeps, SaveCopyKeeps, RefuseSaveKeeps, LoseRequestKeeps
     DEF Serve
<1> QED BY <1>1, <1>4, WorldKeeps DEF Next, World

LEMMA PaymentInvHolds == Spec => []PaymentInv
BY PaymentInit, PaymentStep, PTL DEF Spec

(* Columns, calls and events keep their types, for any number of handlers. *)
THEOREM PaymentTypeCorrect == Spec => []PaymentTypeOK
<1>1. PaymentInv => PaymentTypeOK
  BY DEF PaymentInv
<1> QED BY <1>1, PaymentInvHolds, PTL

(* However creations, replays, callbacks and refunds overlap or are lost,  *)
(* the order service is told of a payment only when the card was charged   *)
(* or staff took the money, and no order has two succeeded payments.       *)
THEOREM CapturesAreAccounted == Spec => []CapturesAccounted
<1>1. PaymentInv => CapturesAccounted
  <2> SUFFICES ASSUME PaymentInv PROVE CapturesAccounted
    OBVIOUS
  <2>1. ToldWasCaptured
    BY DEF ToldWasCaptured, PaymentInv, RowsSound, RowCaptured, Captured, Told
  <2>2. OneSucceededAnnounced
    BY DEF OneSucceededAnnounced, PaymentInv, RowsSound, RowCaptured, Told, Of
  <2> QED BY <2>1, <2>2 DEF CapturesAccounted
<1> QED BY <1>1, PaymentInvHolds, PTL

(* The refunds a row shows are the processor's, they are never more, and   *)
(* the balance they leave was put in the outbox.                           *)
THEOREM RefundsAreAccounted == Spec => []RefundsAccounted
<1>1. PaymentInv => RefundsAccounted
  <2> SUFFICES ASSUME PaymentInv PROVE RefundsAccounted
    OBVIOUS
  <2>1. BooksMatchProcessor
    <3>1. \A p \in Payments : ~ Locked(p) => \A h \in Handlers : ~ Records(h, p)
      BY DEF Locked, Records
    <3> QED BY <3>1 DEF BooksMatchProcessor, PaymentInv, RowsSound, RowRefunded
  <2>2. NoInventedRefund /\ BalanceAnnounced
    BY DEF NoInventedRefund, BalanceAnnounced, PaymentInv, RowsSound, RowRefunded
  <2> QED BY <2>1, <2>2 DEF RefundsAccounted
<1> QED BY <1>1, PaymentInvHolds, PTL
============================================================================
