------------------------------- MODULE Outbox -------------------------------
(***************************************************************************)
(* The transactional outbox that auth, order and payment share: a          *)
(* transaction draws a row number and writes an event in its own commit; a *)
(* drain lists the pending rows, and for each one publishes the event and  *)
(* then marks the row. Several drains run at a time (the worker, and one   *)
(* after each write), any of them may die between two steps, and a publish *)
(* that failed may have reached the broker all the same.                   *)
(*                                                                         *)
(* Row numbers come from a BIGSERIAL: a row may be drawn before and become *)
(* visible after another, and a rolled back one leaves a gap.              *)
(***************************************************************************)
EXTENDS Naturals, Sequences, FiniteSets

CONSTANTS
  Topics,      \* what an event is about (aggregate_id)
  Drains,      \* drains that run at a time
  BatchSize,   \* LIMIT of ListPendingOutbox (50)
  MaxEvents    \* bound: rows ever drawn

ASSUME OutboxAssumption == BatchSize \in Nat \ {0} /\ MaxEvents \in Nat

VARIABLES
  outbox,      \* table auth_outbox (order_outbox, payment_outbox) by row number
  batch,       \* the rows each drain listed and is not done with; it takes
               \* them in the order of their numbers
  sent,        \* whether a drain has published the first of them
  announced,   \* rows whose event reached the broker: a subscriber may take it
               \* at any time, again after a second publish, or never
  tried        \* rows with a failed attempt

outboxVars == <<outbox, batch, sent, announced, tried>>

Drawn == DOMAIN outbox

OutboxInit ==
  /\ outbox = <<>>
  /\ batch = [d \in Drains |-> {}]
  /\ sent = [d \in Drains |-> FALSE]
  /\ announced = {} /\ tried = {}

----------------------------------------------------------------------------
(* The writing transaction *)

\* The rows that were there when a row was drawn: its causes.
Visible == {i \in Drawn : outbox[i].state \in {"pending", "published"}}

Draw(t) ==
  /\ Len(outbox) < MaxEvents
  /\ outbox' = Append(outbox, [about |-> t, state |-> "drawn", after |-> Visible])
  /\ UNCHANGED <<batch, sent, announced, tried>>

Settle(i, state) ==
  /\ outbox[i].state = "drawn"
  /\ outbox' = [outbox EXCEPT ![i].state = state]
  /\ UNCHANGED <<batch, sent, announced, tried>>

----------------------------------------------------------------------------
(* A drain *)

\* Slip: a row that failed once is not listed again.
PendingUntried == {i \in Drawn \ tried : outbox[i].state = "pending"}

Pending == {i \in Drawn : outbox[i].state = "pending"}

\* ORDER BY id LIMIT: the oldest pending rows.
Oldest(rows) ==
  /\ rows \subseteq Pending
  /\ \A i \in rows, j \in Pending \ rows : i < j
  /\ Cardinality(rows) <= BatchSize
  /\ Cardinality(rows) = BatchSize \/ rows = Pending

Begin(d) ==
  /\ batch[d] = {} /\ Pending # {}
  /\ \E rows \in SUBSET Pending : Oldest(rows) /\ batch' = [batch EXCEPT ![d] = rows]
  /\ UNCHANGED <<outbox, sent, announced, tried>>

IsFirst(i, d) == i \in batch[d] /\ \A j \in batch[d] : i <= j

Reaches(i) == announced' = announced \cup {i}
PassOn(d, i) == batch' = [batch EXCEPT ![d] = @ \ {i}]

PublishRow(d, i) ==
  /\ IsFirst(i, d) /\ ~ sent[d]
  /\ Reaches(i)
  /\ sent' = [sent EXCEPT ![d] = TRUE]
  /\ UNCHANGED <<outbox, batch, tried>>

Publish(d) == \E i \in batch[d] : PublishRow(d, i)

\* RecordOutboxAttempt, and on to the next row. A flush that timed out says
\* nothing about the message.
PublishFails(d) ==
  /\ ~ sent[d]
  /\ \E i \in batch[d] :
       /\ IsFirst(i, d)
       /\ tried' = tried \cup {i}
       /\ PassOn(d, i)
       /\ Reaches(i) \/ UNCHANGED announced
  /\ UNCHANGED <<outbox, sent>>

\* MarkOutboxPublished; when it fails the row is listed again.
Mark(d) ==
  /\ sent[d]
  /\ \E i \in batch[d] :
       /\ IsFirst(i, d)
       /\ \/ outbox' = [outbox EXCEPT ![i].state = "published"]
          \/ UNCHANGED outbox
       /\ PassOn(d, i)
  /\ sent' = [sent EXCEPT ![d] = FALSE]
  /\ UNCHANGED <<announced, tried>>

Dies(d) ==
  /\ batch[d] # {}
  /\ batch' = [batch EXCEPT ![d] = {}]
  /\ sent' = [sent EXCEPT ![d] = FALSE]
  /\ UNCHANGED <<outbox, announced, tried>>

Drain(d) == Begin(d) \/ Publish(d) \/ PublishFails(d) \/ Mark(d) \/ Dies(d)

----------------------------------------------------------------------------
OutboxTypeOK ==
  /\ outbox \in Seq([about : Topics, after : SUBSET (1 .. MaxEvents),
                     state : {"drawn", "pending", "published", "void"}])
  /\ \A d \in Drains : /\ batch[d] \subseteq Visible /\ Cardinality(batch[d]) <= BatchSize
                       /\ sent[d] => \E i \in announced : IsFirst(i, d)
  /\ announced \subseteq Visible /\ tried \subseteq Visible
  /\ \A i \in Drawn : outbox[i].state = "published" => i \in announced

(* An event never reaches the broker before one that was committed when its *)
(* own row was drawn, unless publishing that one failed: the drain goes on  *)
(* to the next row after a failure, and only then. Consumers that need the  *)
(* order of two events of one order or payment get it no other way.         *)
EarlierFirst ==
  [][\A i \in announced' \ announced : outbox[i].after \subseteq announced' \cup tried']_outboxVars

(* Every committed event reaches the broker, whatever drain dies between    *)
(* listing, publishing and marking, if the worker gets to publish at times. *)
EventsAreAnnounced ==
  \A i \in 1 .. MaxEvents :
    (i \in Drawn /\ outbox[i].state = "pending") ~> (i \in announced)

(* The outbox's promise to consumers.                                       *)
EventsDelivered == EarlierFirst /\ EventsAreAnnounced

DrainFairness(worker) ==
  /\ SF_outboxVars(Begin(worker))
  /\ SF_outboxVars(Mark(worker))
  /\ \A i \in 1 .. MaxEvents : SF_outboxVars(PublishRow(worker, i))
============================================================================
