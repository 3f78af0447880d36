---------------------------- MODULE InventoryTx ----------------------------
(***************************************************************************)
(* The transactions of the inventory store, taken apart into the steps     *)
(* another transaction can come between: each row lock and the commit. The *)
(* isolation level is READ COMMITTED: a locked row cannot change,          *)
(* everything else can. Writes become visible at commit; a canceled        *)
(* request or a lost connection rolls the transaction back.                *)
(*                                                                         *)
(* Reserving and closing lock stock rows in sku order. Shipping then locks *)
(* the products whose sold_count it raises, and deleting a product locks   *)
(* its stock rows and then the product, each by one statement in whatever  *)
(* order the planner scans: such transactions can wait for each other, and *)
(* PostgreSQL ends one of them. Other writes (set, adjust, create and      *)
(* delete variant) are one step that waits for its row.                    *)
(***************************************************************************)
EXTENDS Inventory

CONSTANT Tx       \* transactions at a time

ASSUME PoolAssumption == IsFiniteSet(Tx)   \* the connection pool is bounded

VARIABLES
  op,       \* what each transaction does: reserve want, close res, or delete products
  todo,     \* stock rows it has still to lock
  held,     \* stock rows it has locked
  seen,     \* quantity and reserved of each row as read under its lock
  booked,   \* rows of products it has locked
  checked   \* products whose delete request has passed refuseReservedStock

txVars    == <<op, todo, held, seen, booked>>
allTxVars == <<rows, retired, quantity, reserved, seq, status, lines, deleted, soldCount,
               op, todo, held, seen, booked, checked>>

NoUnits == [s \in Sku |-> 0]
IdleTx  == [kind |-> "idle", res |-> 0, want |-> NoUnits, drops |-> {}]
Unread  == [s \in Sku |-> [quantity |-> 0, reserved |-> 0]]

Abs == INSTANCE Inventory

----------------------------------------------------------------------------
TxInit ==
  /\ Init
  /\ op = [t \in Tx |-> IdleTx]
  /\ todo = [t \in Tx |-> {}]
  /\ held = [t \in Tx |-> {}]
  /\ seen = [t \in Tx |-> Unread]
  /\ booked = [t \in Tx |-> {}]
  /\ checked = {}

BeginTx(t, o, skus) ==
  /\ op[t].kind = "idle"
  /\ op' = [op EXCEPT ![t] = o]
  /\ todo' = [todo EXCEPT ![t] = skus]
  /\ UNCHANGED <<vars, held, seen, booked>>

(* Commit or rollback: the row locks go. *)
EndTx(t) ==
  /\ op' = [op EXCEPT ![t] = IdleTx]
  /\ todo' = [todo EXCEPT ![t] = {}]
  /\ held' = [held EXCEPT ![t] = {}]
  /\ seen' = [seen EXCEPT ![t] = Unread]
  /\ booked' = [booked EXCEPT ![t] = {}]
  /\ UNCHANGED checked

Reserving == {t \in Tx : op[t].kind = "reserve"}

(* The service resolves every line to an existing variant first.  The bound *)
(* on the sequence counts the requests under way, so each can commit.       *)
BeginReserve(t, want) ==
  /\ seq + Cardinality(Reserving) < MaxReservations
  /\ Wanted(want) \subseteq rows
  /\ BeginTx(t, [kind |-> "reserve", res |-> 0, want |-> want, drops |-> {}], Wanted(want))
  /\ UNCHANGED checked

(* SELECT ... FOR UPDATE on the reservation waits for another transaction  *)
(* closing it; a reservation that is no longer active is refused.          *)
BeginFinalize(t, r, to) ==
  /\ \A u \in Tx : op[u].res # r
  /\ status[r] = "active"
  /\ BeginTx(t, [kind |-> to, res |-> r, want |-> lines[r], drops |-> {}], Wanted(lines[r]))
  /\ UNCHANGED checked

(* refuseReservedStock reads the counters outside any transaction. *)
CheckProduct(p) ==
  /\ p \notin deleted \cup checked
  /\ \A s \in SkusOf(p) \cap rows : reserved[s] = 0
  /\ checked' = checked \cup {p}
  /\ UNCHANGED <<vars, txVars>>

(* The store's delete looks at no counter: it takes the stock rows that are *)
(* there.                                                                   *)
BeginDelete(t, p) ==
  /\ p \in checked
  /\ BeginTx(t, [kind |-> "delete", res |-> 0, want |-> NoUnits, drops |-> {p}], SkusOf(p) \cap rows)
  /\ checked' = checked \ {p}

----------------------------------------------------------------------------
(* Row locks *)

\* Slip: closing a reservation locks its rows in the opposite order.
NextRowsUnsorted(t) ==
  {s \in todo[t] : op[t].kind = "delete"
                     \/ \A u \in todo[t] : IF op[t].kind = "reserve" THEN s <= u ELSE s >= u}

\* Rows are locked in sku order, for reserving and for closing alike; a
\* DELETE finds them in any order.
NextRows(t) == {s \in todo[t] : op[t].kind = "delete" \/ \A u \in todo[t] : s <= u}

\* Slip: the rows are read without FOR UPDATE.
RowFreeIgnored(s) == s \in Sku

RowFree(s) == \A t \in Tx : s \notin held[t]

(* The checks made on each row as it is locked. *)
RowSuffices(t, s) ==
  LET n == op[t].want[s]
  IN CASE op[t].kind = "reserve"   -> Available(s) >= n
       [] op[t].kind = "committed" -> reserved[s] >= n /\ quantity[s] >= n
       [] op[t].kind = "released"  -> reserved[s] >= n
       [] op[t].kind = "delete"    -> TRUE

LockRow(t, s) ==
  /\ s \in NextRows(t) \cap rows
  /\ RowFree(s)
  /\ RowSuffices(t, s)
  /\ todo' = [todo EXCEPT ![t] = @ \ {s}]
  /\ held' = [held EXCEPT ![t] = @ \cup {s}]
  /\ seen' = [seen EXCEPT ![t][s] = [quantity |-> quantity[s], reserved |-> reserved[s]]]
  /\ UNCHANGED <<vars, op, booked, checked>>

(* Slip: a row that is gone is retried instead of ending the request. *)
RejectShortRow(t, s) ==
  /\ op[t].kind # "delete" /\ s \in NextRows(t) \cap rows
  /\ RowFree(s)
  /\ ~ RowSuffices(t, s)
  /\ EndTx(t)
  /\ UNCHANGED vars

(* A missing row or a short one rolls the transaction back. *)
RejectRow(t, s) ==
  /\ op[t].kind # "delete" /\ s \in NextRows(t)
  /\ RowFree(s)
  /\ s \notin rows \/ ~ RowSuffices(t, s)
  /\ EndTx(t)
  /\ UNCHANGED vars

(* A DELETE skips a row that is gone when its lock is free. *)
SkipRow(t, s) ==
  /\ op[t].kind = "delete" /\ s \in NextRows(t) \ rows
  /\ todo' = [todo EXCEPT ![t] = @ \ {s}]
  /\ UNCHANGED <<vars, op, held, seen, booked, checked>>

(* The products a transaction writes after its stock rows. *)
Touches(t) ==
  IF op[t].kind = "committed" THEN {p \in Product : UnitCount(op[t].want, p) > 0} ELSE op[t].drops

UnbookedOf(t) == Touches(t) \ (booked[t] \cup deleted)
BookFree(p)   == \A t \in Tx : p \notin booked[t]
RowsDone(t)   == op[t].kind # "idle" /\ todo[t] = {}

LockProduct(t, p) ==
  /\ RowsDone(t) /\ p \in UnbookedOf(t) /\ BookFree(p)
  /\ booked' = [booked EXCEPT ![t] = @ \cup {p}]
  /\ UNCHANGED <<vars, op, todo, held, seen, checked>>

(* Every lock the transaction can ask for next is held by another in S. *)
WaitsIn(t, S) ==
  LET others == S \ {t}
  IN
  \/ todo[t] # {} /\ \A s \in NextRows(t) : \E u \in others : s \in held[u]
  \/ /\ RowsDone(t) /\ UnbookedOf(t) # {}
     /\ \A p \in UnbookedOf(t) : \E u \in others : p \in booked[u]

Stuck(S) == S # {} /\ \A t \in S : WaitsIn(t, S)

(* PostgreSQL ends one of the transactions that wait for each other. *)
AbortDeadlocked(t) ==
  /\ \E S \in SUBSET Tx : t \in S /\ Stuck(S)
  /\ EndTx(t)
  /\ UNCHANGED vars

----------------------------------------------------------------------------
(* Commits *)

Locked(t) == RowsDone(t) /\ UnbookedOf(t) = {}

CommitReserve(t) ==
  /\ op[t].kind = "reserve" /\ Locked(t)
  /\ reserved' = [s \in Sku |-> IF s \in held[t]
                                THEN seen[t][s].reserved + op[t].want[s]
                                ELSE reserved[s]]
  /\ seq' = seq + 1
  /\ status' = [status EXCEPT ![seq + 1] = "active"]
  /\ lines' = [lines EXCEPT ![seq + 1] = op[t].want]
  /\ EndTx(t)
  /\ UNCHANGED <<rows, retired, quantity, deleted, soldCount>>

(* Slip: shipping takes the units from the shelf and leaves the hold. *)
CommitFinalizeKeepsHold(t) ==
  LET want == op[t].want
      kept == IF op[t].kind = "committed" THEN want ELSE NoUnits
  IN
  /\ op[t].kind \in Closed /\ Locked(t)
  /\ quantity' = [s \in Sku |-> IF s \in held[t] THEN seen[t][s].quantity - kept[s] ELSE quantity[s]]
  /\ reserved' = [s \in Sku |-> IF s \in held[t]
                                THEN seen[t][s].reserved - want[s] + kept[s]
                                ELSE reserved[s]]
  /\ soldCount' = [p \in Product |-> soldCount[p] + UnitCount(kept, p)]
  /\ status' = [status EXCEPT ![op[t].res] = op[t].kind]
  /\ EndTx(t)
  /\ UNCHANGED <<rows, retired, seq, lines, deleted>>

CommitFinalize(t) ==
  LET want    == op[t].want
      shipped == IF op[t].kind = "committed" THEN want ELSE NoUnits
  IN
  /\ op[t].kind \in Closed /\ Locked(t)
  /\ reserved' = [s \in Sku |-> IF s \in held[t]
                                THEN seen[t][s].reserved - want[s]
                                ELSE reserved[s]]
  /\ quantity' = [s \in Sku |-> IF s \in held[t]
                                THEN seen[t][s].quantity - shipped[s]
                                ELSE quantity[s]]
  /\ soldCount' = [p \in Product |-> soldCount[p] + UnitCount(shipped, p)]
  /\ status' = [status EXCEPT ![op[t].res] = op[t].kind]
  /\ EndTx(t)
  /\ UNCHANGED <<rows, retired, seq, lines, deleted>>

(* The variants go with the product; a variant that came since has a stock *)
(* row, which refuses. A product that is gone is not found.                *)
CommitDelete(t) ==
  /\ op[t].kind = "delete" /\ Locked(t)
  /\ \/ \E p \in booked[t] : SkusOf(p) \cap rows \subseteq held[t] /\ DeleteProduct(p)
     \/ UNCHANGED vars /\ \A p \in booked[t] : ~ (SkusOf(p) \cap rows \subseteq held[t])
  /\ EndTx(t)

(* The request is canceled, the server crashes or the connection drops. *)
Rollback(t) ==
  /\ op[t].kind # "idle"
  /\ EndTx(t)
  /\ UNCHANGED vars

(* Single statements wait for the row lock and then read the row afresh. *)
SetRow(s, q)    == RowFree(s) /\ SetQuantity(s, q) /\ UNCHANGED <<txVars, checked>>
AdjustRow(s, d) == RowFree(s) /\ AdjustQuantity(s, d) /\ UNCHANGED <<txVars, checked>>
NewVariant(s)   == BookFree(ProductOf[s]) /\ CreateVariant(s) /\ UNCHANGED <<txVars, checked>>
DropVariant(s)  == RowFree(s) /\ DeleteVariant(s) /\ UNCHANGED <<txVars, checked>>

TxStep(t) ==
  \/ \E s \in todo[t] : LockRow(t, s) \/ RejectRow(t, s) \/ SkipRow(t, s)
  \/ \E p \in Product : LockProduct(t, p)
  \/ CommitReserve(t) \/ CommitFinalize(t) \/ CommitDelete(t)
  \/ AbortDeadlocked(t)

TxNext ==
  \/ \E t \in Tx, want \in Requests : BeginReserve(t, want)
  \/ \E t \in Tx, r \in ResId, to \in Closed : BeginFinalize(t, r, to)
  \/ \E t \in Tx : TxStep(t) \/ Rollback(t)
  \/ \E s \in Sku, q \in Quantities : SetRow(s, q)
  \/ \E s \in Sku, d \in Deltas : AdjustRow(s, d)
  \/ \E s \in Sku : NewVariant(s) \/ DropVariant(s)
  \/ \E p \in Product : CheckProduct(p) \/ \E t \in Tx : BeginDelete(t, p)

(* PostgreSQL grants a row lock in the order it was asked for, so a        *)
(* transaction that keeps finding the row free is not passed over forever; *)
(* and it ends one of a cycle.                                             *)
TxSpec == TxInit /\ [][TxNext]_allTxVars /\ \A t \in Tx : SF_allTxVars(TxStep(t))

----------------------------------------------------------------------------
(* Type invariant of the transactions. *)
TxTypeOK ==
  /\ op \in [Tx -> [kind : {"idle", "reserve", "delete"} \cup Closed,
                    res  : 0..MaxReservations,
                    want : [Sku -> 0..MaxInt],
                    drops : SUBSET Product]]
  /\ todo \in [Tx -> SUBSET Sku]
  /\ held \in [Tx -> SUBSET Sku]
  /\ seen \in [Tx -> [Sku -> [quantity : 0..MaxInt, reserved : 0..MaxInt]]]
  /\ booked \in [Tx -> SUBSET Product]
  /\ checked \subseteq Product

(* The interleaved transactions are serialisable: every step is one        *)
(* Inventory transaction or changes nothing another request can see.       *)
(* Reading a row without its lock would lose an update here.               *)
ImplementsInventory == Abs!Spec

(* Overlapping requests that reserve or close never deadlock on stock rows *)
(* (the comment on CreateReservation): whoever waits in a circle is there  *)
(* because of a product's delete, or of two commits that raise sold_count  *)
(* of the same products.                                                   *)
NoLockCycle ==
  \A S \in SUBSET Tx : Stuck(S) =>
    \E t \in S : op[t].kind = "delete" \/ (op[t].kind = "committed" /\ RowsDone(t))

(* A request that was begun ends, with success or an error. *)
TxFinishes == \A t \in Tx : op[t].kind # "idle" ~> op[t].kind = "idle"

(* docs/api.md:857: deleting a product "is refused while any of those SKUs *)
(* has stock reserved for an open order, since that order could then       *)
(* neither ship nor release its hold".                                     *)
OpenReservationsKeepRows == \A r \in Open : Wanted(lines[r]) \subseteq rows
============================================================================
