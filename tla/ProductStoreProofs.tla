------------------------ MODULE ProductStoreProofs -------------------------
(* Proofs about the stores of the product service, for any skus, products, *)
(* requests, transactions and staff: the row locks make interleaved        *)
(* transactions implement Inventory, and the catalog over the same stock   *)
(* never refers to a row that is gone.                                     *)
EXTENDS InventoryTx, Catalog, InventoryProofs, WellFoundedInduction

(**************************************************************************)
(* InventoryTx: what InventoryProofs shows of the atomic store holds of   *)
(* the interleaved transactions, and locking rows in sku order keeps      *)
(* deadlocks to deletes and to commits that write sold_count.             *)
(**************************************************************************)
----------------------------------------------------------------------------
(* The inductive invariant. *)

\* What a transaction carries goes with what it does.
OpShape(t) ==
  /\ op[t].kind = "idle" => op[t] = IdleTx /\ todo[t] = {} /\ held[t] = {} /\ booked[t] = {}
  /\ op[t].kind # "delete" => op[t].drops = {}
  /\ op[t].kind \notin Closed => op[t].res = 0
  /\ op[t].kind = "reserve" => op[t].want \in Requests

\* Reserving and closing lock the rows they want, in sku order.
SkuOrder(t) ==
  op[t].kind \in {"reserve"} \cup Closed =>
    /\ todo[t] \cup held[t] = Wanted(op[t].want)
    /\ \A s \in held[t], u \in todo[t] : s < u

\* A locked row is as it was read, and has the units the transaction needs.
RowRead(t, s) ==
  /\ s \in rows
  /\ seen[t][s].quantity = quantity[s] /\ seen[t][s].reserved = reserved[s]
  /\ op[t].kind = "reserve" => quantity[s] - reserved[s] >= op[t].want[s]
  /\ op[t].kind \in Closed => reserved[s] >= op[t].want[s]
  /\ op[t].kind = "committed" => quantity[s] >= op[t].want[s]

\* A reservation is closed by one transaction at a time, and stays open until then.
ClosesOpen(t) ==
  op[t].kind \in Closed =>
    /\ op[t].res \in ResId /\ status[op[t].res] = "active"
    /\ op[t].want = lines[op[t].res]
    /\ \A u \in Tx \ {t} : op[u].res # op[t].res

TxShape      == \A t \in Tx : OpShape(t) /\ SkuOrder(t)
RowsExclude  == \A t, u \in Tx : t # u => held[t] \cap held[u] = {}
ReadsCurrent == \A t \in Tx : \A s \in held[t] : RowRead(t, s)
ClosesOnce   == \A t \in Tx : ClosesOpen(t)
SeqHasRoom   == seq + Cardinality(Reserving) <= MaxReservations

TxInv ==
  TypeOK /\ TxTypeOK /\ TxShape /\ RowsExclude /\ ReadsCurrent /\ ClosesOnce /\ SeqHasRoom

----------------------------------------------------------------------------
(* Type correctness of the transactions. *)

LEMMA NoUnitsTyped == NoUnits \in [Sku -> 0..MaxInt]
BY InputAssumption DEF NoUnits

LEMMA IdleTyped ==
  /\ IdleTx \in [kind : {"idle", "reserve", "delete"} \cup Closed, res : 0..MaxReservations,
               want : [Sku -> 0..MaxInt], drops : SUBSET Product]
  /\ IdleTx.kind = "idle" /\ IdleTx.res = 0 /\ IdleTx.want = NoUnits /\ IdleTx.drops = {}
  /\ Unread \in [Sku -> [quantity : 0..MaxInt, reserved : 0..MaxInt]]
BY NoUnitsTyped, InputAssumption DEF IdleTx, Unread

(* Ending a transaction gives up all it holds, and touches no other. *)
LEMMA Ended ==
  ASSUME TxTypeOK, NEW t \in Tx, EndTx(t)
  PROVE  /\ op'[t] = IdleTx /\ todo'[t] = {} /\ held'[t] = {} /\ booked'[t] = {}
         /\ \A u \in Tx \ {t} : /\ op'[u] = op[u] /\ todo'[u] = todo[u] /\ held'[u] = held[u]
                                /\ seen'[u] = seen[u] /\ booked'[u] = booked[u]
         /\ TxTypeOK'
BY IdleTyped DEF EndTx, TxTypeOK

(* A transaction begins with nothing locked. *)
LEMMA Begun ==
  ASSUME TxTypeOK, NEW t \in Tx, NEW kind \in {"reserve", "delete"} \cup Closed,
         NEW res \in 0..MaxReservations, NEW want \in [Sku -> 0..MaxInt],
         NEW drops \in SUBSET Product, NEW skus \in SUBSET Sku,
         BeginTx(t, [kind |-> kind, res |-> res, want |-> want, drops |-> drops], skus),
         checked' \subseteq Product
  PROVE  /\ op'[t].kind = kind /\ op'[t].res = res /\ op'[t].want = want /\ op'[t].drops = drops
         /\ todo'[t] = skus
         /\ \A u \in Tx \ {t} : op'[u] = op[u] /\ todo'[u] = todo[u]
         /\ UNCHANGED <<held, seen, booked>> /\ UNCHANGED vars
         /\ TxTypeOK'
BY DEF BeginTx, TxTypeOK

(* What each request begins with. *)
LEMMA ReserveBegun ==
  ASSUME TxTypeOK, NEW t \in Tx, NEW want \in Requests, BeginReserve(t, want)
  PROVE  /\ op'[t].kind = "reserve" /\ op'[t].res = 0 /\ op'[t].want = want /\ op'[t].drops = {}
         /\ todo'[t] = Wanted(want)
         /\ \A u \in Tx \ {t} : op'[u] = op[u] /\ todo'[u] = todo[u]
         /\ UNCHANGED <<held, seen, booked>> /\ UNCHANGED vars
         /\ TxTypeOK'
<1>1. want \in [Sku -> 0..MaxInt] /\ Wanted(want) \in SUBSET Sku /\ 0 \in 0..MaxReservations
  BY InputAssumption DEF Wanted
<1>2. checked' \subseteq Product
  BY DEF BeginReserve, TxTypeOK
<1> QED BY <1>1, <1>2, Begun DEF BeginReserve

LEMMA FinalizeBegun ==
  ASSUME TypeOK, TxTypeOK, NEW t \in Tx, NEW r \in ResId, NEW to \in Closed,
         BeginFinalize(t, r, to)
  PROVE  /\ op'[t].kind = to /\ op'[t].res = r /\ op'[t].want = lines[r] /\ op'[t].drops = {}
         /\ todo'[t] = Wanted(lines[r])
         /\ \A u \in Tx \ {t} : op'[u] = op[u] /\ todo'[u] = todo[u]
         /\ UNCHANGED <<held, seen, booked>> /\ UNCHANGED vars
         /\ TxTypeOK'
<1>1. /\ lines[r] \in [Sku -> 0..MaxInt] /\ Wanted(lines[r]) \in SUBSET Sku
      /\ r \in 0..MaxReservations
  BY InputAssumption DEF Wanted, TypeOK, ResId
<1>2. checked' \subseteq Product
  BY DEF BeginFinalize, TxTypeOK
<1> QED BY <1>1, <1>2, Begun DEF BeginFinalize

LEMMA DeleteBegun ==
  ASSUME TxTypeOK, NEW t \in Tx, NEW p \in Product, BeginDelete(t, p)
  PROVE  /\ op'[t].kind = "delete" /\ op'[t].res = 0 /\ op'[t].want = NoUnits
         /\ op'[t].drops = {p}
         /\ todo'[t] = SkusOf(p) \cap rows
         /\ \A u \in Tx \ {t} : op'[u] = op[u] /\ todo'[u] = todo[u]
         /\ UNCHANGED <<held, seen, booked>> /\ UNCHANGED vars
         /\ TxTypeOK'
<1>1. NoUnits \in [Sku -> 0..MaxInt] /\ SkusOf(p) \cap rows \in SUBSET Sku
      /\ 0 \in 0..MaxReservations
  BY NoUnitsTyped, InputAssumption DEF SkusOf
<1>2. checked' \subseteq Product
  BY DEF BeginDelete, TxTypeOK
<1> QED BY <1>1, <1>2, Begun DEF BeginDelete

(* Locking a row moves it from what is still to lock to what is locked. *)
LEMMA RowLocked ==
  ASSUME TypeOK, TxTypeOK, NEW t \in Tx, NEW s \in todo[t], LockRow(t, s)
  PROVE  /\ todo'[t] = todo[t] \ {s} /\ held'[t] = held[t] \cup {s}
         /\ seen'[t][s].quantity = quantity[s] /\ seen'[t][s].reserved = reserved[s]
         /\ \A q \in Sku \ {s} : seen'[t][q] = seen[t][q]
         /\ \A u \in Tx \ {t} : todo'[u] = todo[u] /\ held'[u] = held[u] /\ seen'[u] = seen[u]
         /\ UNCHANGED <<op, booked, checked>> /\ UNCHANGED vars
         /\ TxTypeOK'
<1>1. s \in Sku
  BY DEF TxTypeOK
<1>2. [quantity |-> quantity[s], reserved |-> reserved[s]]
        \in [quantity : 0..MaxInt, reserved : 0..MaxInt]
  BY <1>1 DEF TypeOK
<1>3. /\ seen' = [seen EXCEPT ![t] = [seen[t] EXCEPT ![s] = [quantity |-> quantity[s],
                                                           reserved |-> reserved[s]]]]
  BY DEF LockRow, TxTypeOK
<1>4. /\ seen'[t] = [seen[t] EXCEPT ![s] = [quantity |-> quantity[s], reserved |-> reserved[s]]]
      /\ \A u \in Tx \ {t} : seen'[u] = seen[u]
      /\ seen' \in [Tx -> [Sku -> [quantity : 0..MaxInt, reserved : 0..MaxInt]]]
  BY <1>1, <1>2, <1>3 DEF TxTypeOK
<1>5. /\ seen'[t][s].quantity = quantity[s] /\ seen'[t][s].reserved = reserved[s]
      /\ \A q \in Sku \ {s} : seen'[t][q] = seen[t][q]
  BY <1>1, <1>4 DEF TxTypeOK
<1> QED BY <1>1, <1>4, <1>5 DEF LockRow, TxTypeOK

LEMMA TxTypeInit == TxInit => TxTypeOK
BY IdleTyped DEF TxInit, TxTypeOK

LEMMA TxTypeStep == TypeOK /\ TxTypeOK /\ [TxNext]_allTxVars => TxTypeOK'
<1> SUFFICES ASSUME TypeOK, TxTypeOK, [TxNext]_allTxVars PROVE TxTypeOK'
  OBVIOUS
<1>1. ASSUME NEW t \in Tx, EndTx(t) PROVE TxTypeOK'
  BY <1>1, Ended
<1>2. ASSUME NEW t \in Tx, NEW s \in todo[t], LockRow(t, s) PROVE TxTypeOK'
  BY <1>2, RowLocked
<1>3. ASSUME NEW t \in Tx, NEW s \in todo[t], SkipRow(t, s) PROVE TxTypeOK'
  BY <1>3 DEF SkipRow, TxTypeOK
<1>4. ASSUME NEW t \in Tx, NEW p \in Product, LockProduct(t, p) PROVE TxTypeOK'
  BY <1>4 DEF LockProduct, TxTypeOK
<1>5. ASSUME NEW p \in Product, CheckProduct(p) PROVE TxTypeOK'
  BY <1>5 DEF CheckProduct, txVars, TxTypeOK
<1>6. ASSUME UNCHANGED <<txVars, checked>> PROVE TxTypeOK'
  BY <1>6 DEF txVars, TxTypeOK
<1>7. ASSUME NEW t \in Tx, TxStep(t) PROVE TxTypeOK'
  BY <1>7, <1>1, <1>2, <1>3, <1>4
     DEF TxStep, RejectRow, CommitReserve, CommitFinalize, CommitDelete, AbortDeadlocked
<1> QED
  BY <1>1, <1>5, <1>6, <1>7, ReserveBegun, FinalizeBegun, DeleteBegun
     DEF TxNext, Rollback, SetRow, AdjustRow, NewVariant, DropVariant, allTxVars, txVars

----------------------------------------------------------------------------
(* What a transaction carries goes with what it does, after every step. *)

LEMMA IdleShape ==
  ASSUME NEW t \in Tx, op[t] = IdleTx, todo[t] = {}, held[t] = {}, booked[t] = {}
  PROVE  OpShape(t) /\ SkuOrder(t)
BY IdleTyped DEF OpShape, SkuOrder, Closed

LEMMA ShapeInit == TxInit => TxShape
BY IdleShape DEF TxInit, TxShape

LEMMA ShapeKept ==
  ASSUME TxShape, NEW u \in Tx, op'[u] = op[u], todo'[u] = todo[u], held'[u] = held[u],
         booked'[u] = booked[u]
  PROVE  OpShape(u)' /\ SkuOrder(u)'
BY DEF TxShape, OpShape, SkuOrder

LEMMA ShapeEnded == ASSUME TxTypeOK, TxShape, NEW t \in Tx, EndTx(t) PROVE TxShape'
<1>1. OpShape(t)' /\ SkuOrder(t)'
  BY Ended, IdleTyped DEF OpShape, SkuOrder, Closed
<1>2. ASSUME NEW u \in Tx \ {t} PROVE OpShape(u)' /\ SkuOrder(u)'
  BY Ended, ShapeKept
<1> QED BY <1>1, <1>2 DEF TxShape

LEMMA ShapeBegun ==
  ASSUME TxShape, NEW t \in Tx, op[t].kind = "idle",
         op'[t].kind \in {"reserve", "delete"} \cup Closed,
         op'[t].kind # "delete" => op'[t].drops = {} /\ todo'[t] = Wanted(op'[t].want),
         op'[t].kind \notin Closed => op'[t].res = 0,
         op'[t].kind = "reserve" => op'[t].want \in Requests,
         \A u \in Tx \ {t} : op'[u] = op[u] /\ todo'[u] = todo[u],
         UNCHANGED <<held, seen, booked>>
  PROVE  TxShape'
<1>1. held'[t] = {} /\ booked'[t] = {}
  BY DEF TxShape, OpShape
<1>2. OpShape(t)' /\ SkuOrder(t)'
  BY <1>1 DEF OpShape, SkuOrder, Closed
<1>3. ASSUME NEW u \in Tx \ {t} PROVE OpShape(u)' /\ SkuOrder(u)'
  BY ShapeKept
<1> QED BY <1>2, <1>3 DEF TxShape

(* The row locked is the first of those still to lock: the order stands. *)
LEMMA ShapeLocked ==
  ASSUME TypeOK, TxTypeOK, TxShape, NEW t \in Tx, NEW s \in todo[t], LockRow(t, s)
  PROVE  TxShape'
<1>1. OpShape(t)'
  BY RowLocked DEF OpShape, TxShape
<1>2. SkuOrder(t)'
  <2> SUFFICES ASSUME op[t].kind \in {"reserve"} \cup Closed
               PROVE  /\ todo'[t] \cup held'[t] = Wanted(op[t].want)
                      /\ \A q \in held'[t], u \in todo'[t] : q < u
    BY RowLocked DEF SkuOrder
  <2>1. todo[t] \cup held[t] = Wanted(op[t].want) /\ \A q \in held[t], u \in todo[t] : q < u
    BY DEF TxShape, SkuOrder
  <2>2. \A u \in todo[t] : s <= u
    BY DEF LockRow, NextRows, Closed
  <2>3. \A u \in todo[t] \ {s} : s < u
    BY <2>2, SkuAssumption DEF TxTypeOK
  <2> QED BY <2>1, <2>3, RowLocked
<1>3. ASSUME NEW u \in Tx \ {t} PROVE OpShape(u)' /\ SkuOrder(u)'
  BY RowLocked, ShapeKept
<1> QED BY <1>1, <1>2, <1>3 DEF TxShape

LEMMA ShapeSkipped ==
  ASSUME TxTypeOK, TxShape, NEW t \in Tx, NEW s \in todo[t], SkipRow(t, s) PROVE TxShape'
<1>1. OpShape(t)' /\ SkuOrder(t)'
  BY DEF SkipRow, TxTypeOK, TxShape, OpShape, SkuOrder, Closed
<1>2. ASSUME NEW u \in Tx \ {t} PROVE OpShape(u)' /\ SkuOrder(u)'
  BY ShapeKept DEF SkipRow, TxTypeOK
<1> QED BY <1>1, <1>2 DEF TxShape

LEMMA ShapeBooked ==
  ASSUME TxTypeOK, TxShape, NEW t \in Tx, NEW p \in Product, LockProduct(t, p) PROVE TxShape'
<1>1. OpShape(t)' /\ SkuOrder(t)'
  BY DEF LockProduct, RowsDone, TxShape, OpShape, SkuOrder
<1>2. ASSUME NEW u \in Tx \ {t} PROVE OpShape(u)' /\ SkuOrder(u)'
  BY ShapeKept DEF LockProduct, TxTypeOK
<1> QED BY <1>1, <1>2 DEF TxShape

LEMMA ShapeStep == TypeOK /\ TxTypeOK /\ TxShape /\ [TxNext]_allTxVars => TxShape'
<1> SUFFICES ASSUME TypeOK, TxTypeOK, TxShape, [TxNext]_allTxVars PROVE TxShape'
  OBVIOUS
<1>1. ASSUME NEW t \in Tx, NEW want \in Requests, BeginReserve(t, want) PROVE TxShape'
  <2>1. op[t].kind = "idle"
    BY <1>1 DEF BeginReserve, BeginTx
  <2>2. /\ op'[t].kind = "reserve" /\ op'[t].res = 0 /\ op'[t].want = want /\ op'[t].drops = {}
        /\ todo'[t] = Wanted(want)
        /\ \A u \in Tx \ {t} : op'[u] = op[u] /\ todo'[u] = todo[u]
        /\ UNCHANGED <<held, seen, booked>>
    BY <1>1, ReserveBegun
  <2> QED BY <2>1, <2>2, ShapeBegun
<1>2. ASSUME NEW t \in Tx, NEW r \in ResId, NEW to \in Closed, BeginFinalize(t, r, to)
      PROVE  TxShape'
  <2>1. op[t].kind = "idle"
    BY <1>2 DEF BeginFinalize, BeginTx
  <2>2. /\ op'[t].kind = to /\ op'[t].want = lines[r] /\ op'[t].drops = {}
        /\ todo'[t] = Wanted(lines[r])
        /\ \A u \in Tx \ {t} : op'[u] = op[u] /\ todo'[u] = todo[u]
        /\ UNCHANGED <<held, seen, booked>>
    BY <1>2, FinalizeBegun
  <2> QED BY <2>1, <2>2, ShapeBegun DEF Closed
<1>3. ASSUME NEW t \in Tx, NEW p \in Product, BeginDelete(t, p) PROVE TxShape'
  BY <1>3, DeleteBegun, ShapeBegun DEF BeginDelete, BeginTx, Closed
<1>4. ASSUME UNCHANGED txVars PROVE TxShape'
  BY <1>4 DEF txVars, TxShape, OpShape, SkuOrder
<1>5. ASSUME NEW t \in Tx, TxStep(t) \/ Rollback(t) PROVE TxShape'
  BY <1>5, ShapeEnded, ShapeLocked, ShapeSkipped, ShapeBooked
     DEF TxStep, RejectRow, CommitReserve, CommitFinalize, CommitDelete, AbortDeadlocked, Rollback
<1> QED
  BY <1>1, <1>2, <1>3, <1>4, <1>5
     DEF TxNext, CheckProduct, SetRow, AdjustRow, NewVariant, DropVariant, allTxVars, txVars

----------------------------------------------------------------------------
(* A row is locked by one transaction at a time. *)

LEMMA ExcludeInit == TxInit => RowsExclude
BY DEF TxInit, RowsExclude

LEMMA ExcludeStep == TypeOK /\ TxTypeOK /\ TxShape /\ RowsExclude /\ [TxNext]_allTxVars => RowsExclude'
<1> SUFFICES ASSUME TypeOK, TxTypeOK, TxShape, RowsExclude, [TxNext]_allTxVars PROVE RowsExclude'
  OBVIOUS
<1>1. ASSUME UNCHANGED held PROVE RowsExclude'
  BY <1>1 DEF RowsExclude
<1>2. ASSUME NEW t \in Tx, EndTx(t) PROVE RowsExclude'
  BY <1>2, Ended DEF RowsExclude
<1>3. ASSUME NEW t \in Tx, NEW s \in todo[t], LockRow(t, s) PROVE RowsExclude'
  BY <1>3, RowLocked DEF RowsExclude, LockRow, RowFree
<1>4. ASSUME NEW t \in Tx, TxStep(t) \/ Rollback(t) PROVE RowsExclude'
  BY <1>4, <1>1, <1>2, <1>3
     DEF TxStep, RejectRow, SkipRow, LockProduct, CommitReserve, CommitFinalize, CommitDelete,
         AbortDeadlocked, Rollback
<1> QED
  BY <1>1, <1>4
     DEF TxNext, BeginReserve, BeginFinalize, BeginDelete, BeginTx, CheckProduct, SetRow, AdjustRow,
         NewVariant, DropVariant, allTxVars, txVars

----------------------------------------------------------------------------
(* A locked row stays as it was read. *)

LEMMA ReadsInit == TxInit => ReadsCurrent
BY DEF TxInit, ReadsCurrent

LEMMA ReadsKept ==
  ASSUME ReadsCurrent, NEW u \in Tx, op'[u] = op[u], held'[u] = held[u], seen'[u] = seen[u],
         \A s \in held[u] : s \in rows' /\ quantity'[s] = quantity[s] /\ reserved'[s] = reserved[s]
  PROVE  \A s \in held'[u] : RowRead(u, s)'
BY DEF ReadsCurrent, RowRead

(* An ending transaction writes only the rows it has locked. *)
LEMMA ReadsEnded ==
  ASSUME TxTypeOK, ReadsCurrent, NEW t \in Tx, EndTx(t),
         \A u \in Tx \ {t} : \A s \in held[u] :
           s \in rows' /\ quantity'[s] = quantity[s] /\ reserved'[s] = reserved[s]
  PROVE  ReadsCurrent'
<1>1. \A s \in held'[t] : RowRead(t, s)'
  BY Ended
<1>2. ASSUME NEW u \in Tx \ {t} PROVE \A s \in held'[u] : RowRead(u, s)'
  BY Ended, ReadsKept
<1> QED BY <1>1, <1>2 DEF ReadsCurrent

LEMMA ReadsBegun ==
  ASSUME TxShape, ReadsCurrent, NEW t \in Tx, op[t].kind = "idle",
         \A u \in Tx \ {t} : op'[u] = op[u], UNCHANGED <<held, seen, booked>>, UNCHANGED vars
  PROVE  ReadsCurrent'
<1>1. \A s \in held'[t] : RowRead(t, s)'
  BY DEF TxShape, OpShape
<1>2. ASSUME NEW u \in Tx \ {t} PROVE \A s \in held'[u] : RowRead(u, s)'
  <2>1. \A s \in held[u] : s \in rows
    BY DEF ReadsCurrent, RowRead
  <2> QED BY <2>1, ReadsKept DEF vars
<1> QED BY <1>1, <1>2 DEF ReadsCurrent

LEMMA ReadsLocked ==
  ASSUME TypeOK, TxTypeOK, ReadsCurrent, NEW t \in Tx, NEW s \in todo[t], LockRow(t, s)
  PROVE  ReadsCurrent'
<1> s \in Sku
  BY DEF TxTypeOK
<1>1. RowRead(t, s)'
  <2>1. s \in rows /\ RowSuffices(t, s)
    BY DEF LockRow
  <2>2. /\ op[t].kind = "reserve" => quantity[s] - reserved[s] >= op[t].want[s]
        /\ op[t].kind \in Closed => reserved[s] >= op[t].want[s]
        /\ op[t].kind = "committed" => quantity[s] >= op[t].want[s]
    BY <2>1 DEF RowSuffices, Available, Closed
  <2> QED BY <2>1, <2>2, RowLocked DEF RowRead, vars
<1>2. ASSUME NEW q \in held[t], q # s PROVE RowRead(t, q)'
  <2>1. q \in Sku /\ seen'[t][q] = seen[t][q]
    BY <1>2, RowLocked DEF TxTypeOK
  <2> QED BY <2>1, RowLocked DEF ReadsCurrent, RowRead, vars
<1>3. ASSUME NEW u \in Tx \ {t} PROVE \A q \in held'[u] : RowRead(u, q)'
  <2>1. \A q \in held[u] : q \in rows
    BY DEF ReadsCurrent, RowRead
  <2> QED BY <2>1, RowLocked, ReadsKept DEF vars
<1> QED BY <1>1, <1>2, <1>3, RowLocked DEF ReadsCurrent

(* A single statement that waits for its row writes no row another has locked. *)
LEMMA ReadsAlone ==
  ASSUME ReadsCurrent, UNCHANGED txVars,
         \A u \in Tx : \A s \in held[u] :
           s \in rows' /\ quantity'[s] = quantity[s] /\ reserved'[s] = reserved[s]
  PROVE  ReadsCurrent'
<1>1. ASSUME NEW u \in Tx PROVE \A s \in held'[u] : RowRead(u, s)'
  BY ReadsKept DEF txVars
<1> QED BY <1>1 DEF ReadsCurrent

LEMMA ReadsStep ==
  TypeOK /\ TxTypeOK /\ TxShape /\ RowsExclude /\ ReadsCurrent /\ [TxNext]_allTxVars => ReadsCurrent'
<1> SUFFICES ASSUME TypeOK, TxTypeOK, TxShape, RowsExclude, ReadsCurrent, [TxNext]_allTxVars
             PROVE  ReadsCurrent'
  OBVIOUS
<1>0. \A u \in Tx : \A s \in held[u] : s \in Sku /\ s \in rows
  BY DEF TxTypeOK, ReadsCurrent, RowRead
<1>1. ASSUME NEW t \in Tx, NEW want \in Requests, BeginReserve(t, want) PROVE ReadsCurrent'
  BY <1>1, ReserveBegun, ReadsBegun DEF BeginReserve, BeginTx
<1>2. ASSUME NEW t \in Tx, NEW r \in ResId, NEW to \in Closed, BeginFinalize(t, r, to)
      PROVE  ReadsCurrent'
  BY <1>2, FinalizeBegun, ReadsBegun DEF BeginFinalize, BeginTx
<1>3. ASSUME NEW t \in Tx, NEW p \in Product, BeginDelete(t, p) PROVE ReadsCurrent'
  BY <1>3, DeleteBegun, ReadsBegun DEF BeginDelete, BeginTx
<1>4. ASSUME UNCHANGED vars, UNCHANGED <<op, held, seen>> PROVE ReadsCurrent'
  BY <1>4, <1>0 DEF vars, ReadsCurrent, RowRead
<1>5. ASSUME NEW t \in Tx, EndTx(t), UNCHANGED vars PROVE ReadsCurrent'
  BY <1>5, <1>0, ReadsEnded DEF vars
<1>6. ASSUME NEW t \in Tx, CommitReserve(t) \/ CommitFinalize(t) PROVE ReadsCurrent'
  <2>1. \A u \in Tx \ {t} : \A s \in held[u] :
          s \in rows' /\ quantity'[s] = quantity[s] /\ reserved'[s] = reserved[s]
    BY <1>0, <1>6 DEF RowsExclude, CommitReserve, CommitFinalize
  <2> QED BY <1>6, <2>1, ReadsEnded DEF CommitReserve, CommitFinalize
<1>7. ASSUME NEW t \in Tx, NEW p \in Product, SkusOf(p) \cap rows \subseteq held[t],
             DeleteProduct(p), EndTx(t)
      PROVE  ReadsCurrent'
  <2>1. \A u \in Tx \ {t} : \A s \in held[u] : s \notin SkusOf(p)
    BY <1>0, <1>7 DEF RowsExclude
  <2>2. \A u \in Tx \ {t} : \A s \in held[u] :
          s \in rows' /\ quantity'[s] = quantity[s] /\ reserved'[s] = reserved[s]
    BY <1>0, <1>7, <2>1 DEF DeleteProduct, DropRows
  <2> QED BY <1>7, <2>2, ReadsEnded
<1>8. ASSUME NEW t \in Tx, TxStep(t) \/ Rollback(t) PROVE ReadsCurrent'
  <2>1. booked[t] \subseteq Product
    BY DEF TxTypeOK
  <2> QED
    BY <1>8, <1>4, <1>5, <1>6, <1>7, <2>1, ReadsLocked
       DEF TxStep, RejectRow, SkipRow, LockProduct, CommitDelete, AbortDeadlocked, Rollback
<1>9. ASSUME NEW s \in Sku, NEW q \in Quantities, SetRow(s, q) PROVE ReadsCurrent'
  BY <1>9, <1>0, ReadsAlone DEF SetRow, SetQuantity, RowFree, TypeOK
<1>10. ASSUME NEW s \in Sku, NEW d \in Deltas, AdjustRow(s, d) PROVE ReadsCurrent'
  BY <1>10, <1>0, ReadsAlone DEF AdjustRow, AdjustQuantity, RowFree, TypeOK
<1>11. ASSUME NEW s \in Sku, NewVariant(s) PROVE ReadsCurrent'
  BY <1>11, <1>0, ReadsAlone DEF NewVariant, CreateVariant
<1>12. ASSUME NEW s \in Sku, DropVariant(s) PROVE ReadsCurrent'
  BY <1>12, <1>0, ReadsAlone DEF DropVariant, DeleteVariant, DropRows, RowFree
<1>13. ASSUME NEW p \in Product, CheckProduct(p) PROVE ReadsCurrent'
  BY <1>13, <1>4 DEF CheckProduct, txVars
<1> QED
  BY <1>1, <1>2, <1>3, <1>4, <1>8, <1>9, <1>10, <1>11, <1>12, <1>13
     DEF TxNext, allTxVars, vars

----------------------------------------------------------------------------
(* One transaction at a time closes a reservation. *)

LEMMA ClosesInit == TxInit => ClosesOnce
BY IdleTyped DEF TxInit, ClosesOnce, ClosesOpen, Closed

LEMMA ClosesKept ==
  ASSUME ClosesOnce, NEW u \in Tx, op'[u] = op[u],
         op[u].kind \in Closed =>
           /\ status'[op[u].res] = "active" /\ lines'[op[u].res] = lines[op[u].res]
           /\ \A v \in Tx \ {u} : op'[v].res # op[u].res
  PROVE  ClosesOpen(u)'
BY DEF ClosesOnce, ClosesOpen

LEMMA ClosesEnded ==
  ASSUME TxTypeOK, ClosesOnce, NEW t \in Tx, EndTx(t),
         \A u \in Tx \ {t} : op[u].kind \in Closed =>
           status'[op[u].res] = "active" /\ lines'[op[u].res] = lines[op[u].res]
  PROVE  ClosesOnce'
<1>1. op'[t].kind = "idle" /\ op'[t].res = 0 /\ \A u \in Tx \ {t} : op'[u] = op[u]
  BY Ended, IdleTyped
<1>2. ClosesOpen(t)'
  BY <1>1 DEF ClosesOpen, Closed
<1>3. ASSUME NEW u \in Tx \ {t} PROVE ClosesOpen(u)'
  <2>1. op[u].kind \in Closed => op[u].res # 0 /\ \A v \in Tx \ {u} : op[v].res # op[u].res
    BY DEF ClosesOnce, ClosesOpen, ResId
  <2>2. op[u].kind \in Closed => \A v \in Tx \ {u} : op'[v].res # op[u].res
    BY <1>1, <2>1
  <2> QED BY <1>1, <2>2, ClosesKept
<1> QED BY <1>2, <1>3 DEF ClosesOnce

LEMMA ClosesBegun ==
  ASSUME ClosesOnce, NEW t \in Tx,
         \/ op'[t].kind \notin Closed /\ op'[t].res = 0
         \/ /\ op'[t].res \in ResId /\ status[op'[t].res] = "active"
            /\ op'[t].want = lines[op'[t].res]
            /\ \A u \in Tx : op[u].res # op'[t].res,
         \A u \in Tx \ {t} : op'[u] = op[u], UNCHANGED vars
  PROVE  ClosesOnce'
<1> UNCHANGED <<status, lines>>
  BY DEF vars
<1>1. ClosesOpen(t)'
  BY DEF ClosesOpen
<1>2. ASSUME NEW u \in Tx \ {t} PROVE ClosesOpen(u)'
  <2>1. op[u].kind \in Closed =>
          /\ op[u].res # 0 /\ status[op[u].res] = "active"
          /\ \A v \in Tx \ {u} : op[v].res # op[u].res
    BY DEF ClosesOnce, ClosesOpen, ResId
  <2>2. op[u].kind \in Closed => \A v \in Tx \ {u} : op'[v].res # op[u].res
    BY <2>1
  <2> QED BY <2>1, <2>2, ClosesKept
<1> QED BY <1>1, <1>2 DEF ClosesOnce

LEMMA ClosesStep ==
  TypeOK /\ TxTypeOK /\ TxShape /\ ClosesOnce /\ [TxNext]_allTxVars => ClosesOnce'
<1> SUFFICES ASSUME TypeOK, TxTypeOK, TxShape, ClosesOnce, [TxNext]_allTxVars PROVE ClosesOnce'
  OBVIOUS
<1>1. ASSUME NEW t \in Tx, NEW want \in Requests, BeginReserve(t, want) PROVE ClosesOnce'
  <2>1. op'[t].kind \notin Closed /\ op'[t].res = 0
    BY <1>1, ReserveBegun DEF Closed
  <2> QED BY <1>1, <2>1, ReserveBegun, ClosesBegun
<1>2. ASSUME NEW t \in Tx, NEW r \in ResId, NEW to \in Closed, BeginFinalize(t, r, to)
      PROVE  ClosesOnce'
  <2>1. status[r] = "active" /\ \A u \in Tx : op[u].res # r
    BY <1>2 DEF BeginFinalize
  <2> QED BY <1>2, <2>1, FinalizeBegun, ClosesBegun
<1>3. ASSUME NEW t \in Tx, NEW p \in Product, BeginDelete(t, p) PROVE ClosesOnce'
  <2>1. op'[t].kind \notin Closed /\ op'[t].res = 0
    BY <1>3, DeleteBegun DEF Closed
  <2> QED BY <1>3, <2>1, DeleteBegun, ClosesBegun
<1>4. ASSUME UNCHANGED <<status, lines, op>> PROVE ClosesOnce'
  BY <1>4 DEF ClosesOnce, ClosesOpen
<1>5. ASSUME NEW t \in Tx, EndTx(t), UNCHANGED <<status, lines>> PROVE ClosesOnce'
  BY <1>5, ClosesEnded DEF ClosesOnce, ClosesOpen
<1>6. ASSUME NEW t \in Tx, CommitReserve(t) PROVE ClosesOnce'
  <2>1. \A u \in Tx : op[u].kind \in Closed =>
          op[u].res \in ResId /\ status[op[u].res] = "active" /\ op[u].res # seq + 1
    BY DEF ClosesOnce, ClosesOpen, TypeOK, ResId
  <2>2. \A u \in Tx \ {t} : op[u].kind \in Closed =>
          status'[op[u].res] = "active" /\ lines'[op[u].res] = lines[op[u].res]
    BY <1>6, <2>1 DEF CommitReserve, TypeOK
  <2> QED BY <1>6, <2>2, ClosesEnded DEF CommitReserve
<1>7. ASSUME NEW t \in Tx, CommitFinalize(t) PROVE ClosesOnce'
  <2>1. \A u \in Tx \ {t} : op[u].kind \in Closed =>
          op[u].res \in ResId /\ status[op[u].res] = "active" /\ op[u].res # op[t].res
    BY DEF ClosesOnce, ClosesOpen
  <2>2. \A u \in Tx \ {t} : op[u].kind \in Closed =>
          status'[op[u].res] = "active" /\ lines'[op[u].res] = lines[op[u].res]
    BY <1>7, <2>1 DEF CommitFinalize, TypeOK
  <2> QED BY <1>7, <2>2, ClosesEnded DEF CommitFinalize
<1>8. ASSUME NEW t \in Tx, TxStep(t) \/ Rollback(t) PROVE ClosesOnce'
  BY <1>8, <1>4, <1>5, <1>6, <1>7
     DEF TxStep, LockRow, RejectRow, SkipRow, LockProduct, CommitDelete, DeleteProduct,
         AbortDeadlocked, Rollback, vars
<1> QED
  BY <1>1, <1>2, <1>3, <1>4, <1>8
     DEF TxNext, SetRow, AdjustRow, NewVariant, DropVariant, CheckProduct, SetQuantity,
         AdjustQuantity, CreateVariant, DeleteVariant, allTxVars, txVars, vars

----------------------------------------------------------------------------
(* Every reservation request under way can still get its number. *)

LEMMA ReservingFinite == IsFiniteSet(Reserving) /\ Cardinality(Reserving) \in Nat
BY PoolAssumption, FS_Subset, FS_CardinalityType DEF Reserving

LEMMA RoomInit == TxInit => SeqHasRoom
<1> SUFFICES ASSUME TxInit PROVE SeqHasRoom
  OBVIOUS
<1>1. Reserving = {}
  BY IdleTyped DEF TxInit, Reserving
<1> QED BY <1>1, FS_EmptySet, InputAssumption DEF TxInit, Init, SeqHasRoom

LEMMA RoomEnded ==
  ASSUME TypeOK, TxTypeOK, SeqHasRoom, NEW t \in Tx, EndTx(t),
         seq' = seq \/ (op[t].kind = "reserve" /\ seq' = seq + 1)
  PROVE  SeqHasRoom'
<1>1. Reserving' = Reserving \ {t}
  BY Ended, IdleTyped DEF Reserving
<1>2. Cardinality(Reserving)' = IF t \in Reserving THEN Cardinality(Reserving) - 1
                                                   ELSE Cardinality(Reserving)
  BY <1>1, ReservingFinite, FS_RemoveElement
<1>3. op[t].kind = "reserve" => t \in Reserving
  BY DEF Reserving
<1> QED BY <1>2, <1>3, ReservingFinite, InputAssumption DEF SeqHasRoom, TypeOK

LEMMA RoomBegun ==
  ASSUME TypeOK, TxTypeOK, SeqHasRoom, NEW t \in Tx, op[t].kind = "idle", seq' = seq,
         \A u \in Tx \ {t} : op'[u] = op[u],
         op'[t].kind = "reserve" => seq + Cardinality(Reserving) < MaxReservations
  PROVE  SeqHasRoom'
<1>1. t \notin Reserving
  BY DEF Reserving
<1>2. Reserving' = IF op'[t].kind = "reserve" THEN Reserving \cup {t} ELSE Reserving
  BY DEF Reserving
<1>3. Cardinality(Reserving \cup {t}) = Cardinality(Reserving) + 1
  BY <1>1, ReservingFinite, FS_AddElement
<1> QED BY <1>2, <1>3, ReservingFinite, InputAssumption DEF SeqHasRoom, TypeOK

LEMMA RoomStep == TypeOK /\ TxTypeOK /\ SeqHasRoom /\ [TxNext]_allTxVars => SeqHasRoom'
<1> SUFFICES ASSUME TypeOK, TxTypeOK, SeqHasRoom, [TxNext]_allTxVars PROVE SeqHasRoom'
  OBVIOUS
<1>1. ASSUME NEW t \in Tx, NEW want \in Requests, BeginReserve(t, want) PROVE SeqHasRoom'
  BY <1>1, ReserveBegun, RoomBegun DEF BeginReserve, BeginTx, vars
<1>2. ASSUME NEW t \in Tx, NEW r \in ResId, NEW to \in Closed, BeginFinalize(t, r, to)
      PROVE  SeqHasRoom'
  BY <1>2, FinalizeBegun, RoomBegun DEF BeginFinalize, BeginTx, vars, Closed
<1>3. ASSUME NEW t \in Tx, NEW p \in Product, BeginDelete(t, p) PROVE SeqHasRoom'
  BY <1>3, DeleteBegun, RoomBegun DEF BeginDelete, BeginTx, vars
<1>4. ASSUME UNCHANGED <<seq, op>> PROVE SeqHasRoom'
  <2>1. Reserving' = Reserving
    BY <1>4 DEF Reserving
  <2> QED BY <1>4, <2>1, Zenon DEF SeqHasRoom
<1>5. ASSUME NEW t \in Tx, TxStep(t) \/ Rollback(t) PROVE SeqHasRoom'
  <2>1. ASSUME EndTx(t), seq' = seq PROVE SeqHasRoom'
    BY <2>1, RoomEnded
  <2>2. ASSUME CommitReserve(t) PROVE SeqHasRoom'
    BY <2>2, RoomEnded DEF CommitReserve
  <2> QED
    BY <1>5, <1>4, <2>1, <2>2
       DEF TxStep, LockRow, RejectRow, SkipRow, LockProduct, CommitFinalize, CommitDelete,
           DeleteProduct, AbortDeadlocked, Rollback, vars
<1> QED
  BY <1>1, <1>2, <1>3, <1>4, <1>5
     DEF TxNext, SetRow, AdjustRow, NewVariant, DropVariant, CheckProduct, SetQuantity,
         AdjustQuantity, CreateVariant, DeleteVariant, allTxVars, txVars, vars

----------------------------------------------------------------------------
(* Every step is one transaction of Inventory, or changes none of its state. *)

(* A transaction with all its rows reserves what is still available. *)
LEMMA ReserveCommits ==
  ASSUME TxInv, NEW t \in Tx, CommitReserve(t)
  PROVE  op[t].want \in Requests /\ CreateReservation(op[t].want)
<1> DEFINE want == op[t].want
<1>1. want \in Requests /\ want \in [Sku -> 0..MaxInt] /\ held[t] = Wanted(want)
  BY InputAssumption DEF TxInv, TxShape, OpShape, SkuOrder, CommitReserve, Locked, RowsDone
<1>2. \A s \in held[t] : s \in rows /\ Available(s) >= want[s] /\ seen[t][s].reserved = reserved[s]
  BY DEF TxInv, ReadsCurrent, RowRead, CommitReserve, Available
<1>3. seq < MaxReservations
  <2>1. t \in Reserving
    BY DEF Reserving, CommitReserve
  <2>2. Cardinality(Reserving) # 0
    <3>1. Cardinality(Reserving) = 0 <=> Reserving = {}
      BY ReservingFinite, FS_EmptySet, Zenon
    <3> QED BY <2>1, <3>1
  <2>3. seq \in Nat /\ seq + Cardinality(Reserving) <= MaxReservations
    BY DEF TxInv, SeqHasRoom, TypeOK
  <2> QED BY <2>2, <2>3, ReservingFinite, InputAssumption
<1>4. reserved' = [s \in Sku |-> reserved[s] + want[s]]
  <2>1. \A s \in Sku \ held[t] : reserved[s] = reserved[s] + want[s]
    BY <1>1 DEF Wanted, TxInv, TypeOK
  <2> QED BY <1>2, <2>1 DEF CommitReserve
<1> QED BY <1>1, <1>2, <1>3, <1>4 DEF CommitReserve, CreateReservation

(* One that closes finds the reservation open, and its units held. *)
LEMMA FinalizeCommits ==
  ASSUME TxInv, NEW t \in Tx, CommitFinalize(t)
  PROVE  op[t].res \in ResId /\ FinalizeReservation(op[t].res, op[t].kind)
<1> DEFINE r       == op[t].res
           want    == lines[r]
           shipped == IF op[t].kind = "committed" THEN want ELSE NoUnits
<1>1. r \in ResId /\ status[r] = "active" /\ op[t].want = want /\ op[t].kind \in Closed
  BY DEF TxInv, ClosesOnce, ClosesOpen, CommitFinalize
<1>2. want \in [Sku -> 0..MaxInt] /\ shipped \in [Sku -> 0..MaxInt]
  BY <1>1, NoUnitsTyped DEF TxInv, TypeOK
<1>3. held[t] = Wanted(want)
  BY <1>1 DEF TxInv, TxShape, SkuOrder, CommitFinalize, Locked, RowsDone
<1>4. \A s \in held[t] : /\ s \in rows /\ s \in Sku
                         /\ seen[t][s].reserved = reserved[s] /\ reserved[s] >= want[s]
                         /\ seen[t][s].quantity = quantity[s]
                         /\ op[t].kind = "committed" => quantity[s] >= want[s]
  BY <1>1 DEF TxInv, ReadsCurrent, RowRead, TxTypeOK
<1>5. \A s \in held[t] : quantity[s] >= shipped[s]
  BY <1>4 DEF NoUnits, TxInv, TypeOK
<1>6. \A s \in Sku \ held[t] : want[s] = 0 /\ shipped[s] = 0
  BY <1>2, <1>3 DEF Wanted, NoUnits
<1>7. reserved' = [s \in Sku |-> reserved[s] - want[s]]
  BY <1>1, <1>4, <1>6 DEF CommitFinalize, TxInv, TypeOK
<1>8. quantity' = [s \in Sku |-> quantity[s] - shipped[s]]
  BY <1>1, <1>4, <1>6 DEF CommitFinalize, TxInv, TypeOK
<1>9. soldCount' = [p \in Product |-> soldCount[p] + UnitCount(shipped, p)]
  BY <1>1 DEF CommitFinalize
<1> QED
  BY <1>1, <1>3, <1>4, <1>5, <1>7, <1>8, <1>9 DEF CommitFinalize, FinalizeReservation, NoUnits

LEMMA StepIsAtomic == TxInv /\ [TxNext]_allTxVars => [Next]_vars
<1> SUFFICES ASSUME TxInv, [TxNext]_allTxVars PROVE [Next]_vars
  OBVIOUS
<1>1. ASSUME NEW t \in Tx, CommitReserve(t) PROVE Next
  BY <1>1, ReserveCommits DEF Next
<1>2. ASSUME NEW t \in Tx, CommitFinalize(t) PROVE Next
  BY <1>2, FinalizeCommits DEF Next, CommitFinalize
<1>3. ASSUME NEW t \in Tx, CommitDelete(t) PROVE [Next]_vars
  <2>1. booked[t] \subseteq Product
    BY DEF TxInv, TxTypeOK
  <2> QED BY <1>3, <2>1 DEF CommitDelete, Next
<1>4. ASSUME NEW t \in Tx, TxStep(t) \/ Rollback(t) PROVE [Next]_vars
  BY <1>1, <1>2, <1>3, <1>4
     DEF TxStep, LockRow, RejectRow, SkipRow, LockProduct, AbortDeadlocked, Rollback
<1>5. ASSUME NEW s \in Sku, \/ \E q \in Quantities : SetRow(s, q)
                            \/ \E d \in Deltas : AdjustRow(s, d)
                            \/ NewVariant(s) \/ DropVariant(s)
      PROVE  Next
  BY <1>5 DEF SetRow, AdjustRow, NewVariant, DropVariant, Next
<1> QED
  BY <1>4, <1>5
     DEF TxNext, BeginReserve, BeginFinalize, BeginDelete, BeginTx, CheckProduct, allTxVars, vars

LEMMA TxInvInit == TxInit => TxInv
BY TypeInit, TxTypeInit, ShapeInit, ExcludeInit, ReadsInit, ClosesInit, RoomInit DEF TxInit, TxInv

LEMMA TxInvStep == TxInv /\ [TxNext]_allTxVars => TxInv'
BY StepIsAtomic, TypeStep, TxTypeStep, ShapeStep, ExcludeStep, ReadsStep, ClosesStep, RoomStep
   DEF TxInv

LEMMA TxInvHolds == TxSpec => []TxInv
BY TxInvInit, TxInvStep, PTL DEF TxSpec

(* TxSpec refines the store with atomic transactions. *)
LEMMA TxRefinesStore == TxSpec => Spec
<1>1. TxInit => Init
  BY DEF TxInit
<1> QED BY <1>1, StepIsAtomic, TxInvHolds, PTL DEF TxSpec, Spec

(* The named instance is the module itself, operator by operator. *)
LEMMA SameUnitCount == \A want, p : Abs!UnitCount(want, p) = UnitCount(want, p)
<1>1. \A S : Abs!Cardinality(S) = Cardinality(S)
  BY DEF Abs!Cardinality, Cardinality
<1>2. \A want, p : Abs!Units(want, Abs!SkusOf(p)) = Units(want, SkusOf(p))
  BY DEF Abs!Units, Abs!SkusOf, Units, SkusOf
<1> QED BY <1>1, <1>2 DEF Abs!UnitCount, UnitCount

LEMMA SameInit == Init => Abs!Init
BY DEF Init, Abs!Init, ResId, Abs!ResId

LEMMA SameNext == [Next]_vars => [Abs!Next]_(Abs!vars)
<1> SUFFICES ASSUME [Next]_vars PROVE Abs!Next \/ UNCHANGED Abs!vars
  OBVIOUS
<1>1. ASSUME NEW s \in Sku, CreateVariant(s) \/ DeleteVariant(s) PROVE Abs!Next
  BY <1>1 DEF Abs!Next, CreateVariant, Abs!CreateVariant, DeleteVariant, Abs!DeleteVariant,
              DropRows, Abs!DropRows
<1>2. ASSUME NEW s \in Sku, NEW q \in Quantities, SetQuantity(s, q) PROVE Abs!Next
  BY <1>2 DEF Abs!Next, SetQuantity, Abs!SetQuantity
<1>3. ASSUME NEW s \in Sku, NEW d \in Deltas, AdjustQuantity(s, d) PROVE Abs!Next
  BY <1>3 DEF Abs!Next, AdjustQuantity, Abs!AdjustQuantity
<1>4. ASSUME NEW want \in Requests, CreateReservation(want) PROVE Abs!Next
  BY <1>4 DEF Abs!Next, CreateReservation, Abs!CreateReservation, Wanted, Abs!Wanted,
              Available, Abs!Available
<1>5. ASSUME NEW r \in ResId, NEW to \in Closed, FinalizeReservation(r, to) PROVE Abs!Next
  <2>1. Abs!FinalizeReservation(r, to)
    BY <1>5, SameUnitCount DEF FinalizeReservation, Abs!FinalizeReservation, Wanted, Abs!Wanted
  <2> QED BY <2>1 DEF Abs!Next, ResId, Abs!ResId, Closed, Abs!Closed
<1>6. ASSUME NEW p \in Product, DeleteProduct(p) PROVE Abs!Next
  BY <1>6 DEF Abs!Next, DeleteProduct, Abs!DeleteProduct, DropRows, Abs!DropRows,
              SkusOf, Abs!SkusOf
<1> QED BY <1>1, <1>2, <1>3, <1>4, <1>5, <1>6 DEF Next, vars, Abs!vars

(* The interleaved, row-locking transactions of inventory_store.go are      *)
(* serialisable: each does what one atomic transaction would, for every     *)
(* number of transactions, skus and products.                               *)
THEOREM TxImplementsInventory == TxSpec => ImplementsInventory
BY TxRefinesStore, SameInit, SameNext, PTL DEF Spec, Abs!Spec, ImplementsInventory

(* However transactions interleave, roll back or deadlock, the counters of *)
(* a stock row agree with its open reservations, no row is oversold and    *)
(* sold_count is what was shipped.                                         *)
THEOREM TxStockSafe == TxSpec => []StockSafe
BY TxRefinesStore, StockIsSafe, PTL

(* What the transactions carry keeps its types, for any size of the pool. *)
THEOREM TxTypeCorrect == TxSpec => [](TypeOK /\ TxTypeOK)
<1>1. TxInv => TypeOK /\ TxTypeOK
  BY DEF TxInv
<1> QED BY <1>1, TxInvHolds, PTL

----------------------------------------------------------------------------
(* Who can wait in a circle. *)

(* Every set of numbers has a least one. *)
LEMMA NatMin == ASSUME NEW T \in SUBSET Nat, T # {} PROVE \E x \in T : \A y \in T : x <= y
<1>1. PICK x \in T : \A y \in T : <<y, x>> \notin OpToRel(<, Nat)
  BY NatLessThanWellFounded, WFMin, Zenon
<1>2. \A y \in T : ~ (y < x)
  BY <1>1, Zenon DEF OpToRel
<1> QED BY <1>2

(* A finite set of numbers in which each has a greater one is empty. *)
LEMMA NoAscent ==
  ASSUME NEW F \in SUBSET Nat, IsFiniteSet(F), NEW M \in SUBSET F,
         \A m \in M : \E n \in M : m < n
  PROVE  M = {}
<1> DEFINE above(m) == {x \in F : m < x}
           sizes    == {Cardinality(above(m)) : m \in M}
<1> SUFFICES ASSUME M # {} PROVE FALSE
  OBVIOUS
<1>1. \A m \in M : IsFiniteSet(above(m)) /\ Cardinality(above(m)) \in Nat
  BY FS_Subset, FS_CardinalityType
<1>2. sizes \in SUBSET Nat /\ sizes # {}
  BY <1>1
<1>3. PICK k \in sizes : \A j \in sizes : k <= j
  <2> HIDE DEF sizes
  <2> QED BY <1>2, NatMin
<1>4. PICK m \in M : k = Cardinality(above(m))
  OBVIOUS
<1>5. PICK n \in M : m < n
  OBVIOUS
<1>6. /\ above(n) \subseteq above(m) /\ n \in above(m) /\ n \notin above(n)
  <2>1. m \in F /\ n \in F /\ \A x \in F : x \in Nat
    OBVIOUS
  <2>2. m < n /\ ~ (n < n) /\ \A x \in F : n < x => m < x
    BY <1>5, <2>1
  <2> QED BY <2>1, <2>2
<1>7. Cardinality(above(n)) <= Cardinality(above(m)) /\ Cardinality(above(n)) # Cardinality(above(m))
  <2> HIDE DEF above
  <2> QED BY <1>1, <1>6, FS_Subset
<1>8. k <= Cardinality(above(n))
  BY <1>3
<1> QED
  <2> HIDE DEF above
  <2> QED BY <1>1, <1>4, <1>7, <1>8

(* One that waits for a row and locks in sku order waits for a greater row *)
(* than any it holds.                                                      *)
LEMMA WaitsUpward ==
  ASSUME TxInv, NEW S \in SUBSET Tx, Stuck(S), NEW t \in S,
         op[t].kind # "delete", ~ (op[t].kind = "committed" /\ RowsDone(t))
  PROVE  \E s \in todo[t], u \in S :
           (\A q \in todo[t] : s <= q) /\ (\A q \in held[t] : q < s) /\ s \in held[u]
<1>1. WaitsIn(t, S) /\ OpShape(t) /\ SkuOrder(t) /\ todo[t] \in SUBSET Nat
  BY SkuAssumption DEF Stuck, TxInv, TxShape, TxTypeOK
<1>2. RowsDone(t) => UnbookedOf(t) = {}
  BY <1>1 DEF OpShape, UnbookedOf, Touches
<1>3. todo[t] # {} /\ \A s \in NextRows(t) : \E u \in S \ {t} : s \in held[u]
  BY <1>1, <1>2 DEF WaitsIn
<1>4. op[t].kind \in {"reserve"} \cup Closed
  BY <1>1, <1>3 DEF OpShape, TxInv, TxTypeOK
<1>5. PICK s \in todo[t] : \A q \in todo[t] : s <= q
  BY <1>1, <1>3, NatMin
<1>6. s \in NextRows(t)
  BY <1>5 DEF NextRows
<1>7. \A q \in held[t] : q < s
  BY <1>1, <1>4 DEF SkuOrder
<1> QED BY <1>3, <1>5, <1>6, <1>7

LEMMA CyclesNeedProducts == TxInv => NoLockCycle
<1> SUFFICES ASSUME TxInv, NEW S \in SUBSET Tx, Stuck(S),
                    \A t \in S : op[t].kind # "delete" /\ ~ (op[t].kind = "committed" /\ RowsDone(t))
             PROVE  FALSE
  BY DEF NoLockCycle
<1> DEFINE asked == {s \in Sku : \E t \in S : s \in todo[t] /\ \A q \in todo[t] : s <= q}
<1>1. ASSUME NEW t \in S
      PROVE  \E s \in asked, u \in S :
               (\A q \in held[t] : q < s) /\ s \in held[u]
  BY <1>1, WaitsUpward DEF TxInv, TxTypeOK
<1>2. ASSUME NEW m \in asked PROVE \E n \in asked : m < n
  <2>1. PICK t \in S : m \in todo[t] /\ \A q \in todo[t] : m <= q
    OBVIOUS
  <2>2. PICK s \in todo[t], u \in S : (\A q \in todo[t] : s <= q) /\ s \in held[u]
    BY WaitsUpward
  <2>3. s = m
    BY <2>1, <2>2, SkuAssumption DEF TxInv, TxTypeOK
  <2>4. PICK n \in asked : \A q \in held[u] : q < n
    BY <1>1
  <2> QED BY <2>2, <2>3, <2>4
<1>3. asked = {}
  <2> HIDE DEF asked
  <2>1. asked \in SUBSET Sku
    BY DEF asked
  <2> QED BY <1>2, <2>1, SkuAssumption, NoAscent
<1> QED BY <1>1, <1>3 DEF Stuck

(* Requests that reserve or close never deadlock among themselves on stock *)
(* rows, however many run at once: a circle of waiting transactions        *)
(* contains a product's delete or a commit that writes sold_count (the     *)
(* ORDER BY of CreateReservation and finalizeReservation).                 *)
THEOREM RowsNeverDeadlock == TxSpec => []NoLockCycle
BY CyclesNeedProducts, TxInvHolds, PTL

(**************************************************************************)
(* Catalog: no row refers to one that is gone, names are unique, deleting *)
(* a variant loses no goods, and the catalog uses the stock as Inventory  *)
(* allows.                                                                *)
(**************************************************************************)
----------------------------------------------------------------------------
(* The inductive invariant.                                                 *)

Dictionary ==
  [brand : SUBSET Brand, style : SUBSET Style, base : SUBSET BaseColor,
   color : SUBSET Color, size : SUBSET Size, edition : SUBSET Edition]

\* What a request under way carries that its next step writes.
Carries(r) ==
  /\ r.at \in {"saveProduct", "deleteProduct", "lookForDraft"} => r.product \in Product
  /\ r.at \in {"saveVariant", "deleteVariant"} => r.product \in Product
  /\ r.at = "saveProduct" => r.row \in ProductRow
  /\ r.at = "insertProduct" => r.row \in ProductRow

CatalogTyped ==
  /\ dict \in Dictionary
  /\ baseOf = [c \in Color |-> baseOf[c]]
  /\ product \in [Product -> {NoProduct} \cup ProductRow]
  /\ variant = [s \in Sku |-> variant[s]]
  /\ req = [h \in Staff |-> req[h]]
  /\ \A h \in Staff : Carries(req[h])

CatalogInv == TypeOK /\ CatalogTyped /\ CatalogConsistent

----------------------------------------------------------------------------
(* Requests, rows and names.                                                *)

LEMMA RowShape == \A row \in ProductRow : row.status # "none" /\ row # NoProduct
BY DEF ProductRow, NoProduct

LEMMA ReqGoes ==
  ASSUME CatalogTyped, NEW h \in Staff, NEW n, Go(h, n), Carries(n)
  PROVE  req' = [g \in Staff |-> req'[g]] /\ \A g \in Staff : Carries(req'[g])
BY DEF CatalogTyped, Go

LEMMA IdleCarries == Carries(Idle)
BY DEF Carries, Idle

\* A step that leaves the tables alone and moves one request.
LEMMA OnlyMoves ==
  ASSUME CatalogInv, NEW h \in Staff, NEW n, Go(h, n), Carries(n),
         UNCHANGED <<vars, dict, baseOf, product, variant>>
  PROVE  CatalogTyped' /\ CatalogConsistent'
<1>1. req' = [g \in Staff |-> req'[g]] /\ \A g \in Staff : Carries(req'[g])
  BY ReqGoes DEF CatalogInv
<1>2. UNCHANGED <<rows, dict, baseOf, product, variant>>
  BY DEF vars
<1>3. CatalogTyped'
  BY <1>1, <1>2 DEF CatalogInv, CatalogTyped, Carries
<1>4. CatalogConsistent'
  BY <1>2 DEF CatalogInv, CatalogConsistent, ReferencesResolve, NamesAreUnique, Exists, KnownCodes,
              KnownColor2, NameOf, SkuString
<1> QED BY <1>3, <1>4

LEMMA Leaves ==
  ASSUME CatalogInv, NEW h \in Staff, Leave(h)
  PROVE  CatalogTyped' /\ CatalogConsistent'
BY OnlyMoves, IdleCarries DEF Leave, Done

\* A variant keeps its name and its references as long as its row does.
LEMMA RowsKeep ==
  ASSUME CatalogConsistent, NEW s \in rows, variant'[s] = variant[s], UNCHANGED <<dict, product>>
  PROVE  NameOf(s)' = NameOf(s) /\ Exists(ProductOf[s])' /\ KnownCodes(variant[s])'
BY DEF CatalogConsistent, ReferencesResolve, Exists, KnownCodes, KnownColor2, NameOf, SkuString

----------------------------------------------------------------------------
(* Dictionaries.                                                            *)

LEMMA EditKeeps ==
  ASSUME CatalogInv, NEW table \in {"brand", "style", "base", "color", "size", "edition"},
         NEW codes, Edit(table, codes), dict' \in Dictionary,
         baseOf' = [c \in Color |-> baseOf'[c]], ReferencesResolve'
  PROVE  CatalogTyped' /\ CatalogConsistent'
<1>1. UNCHANGED <<rows, product, variant, req>>
  BY DEF Edit, vars
<1>2. CatalogTyped'
  BY <1>1 DEF CatalogInv, CatalogTyped, Carries
<1>3. NamesAreUnique'
  BY <1>1 DEF CatalogInv, CatalogConsistent, NamesAreUnique, Exists, NameOf, SkuString
<1> QED BY <1>2, <1>3 DEF CatalogConsistent

LEMMA AddKeeps ==
  ASSUME CatalogInv, NEW table \in {"brand", "style", "base", "color", "size", "edition"},
         NEW code, Add(table, code), dict' \in Dictionary, baseOf' = [c \in Color |-> baseOf'[c]],
         table = "style" => BrandOf[code] \in dict.brand,
         \A c \in dict'.color : baseOf'[c] \in dict.base \cup {NoCode}
  PROVE  CatalogTyped' /\ CatalogConsistent'
<1>1. UNCHANGED <<rows, product, variant>> /\ dict' = [dict EXCEPT ![table] = dict[table] \cup {code}]
      /\ Edit(table, dict[table] \cup {code})
  BY DEF Add, Edit, vars
<1>2. /\ dict.brand \subseteq dict'.brand /\ dict.base \subseteq dict'.base /\ dict.color \subseteq dict'.color
      /\ dict.size \subseteq dict'.size /\ dict.edition \subseteq dict'.edition /\ dict.style \subseteq dict'.style
      /\ \A st \in dict'.style : st \in dict.style \/ (table = "style" /\ st = code)
  BY <1>1 DEF CatalogInv, CatalogTyped, Dictionary
<1>3. ReferencesResolve'
  BY <1>1, <1>2 DEF CatalogInv, CatalogConsistent, ReferencesResolve, Exists, KnownCodes, KnownColor2
<1> QED BY <1>1, <1>3, EditKeeps

LEMMA DropKeeps ==
  ASSUME CatalogInv, NEW table \in {"brand", "style", "base", "color", "size", "edition"},
         NEW code, Drop(table, code), baseOf' = [c \in Color |-> baseOf'[c]],
         ReferencesResolve'
  PROVE  CatalogTyped' /\ CatalogConsistent'
<1>1. Edit(table, dict[table] \ {code}) /\ dict' = [dict EXCEPT ![table] = dict[table] \ {code}]
  BY DEF Drop, Edit
<1>2. dict' \in Dictionary
  BY <1>1 DEF CatalogInv, CatalogTyped, Dictionary
<1> QED BY <1>1, <1>2, EditKeeps

LEMMA DictionariesKeep ==
  ASSUME CatalogInv, Dictionaries
  PROVE  CatalogTyped' /\ CatalogConsistent'
<1> USE DEF CatalogInv
<1>1. /\ dict \in Dictionary /\ ReferencesResolve /\ baseOf = [c \in Color |-> baseOf[c]]
      /\ \A c \in dict.color : c \in Color /\ baseOf[c] \in dict.base \cup {NoCode}
  BY DEF CatalogTyped, CatalogConsistent, ReferencesResolve, Dictionary
<1>2. ASSUME NEW b \in Brand, CreateBrand(b) PROVE CatalogTyped' /\ CatalogConsistent'
  <2>1. dict' \in Dictionary /\ dict'.color = dict.color /\ UNCHANGED baseOf /\ Add("brand", b)
    BY <1>1, <1>2 DEF CreateBrand, Add, Edit, Dictionary
  <2> QED BY <1>1, <2>1, AddKeeps
<1>3. ASSUME NEW st \in Style, CreateStyle(st) PROVE CatalogTyped' /\ CatalogConsistent'
  <2>1. dict' \in Dictionary /\ dict'.color = dict.color /\ UNCHANGED baseOf /\ Add("style", st)
        /\ BrandOf[st] \in dict.brand
    BY <1>1, <1>3 DEF CreateStyle, Add, Edit, Dictionary
  <2> QED BY <1>1, <2>1, AddKeeps
<1>4. ASSUME NEW b \in BaseColor, CreateBaseColor(b) PROVE CatalogTyped' /\ CatalogConsistent'
  <2>1. dict' \in Dictionary /\ dict'.color = dict.color /\ UNCHANGED baseOf /\ Add("base", b)
    BY <1>1, <1>4 DEF CreateBaseColor, Add, Edit, Dictionary
  <2> QED BY <1>1, <2>1, AddKeeps
<1>5. ASSUME NEW c \in Color, NEW b \in BaseColor \cup {NoCode}, CreateColor(c, b)
      PROVE  CatalogTyped' /\ CatalogConsistent'
  <2>1. /\ dict' \in Dictionary /\ dict'.color = dict.color \cup {c} /\ Add("color", c)
        /\ baseOf' = [baseOf EXCEPT ![c] = b] /\ b \in dict.base \cup {NoCode}
    BY <1>1, <1>5 DEF CreateColor, Add, Edit, Dictionary
  <2>2. baseOf' = [d \in Color |-> baseOf'[d]] /\ baseOf'[c] = b /\ \A d \in Color \ {c} : baseOf'[d] = baseOf[d]
    BY <1>1, <2>1
  <2>3. \A d \in dict'.color : baseOf'[d] \in dict.base \cup {NoCode}
    BY <1>1, <2>1, <2>2
  <2> QED BY <1>1, <2>1, <2>2, <2>3, AddKeeps
<1>6. ASSUME NEW z \in Size, CreateSize(z) PROVE CatalogTyped' /\ CatalogConsistent'
  <2>1. dict' \in Dictionary /\ dict'.color = dict.color /\ UNCHANGED baseOf /\ Add("size", z)
    BY <1>1, <1>6 DEF CreateSize, Add, Edit, Dictionary
  <2> QED BY <1>1, <2>1, AddKeeps
<1>7. ASSUME NEW e \in Edition, CreateEdition(e) PROVE CatalogTyped' /\ CatalogConsistent'
  <2>1. dict' \in Dictionary /\ dict'.color = dict.color /\ UNCHANGED baseOf /\ Add("edition", e)
    BY <1>1, <1>7 DEF CreateEdition, Add, Edit, Dictionary
  <2> QED BY <1>1, <2>1, AddKeeps
<1>8. ASSUME NEW b \in Brand, DeleteBrand(b) PROVE CatalogTyped' /\ CatalogConsistent'
  <2>1. /\ dict' = [dict EXCEPT !["brand"] = dict["brand"] \ {b}] /\ UNCHANGED <<baseOf, rows, product, variant>>
        /\ \A st \in dict.style : BrandOf[st] # b
    BY <1>8 DEF DeleteBrand, Drop, Edit, vars
  <2>2. /\ dict'.brand = dict.brand \ {b} /\ dict'.style = dict.style /\ dict'.base = dict.base
        /\ dict'.color = dict.color /\ dict'.size = dict.size /\ dict'.edition = dict.edition
    BY <1>1, <2>1 DEF Dictionary
  <2>3. ReferencesResolve'
    BY <1>1, <2>1, <2>2 DEF ReferencesResolve, Exists, KnownCodes, KnownColor2
  <2> QED BY <1>1, <1>8, <2>1, <2>3, DropKeeps DEF DeleteBrand
<1>9. ASSUME NEW st \in Style, DeleteStyle(st) PROVE CatalogTyped' /\ CatalogConsistent'
  <2>1. /\ dict' = [dict EXCEPT !["style"] = dict["style"] \ {st}] /\ UNCHANGED <<baseOf, rows, product, variant>>
        /\ \A p \in Product : Exists(p) => StyleOf[p] # st
    BY <1>9 DEF DeleteStyle, Drop, Edit, vars
  <2>2. /\ dict'.brand = dict.brand /\ dict'.style = dict.style \ {st} /\ dict'.base = dict.base
        /\ dict'.color = dict.color /\ dict'.size = dict.size /\ dict'.edition = dict.edition
    BY <1>1, <2>1 DEF Dictionary
  <2>3. ReferencesResolve'
    BY <1>1, <2>1, <2>2 DEF ReferencesResolve, Exists, KnownCodes, KnownColor2
  <2> QED BY <1>1, <1>9, <2>1, <2>3, DropKeeps DEF DeleteStyle
<1>10. ASSUME NEW b \in BaseColor, DeleteBaseColor(b) PROVE CatalogTyped' /\ CatalogConsistent'
  <2>1. /\ dict' = [dict EXCEPT !["base"] = dict["base"] \ {b}] /\ UNCHANGED <<baseOf, rows, product, variant>>
        /\ \A c \in dict.color : baseOf[c] # b
    BY <1>10 DEF DeleteBaseColor, Drop, Edit, vars
  <2>2. /\ dict'.brand = dict.brand /\ dict'.style = dict.style /\ dict'.base = dict.base \ {b}
        /\ dict'.color = dict.color /\ dict'.size = dict.size /\ dict'.edition = dict.edition
    BY <1>1, <2>1 DEF Dictionary
  <2>3. ReferencesResolve'
    BY <1>1, <2>1, <2>2 DEF ReferencesResolve, Exists, KnownCodes, KnownColor2
  <2> QED BY <1>1, <1>10, <2>1, <2>3, DropKeeps DEF DeleteBaseColor
<1>11. ASSUME NEW c \in Color, DeleteColor(c) PROVE CatalogTyped' /\ CatalogConsistent'
  <2>1. /\ dict' = [dict EXCEPT !["color"] = dict["color"] \ {c}] /\ UNCHANGED <<rows, product, variant>>
        /\ baseOf' = [baseOf EXCEPT ![c] = NoCode]
        /\ \A s \in rows : c \notin {variant[s].color, variant[s].color2}
    BY <1>11 DEF DeleteColor, Drop, Edit, vars
  <2>2. /\ dict'.brand = dict.brand /\ dict'.style = dict.style /\ dict'.base = dict.base
        /\ dict'.color = dict.color \ {c} /\ dict'.size = dict.size /\ dict'.edition = dict.edition
    BY <1>1, <2>1 DEF Dictionary
  <2>3. baseOf' = [d \in Color |-> baseOf'[d]] /\ \A d \in Color \ {c} : baseOf'[d] = baseOf[d]
    BY <1>1, <2>1
  <2>4. ReferencesResolve'
    BY <1>1, <2>1, <2>2, <2>3 DEF ReferencesResolve, Exists, KnownCodes, KnownColor2
  <2> QED BY <1>11, <2>3, <2>4, DropKeeps DEF DeleteColor
<1>12. ASSUME NEW z \in Size, DeleteSize(z) PROVE CatalogTyped' /\ CatalogConsistent'
  <2>1. /\ dict' = [dict EXCEPT !["size"] = dict["size"] \ {z}] /\ UNCHANGED <<baseOf, rows, product, variant>>
        /\ \A s \in rows : variant[s].size # z
    BY <1>12 DEF DeleteSize, Drop, Edit, vars
  <2>2. /\ dict'.brand = dict.brand /\ dict'.style = dict.style /\ dict'.base = dict.base
        /\ dict'.color = dict.color /\ dict'.size = dict.size \ {z} /\ dict'.edition = dict.edition
    BY <1>1, <2>1 DEF Dictionary
  <2>3. ReferencesResolve'
    BY <1>1, <2>1, <2>2 DEF ReferencesResolve, Exists, KnownCodes, KnownColor2
  <2> QED BY <1>1, <1>12, <2>1, <2>3, DropKeeps DEF DeleteSize
<1>13. ASSUME NEW e \in Edition, DeleteEdition(e) PROVE CatalogTyped' /\ CatalogConsistent'
  <2>1. /\ dict' = [dict EXCEPT !["edition"] = dict["edition"] \ {e}] /\ UNCHANGED <<baseOf, rows, product, variant>>
        /\ \A s \in rows : variant[s].edition # e
    BY <1>13 DEF DeleteEdition, Drop, Edit, vars
  <2>2. /\ dict'.brand = dict.brand /\ dict'.style = dict.style /\ dict'.base = dict.base
        /\ dict'.color = dict.color /\ dict'.size = dict.size /\ dict'.edition = dict.edition \ {e}
    BY <1>1, <2>1 DEF Dictionary
  <2>3. ReferencesResolve'
    BY <1>1, <2>1, <2>2 DEF ReferencesResolve, Exists, KnownCodes, KnownColor2
  <2> QED BY <1>1, <1>13, <2>1, <2>3, DropKeeps DEF DeleteEdition
<1> QED BY <1>2, <1>3, <1>4, <1>5, <1>6, <1>7, <1>8, <1>9, <1>10, <1>11, <1>12, <1>13 DEF Dictionaries

----------------------------------------------------------------------------
(* Requests begin with reads.                                               *)

LEMMA BeginsKeep ==
  ASSUME CatalogInv, NEW h \in Staff, NEW n, Begin(h, n), Carries(n)
  PROVE  CatalogTyped' /\ CatalogConsistent'
BY OnlyMoves DEF Begin

LEMMA RequestsKeep ==
  ASSUME CatalogInv, NEW h \in Staff, Request(h)
  PROVE  CatalogTyped' /\ CatalogConsistent'
<1>0. rows \subseteq Sku /\ ProductOf \in [Sku -> Product]
  BY ProductAssumption DEF CatalogInv, TypeOK
<1>1. ASSUME NEW c \in Color, NEW b \in BaseColor \cup {NoCode}, BeginUpdateColor(h, c, b)
      PROVE  CatalogTyped' /\ CatalogConsistent'
  <2>1. PICK n : n = [at |-> "saveColor", color |-> c, base |-> b] /\ Begin(h, n)
    BY <1>1 DEF BeginUpdateColor
  <2>2. Carries(n)
    BY <2>1 DEF Carries
  <2> QED BY <2>1, <2>2, BeginsKeep
<1>2. ASSUME NEW st \in Style, NEW w \in NewProducts, BeginCreateProduct(h, st, w.row, w.bodies)
      PROVE  CatalogTyped' /\ CatalogConsistent'
  <2>1. PICK n : n = [at |-> "insertProduct", style |-> st, row |-> w.row, todo |-> w.bodies] /\ Begin(h, n)
    BY <1>2 DEF BeginCreateProduct
  <2>2. Carries(n)
    BY <2>1, CatalogAssumption DEF Carries
  <2> QED BY <2>1, <2>2, BeginsKeep
<1>3. ASSUME NEW p \in Product, NEW patch \in ProductPatches, BeginUpdateProduct(h, p, patch)
      PROVE  CatalogTyped' /\ CatalogConsistent'
  <2>1. PICK row : row = [f \in DOMAIN product[p] |-> IF f \in DOMAIN patch THEN patch[f] ELSE product[p][f]]
    OBVIOUS
  <2>2. PICK n : n = [at |-> "saveProduct", product |-> p, row |-> row, asked |-> "status" \in DOMAIN patch]
                 /\ Begin(h, n)
    BY <1>3, <2>1 DEF BeginUpdateProduct
  <2>3. product[p] \in ProductRow
    BY <1>3 DEF BeginUpdateProduct, CatalogInv, CatalogTyped, Exists, NoProduct
  <2>4. row \in ProductRow
    BY <2>1, <2>3, CatalogAssumption DEF ProductRow
  <2>5. Carries(n)
    BY <2>2, <2>4 DEF Carries
  <2> QED BY <2>2, <2>5, BeginsKeep
<1>4. ASSUME NEW p \in Product, BeginDeleteProduct(h, p) PROVE CatalogTyped' /\ CatalogConsistent'
  <2>1. PICK n : n = [at |-> "deleteProduct", product |-> p] /\ Begin(h, n)
    BY <1>4 DEF BeginDeleteProduct
  <2>2. Carries(n)
    BY <2>1 DEF Carries
  <2> QED BY <2>1, <2>2, BeginsKeep
<1>5. ASSUME NEW p \in Product, NEW v \in Bodies, BeginCreateVariant(h, p, v)
      PROVE  CatalogTyped' /\ CatalogConsistent'
  <2>1. PICK n : n = [at |-> "insertVariant", product |-> p, todo |-> <<v>>] /\ Begin(h, n)
    BY <1>5 DEF BeginCreateVariant
  <2>2. Carries(n)
    BY <2>1 DEF Carries
  <2> QED BY <2>1, <2>2, BeginsKeep
<1>6. ASSUME NEW s \in Sku, NEW patch, BeginUpdateVariant(h, s, patch)
      PROVE  CatalogTyped' /\ CatalogConsistent'
  <2>1. PICK row, left : Begin(h, [at |-> "saveVariant", product |-> ProductOf[s], row |-> row, left |-> left])
    BY <1>6 DEF BeginUpdateVariant
  <2>2. PICK n : n = [at |-> "saveVariant", product |-> ProductOf[s], row |-> row, left |-> left] /\ Begin(h, n)
    BY <2>1
  <2>3. Carries(n)
    BY <1>0, <2>2 DEF Carries
  <2> QED BY <2>2, <2>3, BeginsKeep
<1>7. ASSUME NEW s \in Sku, BeginDeleteVariant(h, s) PROVE CatalogTyped' /\ CatalogConsistent'
  <2>1. PICK n : n = [at |-> "deleteVariant", product |-> ProductOf[s], name |-> NameOf(s),
                      left |-> Active(variant[s])] /\ Begin(h, n)
    BY <1>7 DEF BeginDeleteVariant
  <2>2. Carries(n)
    BY <1>0, <2>1 DEF Carries
  <2> QED BY <2>1, <2>2, BeginsKeep
<1>8. ASSUME NEW s \in Sku, BeginUpload(h, s) PROVE CatalogTyped' /\ CatalogConsistent'
  <2>1. PICK row : Begin(h, [at |-> "saveVariant", product |-> ProductOf[s], left |-> FALSE, row |-> row])
    BY <1>8 DEF BeginUpload
  <2>2. PICK n : n = [at |-> "saveVariant", product |-> ProductOf[s], left |-> FALSE, row |-> row] /\ Begin(h, n)
    BY <2>1
  <2>3. Carries(n)
    BY <1>0, <2>2 DEF Carries
  <2> QED BY <2>2, <2>3, BeginsKeep
<1> QED BY <1>1, <1>2, <1>3, <1>4, <1>5, <1>6, <1>7, <1>8 DEF Request

----------------------------------------------------------------------------
(* Requests write: what was read before may be gone by then.                *)

\* A write that leaves the dictionaries alone.
LEMMA WritesKeep ==
  ASSUME CatalogInv, NEW h \in Staff, NEW n, Go(h, n), Carries(n), UNCHANGED <<dict, baseOf>>,
         product' \in [Product -> {NoProduct} \cup ProductRow],
         variant' = [s \in Sku |-> variant'[s]],
         \A p \in Product : Exists(p)' => StyleOf[p] \in dict.style,
         \A s \in rows' : Exists(ProductOf[s])' /\ KnownCodes(variant[s])',
         NamesAreUnique'
  PROVE  CatalogTyped' /\ CatalogConsistent'
<1>1. req' = [g \in Staff |-> req'[g]] /\ \A g \in Staff : Carries(req'[g])
  BY ReqGoes DEF CatalogInv
<1>2. CatalogTyped'
  BY <1>1 DEF CatalogInv, CatalogTyped, Carries
<1>3. ReferencesResolve'
  BY DEF CatalogInv, CatalogConsistent, ReferencesResolve
<1> QED BY <1>2, <1>3 DEF CatalogConsistent

\* Products and rows as they were.
LEMMA TablesKeep ==
  ASSUME CatalogInv, UNCHANGED <<rows, dict, product, variant>>
  PROVE  /\ product' \in [Product -> {NoProduct} \cup ProductRow]
         /\ variant' = [s \in Sku |-> variant'[s]]
         /\ \A p \in Product : Exists(p)' => StyleOf[p] \in dict.style
         /\ \A s \in rows' : Exists(ProductOf[s])' /\ KnownCodes(variant[s])'
         /\ NamesAreUnique'
<1>1. \A s \in rows : NameOf(s)' = NameOf(s) /\ Exists(ProductOf[s])' /\ KnownCodes(variant[s])'
  BY RowsKeep DEF CatalogInv
<1>2. \A p \in Product : Exists(p)' = Exists(p)
  BY DEF Exists
<1> QED BY <1>1, <1>2 DEF CatalogInv, CatalogTyped, CatalogConsistent, ReferencesResolve, NamesAreUnique

LEMMA SaveColorKeeps ==
  ASSUME CatalogInv, NEW h \in Staff, SaveColor(h)
  PROVE  CatalogTyped' /\ CatalogConsistent'
<1>1. CASE Leave(h)
  BY <1>1, Leaves
<1>2. CASE ~ Leave(h)
  <2>1. PICK c, b : c = req[h].color /\ b = req[h].base
    OBVIOUS
  <2>2. /\ c \in dict.color /\ b \in dict.base \cup {NoCode} /\ baseOf' = [baseOf EXCEPT ![c] = b]
        /\ Go(h, Idle) /\ UNCHANGED <<rows, dict, product, variant>>
    BY <1>2, <2>1 DEF SaveColor, Done, vars
  <2>3. baseOf' = [d \in Color |-> baseOf'[d]] /\ \A d \in Color : d # c => baseOf'[d] = baseOf[d]
    BY <2>2 DEF CatalogInv, CatalogTyped
  <2>4. c \in Color => baseOf'[c] = b
    BY <2>2 DEF CatalogInv, CatalogTyped
  <2>5. \A d \in dict'.color : baseOf'[d] \in dict'.base \cup {NoCode}
    <3>1. dict.color \subseteq Color
      BY DEF CatalogInv, CatalogTyped, Dictionary
    <3> QED BY <2>2, <2>3, <2>4, <3>1 DEF CatalogInv, CatalogConsistent, ReferencesResolve
  <2>6. req' = [g \in Staff |-> req'[g]] /\ \A g \in Staff : Carries(req'[g])
    BY <2>2, ReqGoes, IdleCarries DEF CatalogInv
  <2>7. CatalogTyped'
    BY <2>2, <2>3, <2>6 DEF CatalogInv, CatalogTyped, Carries
  <2>8. ReferencesResolve' /\ NamesAreUnique'
    BY <2>2, <2>5, TablesKeep DEF CatalogInv, CatalogConsistent, ReferencesResolve
  <2> QED BY <2>7, <2>8 DEF CatalogConsistent
<1> QED BY <1>1, <1>2

LEMMA NextBodyGoes ==
  ASSUME NEW h \in Staff, NEW p \in Product, NEW left, NextBody(h, p, left)
  PROVE  \E n : Go(h, n) /\ Carries(n)
<1>1. CASE Done(h)
  BY <1>1, IdleCarries DEF Done
<1>2. CASE Go(h, [at |-> "checkVariant", product |-> p, todo |-> left])
  <2>1. PICK n : n = [at |-> "checkVariant", product |-> p, todo |-> left] /\ Go(h, n)
    BY <1>2
  <2> QED BY <2>1 DEF Carries
<1> QED BY <1>1, <1>2 DEF NextBody

LEMMA InsertProductKeeps ==
  ASSUME CatalogInv, NEW h \in Staff, InsertProduct(h)
  PROVE  CatalogTyped' /\ CatalogConsistent'
<1>1. CASE Leave(h)
  BY <1>1, Leaves
<1>2. CASE ~ Leave(h)
  <2>1. PICK st, row : st = req[h].style /\ row = req[h].row
    OBVIOUS
  <2>2. row \in ProductRow
    BY <2>1 DEF InsertProduct, At, CatalogInv, CatalogTyped, Carries
  <2>3. PICK p \in NewProduct(st) : product' = [product EXCEPT ![p] = row] /\ NextBody(h, p, req[h].todo)
    BY <1>2, <2>1 DEF InsertProduct
  <2>4. KnownStyle(st) /\ ~ StyleTaken(st) /\ UNCHANGED <<rows, dict, baseOf, variant>>
    BY <1>2, <2>1 DEF InsertProduct, vars
  <2>5. p \in Product /\ ~ Exists(p) /\ StyleOf[p] = st
    BY <2>3 DEF NewProduct
  <2>6. /\ product' \in [Product -> {NoProduct} \cup ProductRow] /\ product'[p] = row
        /\ \A q \in Product \ {p} : product'[q] = product[q]
    BY <2>2, <2>3, <2>5 DEF CatalogInv, CatalogTyped
  <2>7. \A q \in Product : Exists(q)' => Exists(q) \/ q = p
    BY <2>6 DEF Exists
  <2>8. \A q \in Product : Exists(q)' => StyleOf[q] \in dict.style
    BY <2>4, <2>5, <2>7 DEF CatalogInv, CatalogConsistent, ReferencesResolve, KnownStyle
  <2>9. \A s \in rows : ProductOf[s] \in Product /\ ProductOf[s] # p
    BY <2>5, ProductAssumption DEF CatalogInv, TypeOK, CatalogConsistent, ReferencesResolve
  <2>10. \A s \in rows : NameOf(s)' = NameOf(s) /\ Exists(ProductOf[s])' /\ KnownCodes(variant[s])'
    BY <2>4, <2>6, <2>9
       DEF CatalogInv, CatalogConsistent, ReferencesResolve, NameOf, SkuString, Exists, KnownCodes, KnownColor2
  <2>11. NamesAreUnique'
    <3>1. ASSUME NEW q1 \in Product, NEW q2 \in Product, Exists(q1)', Exists(q2)', StyleOf[q1] = StyleOf[q2]
          PROVE  q1 = q2
      BY <2>4, <2>5, <2>7, <3>1 DEF CatalogInv, CatalogConsistent, NamesAreUnique, StyleTaken
    <3> QED BY <2>4, <2>10, <3>1 DEF CatalogInv, CatalogConsistent, NamesAreUnique
  <2>12. variant' = [s \in Sku |-> variant'[s]]
    BY <2>4 DEF CatalogInv, CatalogTyped
  <2>13. PICK n : Go(h, n) /\ Carries(n)
    BY <2>3, <2>5, NextBodyGoes
  <2> QED BY <2>4, <2>6, <2>8, <2>10, <2>11, <2>12, <2>13, WritesKeep
<1> QED BY <1>1, <1>2

LEMMA CheckVariantKeeps ==
  ASSUME CatalogInv, NEW h \in Staff, CheckVariant(h)
  PROVE  CatalogTyped' /\ CatalogConsistent'
<1>1. CASE Leave(h)
  BY <1>1, Leaves
<1>2. CASE ~ Leave(h)
  <2>1. PICK n : n = [req[h] EXCEPT !.at = "insertVariant"]
    OBVIOUS
  <2>2. Go(h, n) /\ UNCHANGED <<vars, dict, baseOf, product, variant>> /\ req[h].at = "checkVariant"
    BY <1>2, <2>1 DEF CheckVariant, At
  <2>3. n.at # "checkVariant" => n.at = "insertVariant"
    BY <2>1
  <2>4. Carries(n)
    BY <2>1, <2>2, <2>3 DEF Carries, CatalogInv, CatalogTyped
  <2> QED BY <2>2, <2>4, OnlyMoves
<1> QED BY <1>1, <1>2

LEMMA InsertVariantKeeps ==
  ASSUME CatalogInv, NEW h \in Staff, InsertVariant(h)
  PROVE  CatalogTyped' /\ CatalogConsistent'
<1>1. CASE Leave(h)
  BY <1>1, Leaves
<1>2. CASE ~ Leave(h)
  <2>1. PICK p, v : p = req[h].product /\ v = Head(req[h].todo)
    OBVIOUS
  <2>2. /\ Exists(p) /\ KnownCodes(v) /\ Named(SkuString(p, v)) = {}
        /\ UNCHANGED <<dict, baseOf, product>> /\ NextBody(h, p, Tail(req[h].todo))
    BY <1>2, <2>1 DEF InsertVariant, MayInsert
  <2>3. PICK s \in NewSku(p) : CreateVariant(s) /\ variant' = [variant EXCEPT ![s] = v]
    BY <1>2, <2>1 DEF InsertVariant
  <2>4. s \in Sku /\ ProductOf[s] = p /\ s \notin rows /\ rows' = rows \cup {s} /\ rows \subseteq Sku
    BY <2>3 DEF NewSku, SkusOf, CreateVariant, CatalogInv, TypeOK
  <2>5. p \in Product
    BY <2>4, ProductAssumption
  <2>6. /\ variant' = [t \in Sku |-> variant'[t]] /\ variant'[s] = v
        /\ \A t \in Sku : t # s => variant'[t] = variant[t]
    BY <2>3, <2>4 DEF CatalogInv, CatalogTyped
  <2>7. \A t \in rows : NameOf(t)' = NameOf(t) /\ Exists(ProductOf[t])' /\ KnownCodes(variant[t])'
    BY <2>2, <2>4, <2>6, RowsKeep DEF CatalogInv
  <2>8. NameOf(s)' = SkuString(p, v) /\ Exists(ProductOf[s])' /\ KnownCodes(variant[s])'
    BY <2>2, <2>4, <2>6 DEF NameOf, SkuString, Exists, KnownCodes, KnownColor2
  <2>9. \A t \in rows : NameOf(t) # SkuString(p, v)
    BY <2>2 DEF Named
  <2>10. \A q \in Product : Exists(q)' = Exists(q)
    BY <2>2 DEF Exists
  <2>11. NamesAreUnique'
    BY <2>4, <2>7, <2>8, <2>9, <2>10 DEF CatalogInv, CatalogConsistent, NamesAreUnique
  <2>12. \A q \in Product : Exists(q)' => StyleOf[q] \in dict.style
    BY <2>10 DEF CatalogInv, CatalogConsistent, ReferencesResolve
  <2>13. product' \in [Product -> {NoProduct} \cup ProductRow]
    BY <2>2 DEF CatalogInv, CatalogTyped
  <2>14. PICK n : Go(h, n) /\ Carries(n)
    BY <2>2, <2>5, NextBodyGoes
  <2> QED BY <2>2, <2>4, <2>6, <2>7, <2>8, <2>11, <2>12, <2>13, <2>14, WritesKeep
<1> QED BY <1>1, <1>2

LEMMA DraftGoes ==
  ASSUME NEW h \in Staff, NEW p \in Product, LookForDraft(h, p) \/ Done(h)
  PROVE  \E n : Go(h, n) /\ Carries(n)
<1>1. CASE Done(h)
  BY <1>1, IdleCarries DEF Done
<1>2. CASE LookForDraft(h, p)
  <2>1. PICK n : n = [at |-> "lookForDraft", product |-> p] /\ Go(h, n)
    BY <1>2 DEF LookForDraft
  <2> QED BY <2>1 DEF Carries
<1> QED BY <1>1, <1>2

LEMMA SaveVariantKeeps ==
  ASSUME CatalogInv, NEW h \in Staff, SaveVariant(h)
  PROVE  CatalogTyped' /\ CatalogConsistent'
<1>1. CASE Leave(h)
  BY <1>1, Leaves
<1>2. CASE ~ Leave(h)
  <2>1. PICK p, row : p = req[h].product /\ row = req[h].row
    OBVIOUS
  <2>2. PICK target : target = Named(SkuString(p, row))
    OBVIOUS
  <2>3. p \in Product
    BY <2>1 DEF SaveVariant, At, CatalogInv, CatalogTyped, Carries
  <2>4. /\ KnownColor2(row) /\ UNCHANGED <<rows, dict, baseOf, product>>
        /\ variant' = [s \in Sku |-> IF s \in target THEN row ELSE variant[s]]
        /\ LookForDraft(h, p) \/ Done(h)
    BY <1>2, <2>1, <2>2 DEF SaveVariant, vars
  <2>5. /\ variant' = [s \in Sku |-> variant'[s]] /\ rows \subseteq Sku
        /\ \A s \in Sku : variant'[s] = IF s \in target THEN row ELSE variant[s]
    BY <2>4 DEF CatalogInv, TypeOK
  <2>6. ASSUME NEW s \in rows
        PROVE  NameOf(s)' = NameOf(s) /\ Exists(ProductOf[s])' /\ KnownCodes(variant[s])'
    <3>1. CASE s \notin target
      BY <2>4, <2>5, <3>1, RowsKeep DEF CatalogInv
    <3>2. CASE s \in target
      <4>1. SkuString(ProductOf[s], variant[s]) = SkuString(p, row) /\ variant'[s] = row
        BY <2>2, <2>5, <3>2 DEF Named, NameOf
      <4>2. row.color = variant[s].color /\ row.edition = variant[s].edition /\ row.size = variant[s].size
        BY <4>1 DEF SkuString
      <4>3. NameOf(s)' = NameOf(s)
        BY <4>1, <4>2 DEF NameOf, SkuString
      <4>4. Exists(ProductOf[s]) /\ KnownCodes(variant[s])
        BY DEF CatalogInv, CatalogConsistent, ReferencesResolve
      <4> QED BY <2>4, <4>1, <4>2, <4>3, <4>4 DEF Exists, KnownCodes, KnownColor2
    <3> QED BY <3>1, <3>2
  <2>7. \A q \in Product : Exists(q)' = Exists(q)
    BY <2>4 DEF Exists
  <2>8. NamesAreUnique' /\ \A q \in Product : Exists(q)' => StyleOf[q] \in dict.style
    BY <2>4, <2>6, <2>7 DEF CatalogInv, CatalogConsistent, NamesAreUnique, ReferencesResolve
  <2>9. product' \in [Product -> {NoProduct} \cup ProductRow]
    BY <2>4 DEF CatalogInv, CatalogTyped
  <2>10. PICK n : Go(h, n) /\ Carries(n)
    BY <2>3, <2>4, DraftGoes
  <2> QED BY <2>4, <2>5, <2>6, <2>8, <2>9, <2>10, WritesKeep
<1> QED BY <1>1, <1>2

LEMMA FindNothingKeeps ==
  ASSUME CatalogInv, NEW h \in Staff, FindNothingToSell(h)
  PROVE  CatalogTyped' /\ CatalogConsistent'
<1>1. CASE Leave(h)
  BY <1>1, Leaves
<1>2. CASE ~ Leave(h)
  <2>1. PICK p : p = req[h].product
    OBVIOUS
  <2>2. p \in Product
    BY <2>1 DEF FindNothingToSell, At, CatalogInv, CatalogTyped, Carries
  <2>3. PICK row : row = [product[p] EXCEPT !.status = "draft"]
    OBVIOUS
  <2>4. PICK n : /\ n = [at |-> "saveProduct", product |-> p, asked |-> FALSE, row |-> row] /\ Go(h, n)
                 /\ product[p].status = "active" /\ UNCHANGED <<vars, dict, baseOf, product, variant>>
    BY <1>2, <2>1, <2>3 DEF FindNothingToSell
  <2>5. product[p] \in ProductRow
    BY <2>2, <2>4 DEF CatalogInv, CatalogTyped, NoProduct
  <2>6. row \in ProductRow
    BY <2>3, <2>5 DEF ProductRow
  <2>7. Carries(n)
    BY <2>2, <2>4, <2>6 DEF Carries
  <2> QED BY <2>4, <2>7, OnlyMoves
<1> QED BY <1>1, <1>2

LEMMA SaveProductKeeps ==
  ASSUME CatalogInv, NEW h \in Staff, SaveProduct(h)
  PROVE  CatalogTyped' /\ CatalogConsistent'
<1>1. CASE Leave(h)
  BY <1>1, Leaves
<1>2. CASE ~ Leave(h)
  <2>1. PICK p, row : p = req[h].product /\ row = req[h].row
    OBVIOUS
  <2>2. p \in Product /\ row \in ProductRow
    BY <2>1 DEF SaveProduct, At, CatalogInv, CatalogTyped, Carries
  <2>3. /\ Exists(p) /\ product' = [product EXCEPT ![p] = row] /\ Go(h, Idle)
        /\ UNCHANGED <<rows, dict, baseOf, variant>>
    BY <1>2, <2>1 DEF SaveProduct, Done, vars
  <2>4. /\ product' \in [Product -> {NoProduct} \cup ProductRow] /\ product'[p] = row
        /\ \A q \in Product : q # p => product'[q] = product[q]
    BY <2>2, <2>3 DEF CatalogInv, CatalogTyped
  <2>5. \A q \in Product : Exists(q)' <=> Exists(q)
    BY <2>2, <2>3, <2>4, RowShape DEF Exists
  <2>6. \A s \in rows : NameOf(s)' = NameOf(s) /\ ProductOf[s] \in Product /\ KnownCodes(variant[s])'
    BY <2>3, ProductAssumption
       DEF CatalogInv, TypeOK, CatalogConsistent, ReferencesResolve, KnownCodes, KnownColor2, NameOf, SkuString
  <2>7. \A s \in rows' : Exists(ProductOf[s])' /\ KnownCodes(variant[s])'
    BY <2>3, <2>5, <2>6 DEF CatalogInv, CatalogConsistent, ReferencesResolve
  <2>8. NamesAreUnique' /\ \A q \in Product : Exists(q)' => StyleOf[q] \in dict.style
    BY <2>3, <2>5, <2>6 DEF CatalogInv, CatalogConsistent, NamesAreUnique, ReferencesResolve
  <2>9. variant' = [s \in Sku |-> variant'[s]]
    BY <2>3 DEF CatalogInv, CatalogTyped
  <2> QED BY <2>3, <2>4, <2>7, <2>8, <2>9, IdleCarries, WritesKeep
<1> QED BY <1>1, <1>2

\* Rows go, and with them at most a product whose rows all go.
LEMMA RowsGo ==
  ASSUME CatalogInv, rows' \subseteq rows, UNCHANGED dict,
         \A s \in rows' : variant'[s] = variant[s] /\ product'[ProductOf[s]] = product[ProductOf[s]],
         \A q \in Product : Exists(q)' => Exists(q)
  PROVE  /\ \A q \in Product : Exists(q)' => StyleOf[q] \in dict.style
         /\ \A s \in rows' : Exists(ProductOf[s])' /\ KnownCodes(variant[s])'
         /\ NamesAreUnique'
<1>1. \A s \in rows' : s \in rows /\ NameOf(s)' = NameOf(s) /\ Exists(ProductOf[s])' /\ KnownCodes(variant[s])'
  BY DEF CatalogInv, CatalogConsistent, ReferencesResolve, Exists, KnownCodes, KnownColor2, NameOf, SkuString
<1> QED BY <1>1 DEF CatalogInv, CatalogConsistent, ReferencesResolve, NamesAreUnique

LEMMA RemoveVariantKeeps ==
  ASSUME CatalogInv, NEW h \in Staff, RemoveVariant(h)
  PROVE  CatalogTyped' /\ CatalogConsistent'
<1>1. CASE Leave(h)
  BY <1>1, Leaves
<1>2. CASE ~ Leave(h)
  <2>1. PICK s \in rows : DeleteVariant(s) /\ variant' = [variant EXCEPT ![s] = Blank]
    BY <1>2 DEF RemoveVariant, Named
  <2>2. UNCHANGED <<dict, baseOf, product>> /\ AfterDelete(h) /\ req[h].product \in Product
    BY <1>2 DEF RemoveVariant, At, CatalogInv, CatalogTyped, Carries
  <2>3. rows' = rows \ {s} /\ rows \subseteq Sku
    BY <2>1 DEF DeleteVariant, DropRows, CatalogInv, TypeOK
  <2>4. variant' = [t \in Sku |-> variant'[t]] /\ \A t \in Sku : t # s => variant'[t] = variant[t]
    BY <2>1 DEF CatalogInv, CatalogTyped
  <2>5. /\ \A q \in Product : Exists(q)' => StyleOf[q] \in dict.style
        /\ \A t \in rows' : Exists(ProductOf[t])' /\ KnownCodes(variant[t])'
        /\ NamesAreUnique'
    BY <2>2, <2>3, <2>4, RowsGo DEF Exists
  <2>6. product' \in [Product -> {NoProduct} \cup ProductRow]
    BY <2>2 DEF CatalogInv, CatalogTyped
  <2>7. PICK n : Go(h, n) /\ Carries(n)
    BY <2>2, DraftGoes DEF AfterDelete
  <2> QED BY <2>2, <2>4, <2>5, <2>6, <2>7, WritesKeep
<1> QED BY <1>1, <1>2

LEMMA RemoveProductKeeps ==
  ASSUME CatalogInv, NEW h \in Staff, RemoveProduct(h)
  PROVE  CatalogTyped' /\ CatalogConsistent'
<1>1. CASE Leave(h)
  BY <1>1, Leaves
<1>2. CASE ~ Leave(h)
  <2>1. PICK p : p = req[h].product
    OBVIOUS
  <2>2. /\ p \in Product /\ DeleteProduct(p) /\ product' = [product EXCEPT ![p] = NoProduct]
        /\ variant' = [s \in Sku |-> IF s \in SkusOf(p) THEN Blank ELSE variant[s]]
        /\ Go(h, Idle) /\ UNCHANGED <<dict, baseOf>>
    BY <1>2, <2>1 DEF RemoveProduct, At, Done, CatalogInv, CatalogTyped, Carries
  <2>3. rows' = rows \ SkusOf(p) /\ rows \subseteq Sku
    BY <2>2 DEF DeleteProduct, DropRows, CatalogInv, TypeOK
  <2>4. /\ product' \in [Product -> {NoProduct} \cup ProductRow] /\ product'[p] = NoProduct
        /\ \A q \in Product : q # p => product'[q] = product[q]
    BY <2>2 DEF CatalogInv, CatalogTyped
  <2>5. \A q \in Product : Exists(q)' => Exists(q)
    BY <2>4 DEF Exists, NoProduct
  <2>6. \A s \in rows' : variant'[s] = variant[s] /\ product'[ProductOf[s]] = product[ProductOf[s]]
    <3>1. \A s \in rows' : s \in Sku /\ s \notin SkusOf(p) /\ ProductOf[s] \in Product /\ ProductOf[s] # p
      BY <2>3, ProductAssumption DEF SkusOf
    <3> QED BY <2>2, <2>4, <3>1
  <2>7. variant' = [s \in Sku |-> variant'[s]]
    BY <2>2
  <2>8. /\ \A q \in Product : Exists(q)' => StyleOf[q] \in dict.style
        /\ \A t \in rows' : Exists(ProductOf[t])' /\ KnownCodes(variant[t])'
        /\ NamesAreUnique'
    BY <2>2, <2>3, <2>5, <2>6, RowsGo
  <2> QED BY <2>2, <2>4, <2>7, <2>8, IdleCarries, WritesKeep
<1> QED BY <1>1, <1>2

----------------------------------------------------------------------------
(* Every step on the stock is one that Inventory allows.                    *)

LEMMA CatalogStockStep == CatalogInv /\ [CatalogNext]_allVars => [Next]_vars
<1> SUFFICES ASSUME CatalogInv, [CatalogNext]_allVars PROVE [Next]_vars
  OBVIOUS
<1>1. ASSUME NEW h \in Staff, InsertVariant(h) PROVE [Next]_vars
  BY <1>1 DEF InsertVariant, Leave, NewSku, SkusOf, Next
<1>2. ASSUME NEW h \in Staff, RemoveVariant(h) PROVE [Next]_vars
  <2>1. rows \subseteq Sku
    BY DEF CatalogInv, TypeOK
  <2> QED BY <1>2, <2>1 DEF RemoveVariant, Leave, Named, Next
<1>3. ASSUME NEW h \in Staff, RemoveProduct(h) PROVE [Next]_vars
  <2>1. req[h].product \in Product
    BY <1>3 DEF RemoveProduct, At, CatalogInv, CatalogTyped, Carries
  <2> QED BY <1>3, <2>1 DEF RemoveProduct, Leave, Next
<1>4. ASSUME NEW h \in Staff, Request(h) PROVE UNCHANGED vars
  BY <1>4 DEF Request, BeginUpdateColor, BeginCreateProduct, BeginUpdateProduct, BeginDeleteProduct,
              BeginCreateVariant, BeginUpdateVariant, BeginDeleteVariant, BeginUpload, Begin
<1>5. ASSUME NEW h \in Staff,
             \/ SaveColor(h) \/ InsertProduct(h) \/ CheckVariant(h) \/ SaveVariant(h)
             \/ FindNothingToSell(h) \/ SaveProduct(h) \/ Crash(h)
      PROVE  UNCHANGED vars
  BY <1>5 DEF SaveColor, InsertProduct, CheckVariant, SaveVariant, FindNothingToSell, SaveProduct, Crash, Leave
<1>6. ASSUME Dictionaries PROVE UNCHANGED vars
  BY <1>6 DEF Dictionaries, CreateBrand, DeleteBrand, CreateStyle, DeleteStyle, CreateBaseColor, DeleteBaseColor,
              CreateColor, DeleteColor, CreateSize, DeleteSize, CreateEdition, DeleteEdition, Add, Drop, Edit
<1>7. ASSUME StockStep PROVE [Next]_vars
  BY <1>7 DEF StockStep, Next
<1>8. CASE UNCHANGED allVars
  BY <1>8 DEF allVars
<1> QED BY <1>1, <1>2, <1>3, <1>4, <1>5, <1>6, <1>7, <1>8 DEF CatalogNext, Continue

LEMMA CatalogStep == CatalogInv /\ [CatalogNext]_allVars => CatalogInv'
<1> SUFFICES ASSUME CatalogInv, [CatalogNext]_allVars PROVE CatalogInv'
  OBVIOUS
<1>1. TypeOK'
  BY CatalogStockStep, TypeStep DEF CatalogInv
<1>2. ASSUME UNCHANGED rows, UNCHANGED catalogVars PROVE CatalogTyped' /\ CatalogConsistent'
  <2>1. UNCHANGED <<rows, dict, baseOf, product, variant, req>>
    BY <1>2 DEF catalogVars
  <2>2. CatalogTyped'
    BY <2>1 DEF CatalogInv, CatalogTyped, Carries
  <2>3. ReferencesResolve' /\ NamesAreUnique'
    BY <2>1, TablesKeep DEF CatalogInv, CatalogConsistent, ReferencesResolve
  <2> QED BY <2>2, <2>3 DEF CatalogConsistent
<1>3. ASSUME UNCHANGED allVars PROVE CatalogTyped' /\ CatalogConsistent'
  BY <1>2, <1>3 DEF allVars, vars
<1>4. ASSUME StockStep PROVE CatalogTyped' /\ CatalogConsistent'
  <2>1. UNCHANGED rows
    BY <1>4 DEF StockStep, SetQuantity, AdjustQuantity, CreateReservation, FinalizeReservation
  <2> QED BY <1>2, <1>4, <2>1 DEF StockStep
<1>5. ASSUME NEW h \in Staff, Crash(h) PROVE CatalogTyped' /\ CatalogConsistent'
  BY <1>5, Leaves DEF Crash
<1>6. ASSUME NEW h \in Staff, Continue(h) PROVE CatalogTyped' /\ CatalogConsistent'
  BY <1>6, SaveColorKeeps, InsertProductKeeps, CheckVariantKeeps, InsertVariantKeeps, SaveVariantKeeps,
     FindNothingKeeps, SaveProductKeeps, RemoveVariantKeeps, RemoveProductKeeps DEF Continue
<1>7. CatalogTyped' /\ CatalogConsistent'
  BY <1>3, <1>4, <1>5, <1>6, RequestsKeep, DictionariesKeep DEF CatalogNext
<1> QED BY <1>1, <1>7 DEF CatalogInv

LEMMA CatalogBegins == CatalogInit => CatalogInv
<1> SUFFICES ASSUME CatalogInit PROVE CatalogInv
  OBVIOUS
<1>1. TypeOK
  BY TypeInit DEF CatalogInit
<1>2. dict \in Dictionary /\ baseOf = [c \in Color |-> baseOf[c]]
  BY DEF CatalogInit, Dictionary
<1>3. /\ product \in [Product -> {NoProduct} \cup ProductRow] /\ variant = [s \in Sku |-> variant[s]]
      /\ req = [h \in Staff |-> req[h]] /\ \A h \in Staff : req[h] = Idle
  BY DEF CatalogInit
<1>4. CatalogTyped
  BY <1>2, <1>3, IdleCarries DEF CatalogTyped
<1>5. rows \subseteq Sku /\ \A s \in rows : ProductOf[s] \in Product
  BY <1>1, ProductAssumption DEF TypeOK
<1>6. ReferencesResolve
  <2>1. \A c \in dict.color : baseOf[c] \in dict.base \cup {NoCode}
    BY DEF CatalogInit
  <2> QED BY <1>5, <2>1 DEF CatalogInit, ReferencesResolve
<1>7. ASSUME NEW s \in rows, NEW t \in rows, NameOf(s) = NameOf(t) PROVE s = t
  <2>1. /\ StyleOf[ProductOf[s]] = StyleOf[ProductOf[t]]
        /\ variant[s].color = variant[t].color /\ variant[s].size = variant[t].size
    BY <1>7 DEF NameOf, SkuString
  <2>2. ProductOf[s] = ProductOf[t]
    BY <1>5, <2>1 DEF CatalogInit
  <2>3. t \in Variants(ProductOf[s])
    BY <1>5, <2>2 DEF Variants, SkusOf
  <2> QED BY <1>5, <2>1, <2>3 DEF CatalogInit
<1>8. NamesAreUnique
  BY <1>7 DEF CatalogInit, NamesAreUnique
<1> QED BY <1>1, <1>4, <1>6, <1>8 DEF CatalogInv, CatalogConsistent

LEMMA CatalogInvariant == CatalogSpec => []CatalogInv
BY CatalogBegins, CatalogStep, PTL DEF CatalogSpec

(* Whatever is deleted between the checks of a request and its writes, no    *)
(* row of the catalog refers to one that is gone, and a style or a human sku *)
(* names one row, however many members of staff work at once and wherever   *)
(* their requests die.                                                      *)
THEOREM CatalogIsConsistent == CatalogSpec => []CatalogConsistent
<1>1. CatalogInv => CatalogConsistent
  BY DEF CatalogInv
<1> QED BY <1>1, CatalogInvariant, PTL

(* A variant's stock row goes only empty, unless its product is deleted:     *)
(* what was checked when the request came in is checked by the transaction. *)
THEOREM DeletesLoseNothing == CatalogSpec => DeletedVariantHeldNothing
<1>1. CatalogInv /\ [CatalogNext]_allVars =>
        [\A s \in rows \ rows' : ProductOf[s] \in deleted' \/ (quantity[s] = 0 /\ reserved[s] = 0)]_vars
  <2> SUFFICES ASSUME CatalogInv, [Next]_vars, NEW s \in rows \ rows'
               PROVE  ProductOf[s] \in deleted' \/ (quantity[s] = 0 /\ reserved[s] = 0)
    BY CatalogStockStep
  <2>1. ASSUME NEW t \in Sku, DeleteVariant(t) PROVE quantity[s] = 0 /\ reserved[s] = 0
    BY <2>1 DEF DeleteVariant, DropRows
  <2>2. ASSUME NEW p \in Product, DeleteProduct(p) PROVE ProductOf[s] \in deleted'
    BY <2>2 DEF DeleteProduct, DropRows, SkusOf
  <2>3. CASE rows \subseteq rows'
    BY <2>3
  <2>4. \/ \E t \in Sku : DeleteVariant(t)
        \/ \E p \in Product : DeleteProduct(p)
        \/ rows \subseteq rows'
    BY DEF Next, vars, CreateVariant, SetQuantity, AdjustQuantity, CreateReservation, FinalizeReservation
  <2> QED BY <2>1, <2>2, <2>3, <2>4
<1> QED BY <1>1, CatalogInvariant, PTL DEF CatalogSpec, DeletedVariantHeldNothing

(* Catalog work uses the stock only as Inventory allows, so the counters do  *)
(* not drift and nothing is oversold while variants come and go.            *)
THEOREM CatalogStockSafe == CatalogSpec => Spec /\ []StockSafe
<1>1. CatalogInit => Init
  BY DEF CatalogInit
<1>2. CatalogInv /\ [CatalogNext]_allVars => [Next]_vars
  BY CatalogStockStep
<1> QED BY <1>1, <1>2, CatalogInvariant, StockIsSafe, PTL DEF CatalogSpec, Spec
============================================================================
