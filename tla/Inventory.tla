----------------------------- MODULE Inventory -----------------------------
(***************************************************************************)
(* Stock and reservations of the product service, one action per database  *)
(* transaction of product/pkg/infra/pg/inventory_store.go and of the       *)
(* catalog writes that create and delete stock rows.                       *)
(*                                                                         *)
(* A stock row carries the units on hand (quantity) and the units promised *)
(* to open orders (reserved).  A reservation holds units of one or more    *)
(* SKUs; shipping commits it, cancelling releases it.  This is what the    *)
(* store promises when every transaction is atomic.  InventoryTx takes the *)
(* transactions apart into their row locks and implements this module.     *)
(***************************************************************************)
EXTENDS Integers, FiniteSets

CONSTANTS
  Sku,              \* sku ids (ULIDs), ordered as the code orders them
  Product,          \* parent products
  ProductOf,        \* the parent product of each sku
  Requests,         \* reservation requests after de-duplication: units per sku
  Quantities,       \* quantities staff set
  Deltas,           \* stock adjustments staff make
  MaxInt,           \* largest value of an INTEGER column
  MaxReservations   \* bound on the reservation sequence

ASSUME SkuAssumption == Sku \subseteq Nat /\ IsFiniteSet(Sku)

ASSUME ProductAssumption == ProductOf \in [Sku -> Product]

ASSUME InputAssumption ==
  /\ MaxInt \in Nat
  /\ MaxReservations \in Nat
  /\ Quantities \subseteq 0..MaxInt
  /\ Deltas \subseteq Int
  /\ \A want \in Requests : want \in [Sku -> 0..MaxInt] /\ \E s \in Sku : want[s] > 0

VARIABLES
  rows,       \* skus with a variant and its stock row
  retired,    \* skus whose variant was deleted; a ULID is never used again
  quantity,   \* stock_items.quantity
  reserved,   \* stock_items.reserved
  seq,        \* id_sequences row 'reservation'
  status,     \* reservations.status, "none" before the row exists
  lines,      \* reservation_items: units per sku
  deleted,    \* products that were deleted
  soldCount   \* products.sold_count

stockVars == <<rows, retired, quantity, reserved>>
resVars   == <<seq, status, lines>>
vars      == <<rows, retired, quantity, reserved, seq, status, lines, deleted, soldCount>>

ResId  == 1..MaxReservations
Closed == {"committed", "released"}

SkusOf(p)    == {s \in Sku : ProductOf[s] = p}
Wanted(want) == {s \in Sku : want[s] > 0}
Available(s) == quantity[s] - reserved[s]

\* One element per unit: x stands for f[x] units, for every x in S.
Units(f, S) == UNION {{x} \X (1..f[x]) : x \in S}

\* How many units of product p the request `want` asks for.
UnitCount(want, p) == Cardinality(Units(want, SkusOf(p)))

Open       == {r \in ResId : status[r] = "active"}
Committed  == {r \in ResId : status[r] = "committed"}

----------------------------------------------------------------------------
Init ==
  /\ rows \in SUBSET Sku
  /\ quantity \in [Sku -> Quantities \cup {0}]
  /\ \A s \in Sku \ rows : quantity[s] = 0
  /\ reserved = [s \in Sku |-> 0]
  /\ retired = {}
  /\ seq = 0
  /\ status = [r \in ResId |-> "none"]
  /\ lines = [r \in ResId |-> [s \in Sku |-> 0]]
  /\ deleted = {}
  /\ soldCount = [p \in Product |-> 0]

(* A new variant gets its stock row in the same transaction. *)
CreateVariant(s) ==
  /\ s \notin rows \cup retired
  /\ ProductOf[s] \notin deleted
  /\ rows' = rows \cup {s}
  /\ UNCHANGED <<retired, quantity, reserved, seq, status, lines, deleted, soldCount>>

SetQuantity(s, q) ==
  /\ s \in rows
  /\ q >= reserved[s]
  /\ quantity' = [quantity EXCEPT ![s] = q]
  /\ UNCHANGED <<rows, retired, reserved, seq, status, lines, deleted, soldCount>>

(* An adjustment past the column's range is an error of the database. *)
AdjustQuantity(s, d) ==
  /\ s \in rows
  /\ quantity[s] + d >= 0
  /\ quantity[s] + d >= reserved[s]
  /\ quantity[s] + d <= MaxInt
  /\ quantity' = [quantity EXCEPT ![s] = @ + d]
  /\ UNCHANGED <<rows, retired, reserved, seq, status, lines, deleted, soldCount>>

(* All lines or none: one short line rolls the whole transaction back. *)
CreateReservation(want) ==
  /\ seq < MaxReservations
  /\ Wanted(want) \subseteq rows
  /\ \A s \in Wanted(want) : Available(s) >= want[s]
  /\ reserved' = [s \in Sku |-> reserved[s] + want[s]]
  /\ seq' = seq + 1
  /\ status' = [status EXCEPT ![seq + 1] = "active"]
  /\ lines' = [lines EXCEPT ![seq + 1] = want]
  /\ UNCHANGED <<rows, retired, quantity, deleted, soldCount>>

(* Commit (ship) or release (cancel) an open reservation.  A closed one, or *)
(* one that names a sku without a stock row, is refused.                    *)
FinalizeReservation(r, to) ==
  LET want    == lines[r]
      shipped == IF to = "committed" THEN want ELSE [s \in Sku |-> 0]
  IN
  /\ status[r] = "active"
  /\ Wanted(want) \subseteq rows
  /\ \A s \in Wanted(want) : reserved[s] >= want[s] /\ quantity[s] >= shipped[s]
  /\ reserved' = [s \in Sku |-> reserved[s] - want[s]]
  /\ quantity' = [s \in Sku |-> quantity[s] - shipped[s]]
  /\ soldCount' = [p \in Product |->
                     soldCount[p] + UnitCount(shipped, p)]
  /\ status' = [status EXCEPT ![r] = to]
  /\ UNCHANGED <<rows, retired, seq, lines, deleted>>

\* The stock rows of the skus in S disappear with their variants.
DropRows(S) ==
  /\ rows' = rows \ S
  /\ retired' = retired \cup (rows \cap S)
  /\ quantity' = [s \in Sku |-> IF s \in S THEN 0 ELSE quantity[s]]
  /\ reserved' = [s \in Sku |-> IF s \in S THEN 0 ELSE reserved[s]]

(* Only an empty row goes; the foreign key keeps the others. *)
DeleteVariant(s) ==
  /\ s \in rows
  /\ quantity[s] = 0
  /\ reserved[s] = 0
  /\ DropRows({s})
  /\ UNCHANGED <<seq, status, lines, deleted, soldCount>>

(* The store drops every stock row of the product, whatever it holds. *)
DeleteProduct(p) ==
  /\ p \notin deleted
  /\ DropRows(SkusOf(p))
  /\ deleted' = deleted \cup {p}
  /\ UNCHANGED <<seq, status, lines, soldCount>>

Next ==
  \/ \E s \in Sku : CreateVariant(s)
  \/ \E s \in Sku, q \in Quantities : SetQuantity(s, q)
  \/ \E s \in Sku, d \in Deltas : AdjustQuantity(s, d)
  \/ \E want \in Requests : CreateReservation(want)
  \/ \E r \in ResId, to \in Closed : FinalizeReservation(r, to)
  \/ \E s \in Sku : DeleteVariant(s)
  \/ \E p \in Product : DeleteProduct(p)

Spec == Init /\ [][Next]_vars

----------------------------------------------------------------------------
(* Type invariant: columns stay in the INTEGER range and never go negative, *)
(* and the reservation sequence numbers exactly the rows that exist.        *)
TypeOK ==
  /\ rows \subseteq Sku
  /\ retired \subseteq Sku \ rows
  /\ quantity \in [Sku -> 0..MaxInt]
  /\ reserved \in [Sku -> 0..MaxInt]
  /\ seq \in 0..MaxReservations
  /\ status \in [ResId -> {"none", "active"} \cup Closed]
  /\ lines \in [ResId -> [Sku -> 0..MaxInt]]
  /\ \A r \in ResId : status[r] = "none" <=> r > seq
  /\ deleted \subseteq Product
  /\ soldCount \in [Product -> Nat]

(* The reserved counter of a stock row is exactly the number of its units  *)
(* that open reservations hold: no create, commit or release loses a unit  *)
(* or gives one back twice (the counters are denormalised by hand in       *)
(* CreateReservation and FinalizeReservation).                             *)
HeldUnits(s) == Units([r \in ResId |-> lines[r][s]], Open)

StockAccounting ==
  \A s \in rows : reserved[s] = Cardinality(HeldUnits(s))

(* Open orders are never promised more units than are on hand, whatever    *)
(* staff set or adjust and whatever reservations commit in between.        *)
NoOversell ==
  \A s \in rows : reserved[s] <= quantity[s]

(* A sku that was never created holds nothing: only a stock row can be     *)
(* reserved, so a new row starts with an empty account.                    *)
FreshSkus ==
  \A s \in Sku \ (rows \cup retired) :
    quantity[s] = 0 /\ reserved[s] = 0 /\ \A r \in ResId : lines[r][s] = 0

(* The inductive invariant of the stock counters. *)
IInv == TypeOK /\ FreshSkus /\ StockAccounting /\ NoOversell

(* A product's sold_count is the number of its units that were shipped.    *)
SoldUnits(p) == Units([r \in ResId |-> UnitCount(lines[r], p)], Committed)

SoldCountAccurate ==
  \A p \in Product \ deleted : soldCount[p] = Cardinality(SoldUnits(p))

(* The hand-kept columns together: no sequence of sets, adjustments,       *)
(* reservations, commits, releases and deletes makes them drift apart.     *)
StockSafe == StockAccounting /\ NoOversell /\ SoldCountAccurate
============================================================================
