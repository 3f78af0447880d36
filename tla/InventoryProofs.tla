-------------------------- MODULE InventoryProofs --------------------------
(* Proofs about Inventory for every set of skus, products and requests.    *)
EXTENDS Inventory, FiniteSetTheorems, TLAPS

----------------------------------------------------------------------------
(* Counting units.                                                         *)

(* Adding one more holder x adds exactly its f[x] units. *)
LEMMA UnitsAdd ==
  ASSUME NEW f, NEW S, NEW x, x \notin S, f[x] \in Nat,
         IsFiniteSet(Units(f, S))
  PROVE  /\ IsFiniteSet(Units(f, S \cup {x}))
         /\ Cardinality(Units(f, S \cup {x})) = Cardinality(Units(f, S)) + f[x]
<1> DEFINE X == {x} \X (1..f[x])
<1>1. Units(f, S \cup {x}) = Units(f, S) \cup X
  BY DEF Units
<1>2. Units(f, S) \cap X = {}
  BY DEF Units
<1>3. IsFiniteSet(X) /\ Cardinality(X) = f[x]
  <2>1. IsFiniteSet({x}) /\ Cardinality({x}) = 1
    BY FS_Singleton
  <2>2. IsFiniteSet(1..f[x]) /\ Cardinality(1..f[x]) = f[x]
    <3>1. PICK n \in Nat : n = f[x]
      OBVIOUS
    <3>2. 1 \in Int /\ n \in Int
      OBVIOUS
    <3>3. IsFiniteSet(1..n) /\ Cardinality(1..n) = IF 1 > n THEN 0 ELSE n - 1 + 1
      BY <3>2, FS_Interval, Zenon
    <3>4. Cardinality(1..n) = n
      BY <3>1, <3>3, SMT
    <3> QED BY <3>1, <3>3, <3>4
  <2>3. IsFiniteSet(X) /\ Cardinality(X) = 1 * f[x]
    BY <2>1, <2>2, FS_Product
  <2> QED BY <2>3
<1>4. Cardinality(Units(f, S)) \in Nat
  BY FS_CardinalityType
<1>5. Cardinality(Units(f, S) \cap X) = 0
  BY <1>2, FS_EmptySet
<1> HIDE DEF X
<1>6. /\ IsFiniteSet(Units(f, S) \cup X)
      /\ Cardinality(Units(f, S) \cup X)
           = Cardinality(Units(f, S)) + Cardinality(X) - Cardinality(Units(f, S) \cap X)
  BY <1>3, FS_Union
<1>7. Cardinality(Units(f, S) \cup X) = Cardinality(Units(f, S)) + f[x]
  BY <1>3, <1>4, <1>5, <1>6
<1> QED BY <1>1, <1>6, <1>7, Zenon

(* Finitely many holders of at most N units each hold finitely many, at    *)
(* most N apiece.                                                          *)
LEMMA UnitsFinite ==
  ASSUME NEW f, NEW S, IsFiniteSet(S), NEW N \in Nat,
         \A x \in S : f[x] \in 0..N
  PROVE  /\ IsFiniteSet(Units(f, S))
         /\ Cardinality(Units(f, S)) \in 0..(Cardinality(S) * N)
<1>1. IsFiniteSet(1..N) /\ Cardinality(1..N) = N
  BY FS_Interval
<1>2. IsFiniteSet(S \X (1..N)) /\ Cardinality(S \X (1..N)) = Cardinality(S) * N
  BY <1>1, FS_Product
<1>3. Units(f, S) \subseteq S \X (1..N)
  BY DEF Units
<1>4. IsFiniteSet(Units(f, S)) /\ Cardinality(Units(f, S)) <= Cardinality(S \X (1..N))
  BY <1>2, <1>3, FS_Subset
<1> QED BY <1>2, <1>4, FS_CardinalityType

(* Only the counts of the holders themselves matter. *)
LEMMA UnitsSame ==
  ASSUME NEW f, NEW g, NEW S, \A x \in S : f[x] = g[x]
  PROVE  Units(f, S) = Units(g, S)
BY DEF Units

LEMMA SkusOfFinite ==
  ASSUME NEW p
  PROVE  IsFiniteSet(SkusOf(p)) /\ Cardinality(SkusOf(p)) \in Nat
BY SkuAssumption, FS_Subset, FS_CardinalityType DEF SkusOf

LEMMA UnitCountType ==
  ASSUME NEW want \in [Sku -> 0..MaxInt], NEW p
  PROVE  UnitCount(want, p) \in 0..(Cardinality(SkusOf(p)) * MaxInt)
<1>1. \A s \in SkusOf(p) : want[s] \in 0..MaxInt
  BY DEF SkusOf
<1> QED BY <1>1, SkusOfFinite, UnitsFinite, InputAssumption DEF UnitCount

----------------------------------------------------------------------------
(* Type correctness.                                                       *)

(* What FinalizeReservation takes off the shelf. *)
LEMMA ShippedType ==
  ASSUME TypeOK, NEW r \in ResId, NEW to
  PROVE  (IF to = "committed" THEN lines[r] ELSE [s \in Sku |-> 0])
            \in [Sku -> 0..MaxInt]
<1>1. lines[r] \in [Sku -> 0..MaxInt]
  BY DEF TypeOK
<1>2. [s \in Sku |-> 0] \in [Sku -> 0..MaxInt]
  BY InputAssumption
<1> QED BY <1>1, <1>2

LEMMA TypeInit == Init => TypeOK
<1> SUFFICES ASSUME Init PROVE TypeOK
  OBVIOUS
<1>1. 0 \in 0..MaxInt /\ Quantities \cup {0} \subseteq 0..MaxInt
  BY InputAssumption
<1>2. quantity \in [Sku -> 0..MaxInt]
  BY <1>1 DEF Init
<1>3. reserved \in [Sku -> 0..MaxInt] /\ lines \in [ResId -> [Sku -> 0..MaxInt]]
  BY <1>1 DEF Init
<1>4. seq \in 0..MaxReservations /\ \A r \in ResId : status[r] = "none" <=> r > seq
  BY InputAssumption DEF Init, ResId
<1> QED BY <1>2, <1>3, <1>4 DEF Init, TypeOK

LEMMA TypeStep == TypeOK /\ [Next]_vars => TypeOK'
<1> SUFFICES ASSUME TypeOK, [Next]_vars PROVE TypeOK'
  OBVIOUS
<1> USE InputAssumption
<1>1. ASSUME NEW s \in Sku, CreateVariant(s) PROVE TypeOK'
  BY <1>1 DEF CreateVariant, TypeOK
<1>2. ASSUME NEW s \in Sku, NEW q \in Quantities, SetQuantity(s, q) PROVE TypeOK'
  BY <1>2 DEF SetQuantity, TypeOK
<1>3. ASSUME NEW s \in Sku, NEW d \in Deltas, AdjustQuantity(s, d) PROVE TypeOK'
  <2>1. quantity[s] + d \in 0..MaxInt
    BY <1>3 DEF AdjustQuantity, TypeOK
  <2> QED BY <1>3, <2>1 DEF AdjustQuantity, TypeOK
<1>4. ASSUME NEW want \in Requests, CreateReservation(want) PROVE TypeOK'
  <2>1. want \in [Sku -> 0..MaxInt]
    OBVIOUS
  <2>2. reserved' \in [Sku -> 0..MaxInt]
    <3>1. ASSUME NEW s \in Sku PROVE reserved[s] + want[s] \in 0..MaxInt
      BY <1>4, <2>1 DEF CreateReservation, Wanted, Available, TypeOK
    <3> QED BY <1>4, <3>1 DEF CreateReservation
  <2>3. seq + 1 \in ResId
    BY <1>4 DEF CreateReservation, TypeOK, ResId
  <2>4. lines' \in [ResId -> [Sku -> 0..MaxInt]]
    BY <1>4, <2>1 DEF CreateReservation, TypeOK
  <2>5. \A r \in ResId : status'[r] = "none" <=> r > seq'
    BY <1>4, <2>3 DEF CreateReservation, TypeOK, ResId
  <2>6. status' \in [ResId -> {"none", "active"} \cup Closed]
    BY <1>4 DEF CreateReservation, TypeOK
  <2>7. seq' \in 0..MaxReservations
    BY <2>3, <1>4 DEF CreateReservation, ResId
  <2>8. UNCHANGED <<rows, retired, quantity, deleted, soldCount>>
    BY <1>4 DEF CreateReservation
  <2> QED BY <2>2, <2>4, <2>5, <2>6, <2>7, <2>8 DEF TypeOK
<1>5. ASSUME NEW r \in ResId, NEW to \in Closed, FinalizeReservation(r, to)
      PROVE TypeOK'
  <2> DEFINE shipped == IF to = "committed" THEN lines[r] ELSE [s \in Sku |-> 0]
  <2>1. lines[r] \in [Sku -> 0..MaxInt]
    BY DEF TypeOK
  <2>2. shipped \in [Sku -> 0..MaxInt]
    BY ShippedType
  <2>3. \A s \in Sku : shipped[s] = lines[r][s] \/ shipped[s] = 0
    OBVIOUS
  <2> HIDE DEF shipped
  <2>4. /\ status[r] = "active"
        /\ \A s \in Wanted(lines[r]) :
              reserved[s] >= lines[r][s] /\ quantity[s] >= shipped[s]
        /\ reserved' = [s \in Sku |-> reserved[s] - lines[r][s]]
        /\ quantity' = [s \in Sku |-> quantity[s] - shipped[s]]
        /\ soldCount' = [p \in Product |-> soldCount[p] + UnitCount(shipped, p)]
        /\ status' = [status EXCEPT ![r] = to]
        /\ UNCHANGED <<rows, retired, seq, lines, deleted>>
    BY <1>5 DEF FinalizeReservation, shipped
  <2>5. reserved' \in [Sku -> 0..MaxInt]
    <3>1. ASSUME NEW s \in Sku PROVE reserved[s] - lines[r][s] \in 0..MaxInt
      BY <2>1, <2>4 DEF Wanted, TypeOK
    <3> QED BY <2>4, <3>1
  <2>6. quantity' \in [Sku -> 0..MaxInt]
    <3>1. ASSUME NEW s \in Sku PROVE quantity[s] - shipped[s] \in 0..MaxInt
      BY <2>1, <2>2, <2>3, <2>4 DEF Wanted, TypeOK
    <3> QED BY <2>4, <3>1
  <2>7. soldCount' \in [Product -> Nat]
    <3>1. ASSUME NEW p \in Product PROVE soldCount[p] + UnitCount(shipped, p) \in Nat
      <4>1. UnitCount(shipped, p) \in Nat
        BY <2>2, UnitCountType, SkusOfFinite
      <4> QED BY <4>1 DEF TypeOK
    <3> QED BY <2>4, <3>1
  <2> QED BY <2>4, <2>5, <2>6, <2>7 DEF TypeOK, Closed
<1>6. ASSUME NEW s \in Sku, DeleteVariant(s) PROVE TypeOK'
  BY <1>6 DEF DeleteVariant, DropRows, TypeOK
<1>7. ASSUME NEW p \in Product, DeleteProduct(p) PROVE TypeOK'
  BY <1>7 DEF DeleteProduct, DropRows, TypeOK
<1>8. CASE UNCHANGED vars
  BY <1>8 DEF vars, TypeOK
<1> QED BY <1>1, <1>2, <1>3, <1>4, <1>5, <1>6, <1>7, <1>8 DEF Next

(* Stock columns stay in the INTEGER range and are never negative, and the *)
(* reservation sequence and the reservation table stay in step.            *)
THEOREM TypeCorrect == Spec => []TypeOK
BY TypeInit, TypeStep, PTL DEF Spec

----------------------------------------------------------------------------
(* Stock accounting and overselling.                                       *)

\* The per-reservation counts that HeldUnits counts.
HeldOf(s) == [r \in ResId |-> lines[r][s]]

LEMMA ResIdFinite == IsFiniteSet(ResId) /\ IsFiniteSet(Open) /\ IsFiniteSet(Committed)
<1>1. IsFiniteSet(ResId)
  BY InputAssumption, FS_Interval DEF ResId
<1> QED BY <1>1, FS_Subset DEF Open, Committed

(* A subset of the reservations holds a finite number of units of a sku. *)
LEMMA HeldFinite ==
  ASSUME TypeOK, NEW s \in Sku, NEW R \in SUBSET ResId
  PROVE  IsFiniteSet(Units(HeldOf(s), R)) /\ Cardinality(Units(HeldOf(s), R)) \in Nat
<1>1. IsFiniteSet(R)
  BY ResIdFinite, FS_Subset
<1>2. \A r \in R : HeldOf(s)[r] \in 0..MaxInt
  BY DEF HeldOf, TypeOK
<1>3. IsFiniteSet(Units(HeldOf(s), R))
  BY <1>1, <1>2, UnitsFinite, InputAssumption
<1> QED BY <1>3, FS_CardinalityType

(* Opening reservation r for n units of s adds n held units; closing it    *)
(* takes them away.                                                        *)
LEMMA HeldChange ==
  ASSUME TypeOK, NEW s \in Sku, NEW r \in ResId, NEW R \in SUBSET ResId, r \notin R
  PROVE  Cardinality(Units(HeldOf(s), R \cup {r}))
           = Cardinality(Units(HeldOf(s), R)) + lines[r][s]
<1>1. HeldOf(s)[r] = lines[r][s] /\ lines[r][s] \in Nat
  BY DEF HeldOf, TypeOK
<1>2. IsFiniteSet(Units(HeldOf(s), R))
  BY HeldFinite
<1>3. Cardinality(Units(HeldOf(s), R \cup {r}))
        = Cardinality(Units(HeldOf(s), R)) + HeldOf(s)[r]
  BY <1>1, <1>2, UnitsAdd
<1> QED BY <1>1, <1>3

LEMMA AccountingInit == Init => IInv
<1> SUFFICES ASSUME Init PROVE IInv
  OBVIOUS
<1>1. Open = {}
  BY DEF Init, Open
<1>2. \A s : Units(HeldOf(s), Open) = {}
  BY <1>1 DEF Units
<1>3. StockAccounting
  BY <1>2, FS_EmptySet DEF Init, StockAccounting, HeldUnits, HeldOf
<1>4. \A s \in Sku : quantity[s] >= 0
  BY TypeInit DEF TypeOK
<1>5. NoOversell
  BY <1>4, TypeInit DEF Init, NoOversell, TypeOK
<1>6. FreshSkus
  BY DEF Init, FreshSkus
<1> QED BY <1>3, <1>5, <1>6, TypeInit DEF IInv

(* A step that leaves the reservations and a row's counter alone leaves    *)
(* the row's accounting alone.                                             *)
LEMMA AccountingSame ==
  ASSUME StockAccounting, UNCHANGED <<status, lines>>,
         \A s \in rows' : s \in rows /\ reserved'[s] = reserved[s]
  PROVE  StockAccounting'
<1>1. \A s : HeldUnits(s)' = HeldUnits(s)
  BY DEF HeldUnits, Open
<1> QED BY <1>1 DEF StockAccounting

(* A new reservation adds its units to the held ones and to the counters. *)
LEMMA AccountingCreate ==
  ASSUME IInv, TypeOK', NEW want \in Requests, CreateReservation(want)
  PROVE  StockAccounting'
<1> DEFINE r0 == seq + 1
<1>1. r0 \in ResId /\ r0 \notin Open
  BY InputAssumption DEF IInv, TypeOK, CreateReservation, ResId, Open
<1>2. Open' = Open \cup {r0}
  BY <1>1 DEF CreateReservation, Open, IInv, TypeOK
<1>3. ASSUME NEW s \in rows'
      PROVE reserved'[s] = Cardinality(HeldUnits(s)')
  <2>1. s \in rows /\ s \in Sku
    BY <1>3 DEF CreateReservation, IInv, TypeOK
  <2>2. reserved[s] = Cardinality(Units(HeldOf(s), Open))
    BY <2>1 DEF IInv, StockAccounting, HeldUnits, HeldOf
  <2>3. reserved'[s] = reserved[s] + want[s]
    BY <2>1 DEF CreateReservation
  <2>4. \A r \in Open : HeldOf(s)'[r] = HeldOf(s)[r]
    BY <1>1 DEF CreateReservation, HeldOf, Open, IInv, TypeOK
  <2>5. HeldOf(s)'[r0] = want[s] /\ want[s] \in Nat
    BY <1>1, <2>1, InputAssumption DEF CreateReservation, HeldOf, IInv, TypeOK
  <2>6. Units(HeldOf(s)', Open) = Units(HeldOf(s), Open)
    BY <2>4, UnitsSame
  <2>7. IsFiniteSet(Units(HeldOf(s), Open))
    BY <2>1, HeldFinite DEF IInv, Open
  <2> HIDE DEF r0
  <2>8. Cardinality(Units(HeldOf(s)', Open \cup {r0}))
          = Cardinality(Units(HeldOf(s)', Open)) + HeldOf(s)'[r0]
    BY <1>1, <2>5, <2>6, <2>7, UnitsAdd
  <2>9. HeldUnits(s)' = Units(HeldOf(s)', Open')
    BY DEF HeldUnits, HeldOf
  <2> QED BY <1>2, <2>2, <2>3, <2>5, <2>6, <2>8, <2>9
<1> QED BY <1>3 DEF StockAccounting

(* Committing or releasing takes the reservation's units out of both. *)
LEMMA AccountingFinalize ==
  ASSUME IInv, NEW r \in ResId, NEW to \in Closed, FinalizeReservation(r, to)
  PROVE  StockAccounting'
<1>1. status[r] = "active" /\ status' = [status EXCEPT ![r] = to] /\ lines' = lines
      /\ rows' = rows /\ reserved' = [s \in Sku |-> reserved[s] - lines[r][s]]
  BY DEF FinalizeReservation
<1>2. r \notin Open' /\ Open = Open' \cup {r} /\ Open' \subseteq ResId
  BY <1>1 DEF Open, Closed, IInv, TypeOK
<1>3. ASSUME NEW s \in rows'
      PROVE reserved'[s] = Cardinality(HeldUnits(s)')
  <2>1. s \in rows /\ s \in Sku
    BY <1>1, <1>3 DEF IInv, TypeOK
  <2>2. reserved[s] = Cardinality(Units(HeldOf(s), Open))
    BY <2>1 DEF IInv, StockAccounting, HeldUnits, HeldOf
  <2>3. Cardinality(Units(HeldOf(s), Open' \cup {r}))
          = Cardinality(Units(HeldOf(s), Open')) + lines[r][s]
    BY <1>2, <2>1, HeldChange DEF IInv
  <2>4. HeldUnits(s)' = Units(HeldOf(s), Open')
    BY <1>1 DEF HeldUnits, HeldOf
  <2>5. Cardinality(Units(HeldOf(s), Open')) \in Nat /\ lines[r][s] \in Nat
    BY <1>2, <2>1, HeldFinite DEF IInv, TypeOK
  <2> QED BY <1>1, <1>2, <2>1, <2>2, <2>3, <2>4, <2>5
<1> QED BY <1>3 DEF StockAccounting

(* A sku outside every reservation has no held units. *)
LEMMA NothingHeld ==
  ASSUME NEW s, \A r \in ResId : lines[r][s] = 0
  PROVE  Cardinality(HeldUnits(s)) = 0
<1>1. HeldUnits(s) = {}
  BY DEF HeldUnits, Units, Open
<1> QED BY <1>1, FS_EmptySet

(* Skus that do not exist yet stay out of every account. *)
LEMMA FreshStep == IInv /\ [Next]_vars => FreshSkus'
<1> SUFFICES ASSUME IInv, [Next]_vars,
                    NEW s \in Sku, s \notin rows' \cup retired'
             PROVE  /\ quantity'[s] = 0 /\ reserved'[s] = 0
                    /\ \A r \in ResId : lines'[r][s] = 0
  BY DEF FreshSkus
<1>0. TypeOK /\ FreshSkus
  BY DEF IInv
<1>1. ASSUME s \notin rows \cup retired, UNCHANGED <<quantity, reserved, lines>>
      PROVE  /\ quantity'[s] = 0 /\ reserved'[s] = 0
             /\ \A r \in ResId : lines'[r][s] = 0
  BY <1>0, <1>1 DEF FreshSkus
<1>2. ASSUME NEW u \in Sku, CreateVariant(u)
      PROVE  /\ quantity'[s] = 0 /\ reserved'[s] = 0
             /\ \A r \in ResId : lines'[r][s] = 0
  BY <1>1, <1>2 DEF CreateVariant
<1>3. ASSUME NEW u \in Sku, NEW q \in Quantities, SetQuantity(u, q)
      PROVE  /\ quantity'[s] = 0 /\ reserved'[s] = 0
             /\ \A r \in ResId : lines'[r][s] = 0
  BY <1>0, <1>3 DEF SetQuantity, FreshSkus, TypeOK
<1>4. ASSUME NEW u \in Sku, NEW d \in Deltas, AdjustQuantity(u, d)
      PROVE  /\ quantity'[s] = 0 /\ reserved'[s] = 0
             /\ \A r \in ResId : lines'[r][s] = 0
  BY <1>0, <1>4 DEF AdjustQuantity, FreshSkus, TypeOK
<1>5. ASSUME NEW want \in Requests, CreateReservation(want)
      PROVE  /\ quantity'[s] = 0 /\ reserved'[s] = 0
             /\ \A r \in ResId : lines'[r][s] = 0
  <2>1. s \notin Wanted(want) /\ s \notin rows \cup retired
    BY <1>5 DEF CreateReservation
  <2>2. want[s] = 0
    BY <2>1, InputAssumption DEF Wanted
  <2> QED BY <1>0, <1>5, <2>1, <2>2 DEF CreateReservation, FreshSkus, TypeOK
<1>6. ASSUME NEW r \in ResId, NEW to \in Closed, FinalizeReservation(r, to)
      PROVE  /\ quantity'[s] = 0 /\ reserved'[s] = 0
             /\ \A q \in ResId : lines'[q][s] = 0
  <2>1. s \notin rows \cup retired /\ lines[r][s] = 0
    BY <1>0, <1>6 DEF FinalizeReservation, FreshSkus
  <2> QED BY <1>0, <1>6, <2>1 DEF FinalizeReservation, FreshSkus, TypeOK
<1>7. ASSUME NEW u \in Sku, DeleteVariant(u)
      PROVE  /\ quantity'[s] = 0 /\ reserved'[s] = 0
             /\ \A r \in ResId : lines'[r][s] = 0
  BY <1>0, <1>7 DEF DeleteVariant, DropRows, FreshSkus
<1>8. ASSUME NEW p \in Product, DeleteProduct(p)
      PROVE  /\ quantity'[s] = 0 /\ reserved'[s] = 0
             /\ \A r \in ResId : lines'[r][s] = 0
  BY <1>0, <1>8 DEF DeleteProduct, DropRows, FreshSkus
<1>9. CASE UNCHANGED vars
  BY <1>1, <1>9 DEF vars
<1> QED BY <1>2, <1>3, <1>4, <1>5, <1>6, <1>7, <1>8, <1>9 DEF Next

LEMMA AccountingStep == IInv /\ [Next]_vars => IInv'
<1> SUFFICES ASSUME IInv, [Next]_vars PROVE IInv'
  OBVIOUS
<1>0. TypeOK /\ TypeOK' /\ FreshSkus /\ FreshSkus' /\ StockAccounting /\ NoOversell
  BY TypeStep, FreshStep DEF IInv
<1> SUFFICES StockAccounting' /\ NoOversell'
  BY <1>0 DEF IInv
<1>1. ASSUME NEW s \in Sku, CreateVariant(s) PROVE StockAccounting' /\ NoOversell'
  <2>1. quantity[s] = 0 /\ reserved[s] = 0 /\ Cardinality(HeldUnits(s)) = 0
    BY <1>0, <1>1, NothingHeld DEF CreateVariant, FreshSkus
  <2>2. \A u : HeldUnits(u)' = HeldUnits(u)
    BY <1>1 DEF CreateVariant, HeldUnits, Open
  <2>3. \A u \in rows \cup {s} : reserved[u] = Cardinality(HeldUnits(u))
    BY <1>0, <2>1 DEF StockAccounting
  <2>4. StockAccounting'
    BY <1>1, <2>2, <2>3 DEF CreateVariant, StockAccounting
  <2> QED BY <1>0, <1>1, <2>1, <2>4 DEF CreateVariant, NoOversell
<1>2. ASSUME NEW s \in Sku, NEW q \in Quantities, SetQuantity(s, q)
      PROVE StockAccounting' /\ NoOversell'
  BY <1>0, <1>2, AccountingSame DEF SetQuantity, NoOversell, TypeOK
<1>3. ASSUME NEW s \in Sku, NEW d \in Deltas, AdjustQuantity(s, d)
      PROVE StockAccounting' /\ NoOversell'
  BY <1>0, <1>3, AccountingSame, InputAssumption DEF AdjustQuantity, NoOversell, TypeOK
<1>4. ASSUME NEW want \in Requests, CreateReservation(want)
      PROVE StockAccounting' /\ NoOversell'
  <2>1. ASSUME NEW s \in rows PROVE reserved[s] + want[s] <= quantity[s]
    BY <1>0, <1>4, InputAssumption
       DEF CreateReservation, Wanted, Available, NoOversell, TypeOK
  <2>2. NoOversell'
    BY <1>0, <1>4, <2>1 DEF CreateReservation, NoOversell, TypeOK
  <2> QED BY <1>0, <1>4, <2>2, AccountingCreate
<1>5. ASSUME NEW r \in ResId, NEW to \in Closed, FinalizeReservation(r, to)
      PROVE StockAccounting' /\ NoOversell'
  <2> DEFINE shipped == IF to = "committed" THEN lines[r] ELSE [s \in Sku |-> 0]
  <2>1. \A s \in Sku : shipped[s] = lines[r][s] \/ shipped[s] = 0
    OBVIOUS
  <2>2. shipped \in [Sku -> 0..MaxInt]
    BY <1>0, ShippedType
  <2>3. /\ rows' = rows
        /\ reserved' = [s \in Sku |-> reserved[s] - lines[r][s]]
        /\ quantity' = [s \in Sku |-> quantity[s] - shipped[s]]
    BY <1>5 DEF FinalizeReservation
  <2> HIDE DEF shipped
  <2>4. ASSUME NEW s \in rows PROVE reserved[s] - lines[r][s] <= quantity[s] - shipped[s]
    <3>1. s \in Sku /\ reserved[s] \in Nat /\ quantity[s] \in Nat
          /\ lines[r][s] \in Nat /\ shipped[s] \in Nat
      BY <1>0, <2>2 DEF TypeOK
    <3>2. reserved[s] <= quantity[s]
      BY <1>0 DEF NoOversell
    <3> QED BY <2>1, <3>1, <3>2
  <2>5. NoOversell'
    BY <1>0, <2>3, <2>4 DEF NoOversell, TypeOK
  <2> QED BY <1>5, <2>5, AccountingFinalize
<1>6. ASSUME NEW s \in Sku, DeleteVariant(s) PROVE StockAccounting' /\ NoOversell'
  BY <1>0, <1>6, AccountingSame DEF DeleteVariant, DropRows, NoOversell, TypeOK
<1>7. ASSUME NEW p \in Product, DeleteProduct(p) PROVE StockAccounting' /\ NoOversell'
  BY <1>0, <1>7, AccountingSame DEF DeleteProduct, DropRows, NoOversell, TypeOK
<1>8. CASE UNCHANGED vars
  BY <1>0, <1>8, AccountingSame DEF vars, NoOversell
<1> QED BY <1>1, <1>2, <1>3, <1>4, <1>5, <1>6, <1>7, <1>8 DEF Next

LEMMA InductiveInvariant == Spec => []IInv
BY AccountingInit, AccountingStep, PTL DEF Spec

(* The reserved counter of every stock row equals the units its open       *)
(* reservations hold, for any catalogue, requests and bounds.              *)
THEOREM StockAccounted == Spec => []StockAccounting
<1>1. IInv => StockAccounting
  BY DEF IInv
<1> QED BY <1>1, InductiveInvariant, PTL

(* No stock row ever promises more units than it has on hand. *)
THEOREM NeverOversold == Spec => []NoOversell
<1>1. IInv => NoOversell
  BY DEF IInv
<1> QED BY <1>1, InductiveInvariant, PTL

----------------------------------------------------------------------------
(* The sold counter.                                                       *)

\* The per-reservation counts that SoldUnits counts.
SoldOf(p) == [r \in ResId |-> UnitCount(lines[r], p)]

LEMMA SoldFinite ==
  ASSUME TypeOK, NEW p, NEW R \in SUBSET ResId
  PROVE  IsFiniteSet(Units(SoldOf(p), R)) /\ Cardinality(Units(SoldOf(p), R)) \in Nat
<1> DEFINE N == Cardinality(SkusOf(p)) * MaxInt
<1>1. IsFiniteSet(R)
  BY ResIdFinite, FS_Subset
<1>2. \A r \in R : SoldOf(p)[r] \in 0..N
  BY UnitCountType DEF SoldOf, TypeOK
<1>3. N \in Nat
  BY SkusOfFinite, InputAssumption
<1> HIDE DEF N
<1>4. IsFiniteSet(Units(SoldOf(p), R))
  BY <1>1, <1>2, <1>3, UnitsFinite
<1> QED BY <1>4, FS_CardinalityType

LEMMA NothingShipped ==
  ASSUME NEW p PROVE UnitCount([s \in Sku |-> 0], p) = 0
<1>1. Units([s \in Sku |-> 0], SkusOf(p)) = {}
  BY DEF Units, SkusOf
<1> QED BY <1>1, FS_EmptySet DEF UnitCount

(* Shipping reservation r adds its units of p to the sold ones. *)
LEMMA SoldChange ==
  ASSUME TypeOK, NEW p, NEW r \in ResId, r \notin Committed
  PROVE  Cardinality(Units(SoldOf(p), Committed \cup {r}))
           = Cardinality(Units(SoldOf(p), Committed)) + UnitCount(lines[r], p)
<1>1. lines[r] \in [Sku -> 0..MaxInt]
  BY DEF TypeOK
<1>2. UnitCount(lines[r], p) \in Nat
  BY <1>1, UnitCountType, SkusOfFinite, InputAssumption
<1>3. SoldOf(p)[r] = UnitCount(lines[r], p)
  BY DEF SoldOf
<1>4. IsFiniteSet(Units(SoldOf(p), Committed))
  BY SoldFinite DEF Committed
<1>5. Cardinality(Units(SoldOf(p), Committed \cup {r}))
        = Cardinality(Units(SoldOf(p), Committed)) + SoldOf(p)[r]
  BY <1>2, <1>3, <1>4, UnitsAdd
<1> QED BY <1>3, <1>5

LEMMA SoldInit == Init => SoldCountAccurate
<1> SUFFICES ASSUME Init PROVE SoldCountAccurate
  OBVIOUS
<1>1. Committed = {}
  BY DEF Init, Committed
<1>2. \A p : SoldUnits(p) = {}
  BY <1>1 DEF SoldUnits, Units
<1> QED BY <1>2, FS_EmptySet DEF Init, SoldCountAccurate

LEMMA SoldStep == TypeOK /\ SoldCountAccurate /\ [Next]_vars => SoldCountAccurate'
<1> SUFFICES ASSUME TypeOK, SoldCountAccurate, [Next]_vars PROVE SoldCountAccurate'
  OBVIOUS
<1>1. ASSUME UNCHANGED <<status, lines, soldCount>>, deleted \subseteq deleted'
      PROVE SoldCountAccurate'
  <2>1. \A p : SoldUnits(p)' = SoldUnits(p)
    BY <1>1 DEF SoldUnits, Committed
  <2> QED BY <1>1, <2>1 DEF SoldCountAccurate
<1>2. ASSUME NEW want \in Requests, CreateReservation(want) PROVE SoldCountAccurate'
  <2>1. Committed' = Committed /\ seq + 1 \notin Committed
    BY <1>2, InputAssumption DEF CreateReservation, Committed, TypeOK, ResId
  <2>2. \A r \in Committed : lines'[r] = lines[r]
    BY <1>2, <2>1 DEF CreateReservation, Committed, TypeOK
  <2>3. ASSUME NEW p \in Product \ deleted PROVE SoldUnits(p)' = SoldUnits(p)
    <3>1. \A r \in Committed : SoldOf(p)'[r] = SoldOf(p)[r]
      BY <2>2 DEF SoldOf, Committed
    <3>2. Units(SoldOf(p)', Committed) = Units(SoldOf(p), Committed)
      BY <3>1, UnitsSame
    <3> QED BY <2>1, <3>2 DEF SoldUnits, SoldOf
  <2> QED BY <1>2, <2>3 DEF CreateReservation, SoldCountAccurate
<1>3. ASSUME NEW r \in ResId, NEW to \in Closed, FinalizeReservation(r, to)
      PROVE SoldCountAccurate'
  <2>1. /\ status[r] = "active" /\ status' = [status EXCEPT ![r] = to]
        /\ lines' = lines /\ deleted' = deleted
    BY <1>3 DEF FinalizeReservation
  <2>2. CASE to = "committed"
    <3>1. Committed' = Committed \cup {r} /\ r \notin Committed
      BY <2>1, <2>2 DEF Committed, TypeOK
    <3>2. soldCount' = [p \in Product |-> soldCount[p] + UnitCount(lines[r], p)]
      BY <1>3, <2>2 DEF FinalizeReservation
    <3>3. ASSUME NEW p \in Product \ deleted
          PROVE soldCount'[p] = Cardinality(SoldUnits(p)')
      <4>1. soldCount[p] = Cardinality(Units(SoldOf(p), Committed))
        BY DEF SoldCountAccurate, SoldUnits, SoldOf
      <4>2. SoldUnits(p)' = Units(SoldOf(p), Committed \cup {r})
        BY <2>1, <3>1 DEF SoldUnits, SoldOf
      <4> QED BY <3>1, <3>2, <4>1, <4>2, SoldChange
    <3> QED BY <2>1, <3>3 DEF SoldCountAccurate
  <2>3. CASE to = "released"
    <3>1. Committed' = Committed
      BY <2>1, <2>3 DEF Committed, TypeOK
    <3>2. \A p : SoldUnits(p)' = SoldUnits(p)
      BY <2>1, <3>1 DEF SoldUnits
    <3>3. soldCount' = [p \in Product |-> soldCount[p] + UnitCount([s \in Sku |-> 0], p)]
      BY <1>3, <2>3 DEF FinalizeReservation
    <3>4. soldCount' = soldCount
      BY <3>3, NothingShipped DEF TypeOK
    <3> QED BY <2>1, <3>2, <3>4 DEF SoldCountAccurate
  <2> QED BY <2>2, <2>3 DEF Closed
<1>4. ASSUME NEW s \in Sku, CreateVariant(s) PROVE SoldCountAccurate'
  BY <1>1, <1>4 DEF CreateVariant
<1>5. ASSUME NEW s \in Sku, NEW q \in Quantities, SetQuantity(s, q) PROVE SoldCountAccurate'
  BY <1>1, <1>5 DEF SetQuantity
<1>6. ASSUME NEW s \in Sku, NEW d \in Deltas, AdjustQuantity(s, d) PROVE SoldCountAccurate'
  BY <1>1, <1>6 DEF AdjustQuantity
<1>7. ASSUME NEW s \in Sku, DeleteVariant(s) PROVE SoldCountAccurate'
  BY <1>1, <1>7 DEF DeleteVariant
<1>8. ASSUME NEW p \in Product, DeleteProduct(p) PROVE SoldCountAccurate'
  BY <1>1, <1>8 DEF DeleteProduct
<1>9. CASE UNCHANGED vars
  BY <1>1, <1>9 DEF vars
<1> QED BY <1>2, <1>3, <1>4, <1>5, <1>6, <1>7, <1>8, <1>9 DEF Next

(* The sold counter of a product that still exists is the number of its    *)
(* units that shipping took: nothing is counted twice or missed.           *)
THEOREM SoldCountIsAccurate == Spec => []SoldCountAccurate
<1>1. Spec => [](TypeOK /\ SoldCountAccurate)
  BY TypeInit, TypeStep, SoldInit, SoldStep, PTL DEF Spec
<1> QED BY <1>1, PTL

(* Neither the counters nor the sales drift, whatever requests are served,  *)
(* in whatever order.                                                      *)
THEOREM StockIsSafe == Spec => []StockSafe
<1>1. StockAccounting /\ NoOversell /\ SoldCountAccurate => StockSafe
  BY DEF StockSafe
<1> QED BY <1>1, StockAccounted, NeverOversold, SoldCountIsAccurate, PTL
============================================================================
