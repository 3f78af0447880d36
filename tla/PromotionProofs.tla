-------------------------- MODULE PromotionProofs --------------------------
(* Proofs about promotions and about the roll-outs, for any codes, orders,   *)
(* customers, transactions, rows and services: the ledger of uses, the       *)
(* entitlements in a customer's wallet and the start that carries them over, *)
(* and the other start of that kind, which gives every sku its id.           *)
EXTENDS PromotionLedger, Wallet, SkuRollout, FiniteSetTheorems, TLAPS

(**************************************************************************)
(* PromotionLedger: what the row locks protect, that redemption_count     *)
(* never drifts, which transactions can deadlock, and that the counter    *)
(* and the locks implement UseLedger.                                     *)
(**************************************************************************)
----------------------------------------------------------------------------
\* The standing uses of a code by the customer of an order.
Mine(c, o) == {q \in UsesOf(c) : CustomerOf[q] = CustomerOf[o]}

\* A row of the ledger names a code that was created, and is never taken out.
UsesAreNamed ==
  /\ \A o \in Orders :
       /\ use[o].status = "none" => use[o].code = NoCode
       /\ use[o].status # "none" => use[o].code \in Codes /\ promo[use[o].code].made > 0
  /\ \A c \in Codes : promo[c].exists => promo[c].made > 0
  /\ \A t \in Tx : tx[t].at \in {"consume", "recount", "release", "discount"}
                     => use[tx[t].order].status # "none"

\* A row is locked by one transaction at a time.
LocksExclude ==
  /\ \A t, u \in Tx, c \in Codes : HoldsPromo(t, c) /\ HoldsPromo(u, c) => t = u
  /\ \A t, u \in Tx, o \in Orders : HoldsUse(t, o) /\ HoldsUse(u, o) => t = u

\* What a transaction found when it took its locks is so until it ends.
PromoHeld(t) ==
  LET c == tx[t].code
      o == tx[t].order
  IN
  /\ promo[c].exists /\ promo[c].count < promo[c].cap
  /\ tx[t].todo \cup tx[t].locked = Mine(c, o)
  /\ tx[t].todo \cap tx[t].locked = {}
  /\ tx[t].used = Cardinality(tx[t].locked)

ReadsHold ==
  \A t \in Tx : /\ tx[t].at = "count" => PromoHeld(t)
                /\ tx[t].at = "discount" => Active(tx[t].order)
                /\ tx[t].at = "recount" => use[tx[t].order].status = "released"

(* The counter never runs ahead of the uses, whatever staff delete and     *)
(* create again: no customer is refused a slot that is free.               *)
CountCovered ==
  \A c \in Codes : promo[c].exists => promo[c].count <= Cardinality(UsesOf(c))

\* A code that was created once is counted exactly.
CountExact ==
  \A c \in Codes : promo[c].exists /\ promo[c].made = 1
                     => promo[c].count = Cardinality(UsesOf(c))

LedgerInv ==
  LedgerTypeOK /\ UsesAreNamed /\ LocksExclude /\ ReadsHold /\ CountCovered /\ CountExact

----------------------------------------------------------------------------
(* Type correctness. *)

LEMMA GoTyped ==
  ASSUME LedgerTypeOK, NEW t \in Tx, NEW s \in TxStates, Go(t, s)
  PROVE  /\ tx' \in [Tx -> TxStates]
         /\ tx'[t] = s
         /\ \A u \in Tx \ {t} : tx'[u] = tx[u]
BY DEF LedgerTypeOK, Go

LEMMA IdleTyped == Idle \in TxStates
BY DEF TxStates

LEMMA InTxStates ==
  /\ [at : {"count"}, order : Orders, code : Codes, todo : SUBSET Orders,
      locked : SUBSET Orders, used : Nat] \subseteq TxStates
  /\ [at : {"consume", "recount", "release", "discount"}, order : Orders] \subseteq TxStates
BY DEF TxStates

(* The step of a transaction says what else it carries. *)
LEMMA TxFields ==
  ASSUME LedgerTypeOK, NEW t \in Tx
  PROVE  /\ tx[t].at \in {"idle", "update", "find", "promotion", "count",
                           "consume", "recount", "release", "discount"}
         /\ tx[t].at = "update" =>
              tx[t] \in [at : {"update"}, code : Codes,
                         copy : [active : BOOLEAN, cap : Caps \cup {0}]]
         /\ tx[t].at \in {"find", "promotion"} =>
              tx[t] \in [at : {"find", "promotion"}, order : Orders, code : Codes]
         /\ tx[t].at = "count" =>
              tx[t] \in [at : {"count"}, order : Orders, code : Codes,
                         todo : SUBSET Orders, locked : SUBSET Orders, used : Nat]
         /\ tx[t].at \in {"consume", "recount", "release", "discount"} =>
              tx[t] \in [at : {"consume", "recount", "release", "discount"}, order : Orders]
<1>1. tx[t] \in TxStates
  BY DEF LedgerTypeOK
<1> QED BY <1>1 DEF TxStates, Idle

\* Only counts and states of rows change once the rows are there.
LEMMA CountTyped ==
  ASSUME LedgerTypeOK, NEW c, NEW n, c \in Codes => n \in Nat,
         promo' = [promo EXCEPT ![c].count = n]
  PROVE  promo' \in [Codes -> [exists : BOOLEAN, active : BOOLEAN, cap : Caps \cup {0},
                               count : Nat, made : 0..MaxCreates]]
BY DEF LedgerTypeOK

LEMMA StatusTyped ==
  ASSUME LedgerTypeOK, NEW o \in Orders, NEW s \in {"reserved", "consumed", "released"},
         use' = [use EXCEPT ![o].status = s]
  PROVE  use' \in [Orders -> [status : {"none", "reserved", "consumed", "released"},
                              code : Codes \cup {NoCode}]]
BY DEF LedgerTypeOK

Counting == [at : {"count"}, order : Orders, code : Codes, todo : SUBSET Orders,
             locked : SUBSET Orders, used : Nat]

Recounted(r, todo, locked, used) ==
  [r EXCEPT !.todo = todo, !.locked = locked, !.used = used]

\* A transaction that counts keeps its other fields.
LEMMA CountingFields ==
  ASSUME NEW r \in Counting, NEW a \in SUBSET Orders, NEW b \in SUBSET Orders, NEW n \in Nat
  PROVE  /\ Recounted(r, a, b, n) \in Counting
         /\ Recounted(r, a, b, n).order = r.order /\ Recounted(r, a, b, n).code = r.code
         /\ Recounted(r, a, b, n).todo = a /\ Recounted(r, a, b, n).locked = b
         /\ Recounted(r, a, b, n).used = n
<1> DEFINE s1 == [r EXCEPT !.todo = a]
<1>1. /\ s1 \in Counting
      /\ s1.order = r.order /\ s1.code = r.code /\ s1.todo = a
  BY DEF Counting
<1> DEFINE s2 == [s1 EXCEPT !.locked = b]
<1> HIDE DEF s1
<1>2. /\ s2 \in Counting
      /\ s2.order = r.order /\ s2.code = r.code /\ s2.todo = a /\ s2.locked = b
  BY <1>1 DEF Counting
<1> DEFINE s3 == [s2 EXCEPT !.used = n]
<1> HIDE DEF s2
<1>3. /\ s3 \in Counting
      /\ s3.order = r.order /\ s3.code = r.code
      /\ s3.todo = a /\ s3.locked = b /\ s3.used = n
  BY <1>2 DEF Counting
<1>4. s3 = Recounted(r, a, b, n)
  BY DEF Recounted, s1, s2
<1> HIDE DEF s3
<1> QED BY <1>3, <1>4

LEMMA TypesInit == Init => LedgerTypeOK
BY IdleTyped, CreatesAssumption DEF Init, LedgerTypeOK, NoPromo, NoUse

LEMMA TypesStep == LedgerTypeOK /\ [Next]_vars => LedgerTypeOK'
<1> SUFFICES ASSUME LedgerTypeOK, [Next]_vars PROVE LedgerTypeOK'
  OBVIOUS
<1> USE CreatesAssumption
<1>1. ASSUME NEW c \in Codes, NEW cap \in Caps, CreatePromotion(c, cap) PROVE LedgerTypeOK'
  BY <1>1 DEF CreatePromotion, LedgerTypeOK
<1>2. ASSUME NEW c \in Codes, DeletePromotion(c) PROVE LedgerTypeOK'
  BY <1>2 DEF DeletePromotion, NoPromo, LedgerTypeOK
<1>3. ASSUME NEW t \in Tx, NEW c \in Codes, NEW active \in BOOLEAN, NEW cap \in Caps,
             BeginUpdate(t, c, active, cap)
      PROVE LedgerTypeOK'
  <2>1. [at |-> "update", code |-> c, copy |-> [active |-> active, cap |-> cap]] \in TxStates
    BY DEF TxStates
  <2> QED BY <1>3, <2>1, GoTyped DEF BeginUpdate, LedgerTypeOK
<1>4. ASSUME NEW t \in Tx, SaveUpdate(t) PROVE LedgerTypeOK'
  <2>1. tx' \in [Tx -> TxStates]
    BY <1>4, GoTyped, IdleTyped DEF SaveUpdate, End
  <2>2. tx[t].code \in Codes /\ tx[t].copy \in [active : BOOLEAN, cap : Caps \cup {0}]
    BY <1>4, TxFields DEF SaveUpdate
  <2> QED BY <1>4, <2>1, <2>2 DEF SaveUpdate, LedgerTypeOK
<1>5. ASSUME NEW t \in Tx, NEW o \in Orders, NEW c \in Codes, BeginReserve(t, o, c)
      PROVE LedgerTypeOK'
  <2>1. [at |-> "find", order |-> o, code |-> c] \in TxStates
    BY DEF TxStates
  <2> QED BY <1>5, <2>1, GoTyped DEF BeginReserve, LedgerTypeOK
<1>6. ASSUME NEW t \in Tx, FindUse(t) PROVE LedgerTypeOK'
  <2>1. tx[t] \in [at : {"find", "promotion"}, order : Orders, code : Codes]
    BY <1>6, TxFields DEF FindUse
  <2>2. [tx[t] EXCEPT !.at = "promotion"] \in TxStates
    BY <2>1 DEF TxStates
  <2> QED BY <1>6, <2>2, GoTyped, IdleTyped DEF FindUse, End, LedgerTypeOK
<1>7. ASSUME NEW t \in Tx, LockPromotion(t) PROVE LedgerTypeOK'
  <2>1. tx[t].order \in Orders /\ tx[t].code \in Codes
    BY <1>7, TxFields DEF LockPromotion
  <2>2. [at |-> "count", order |-> tx[t].order, code |-> tx[t].code,
         todo |-> {o \in UsesOf(tx[t].code) : CustomerOf[o] = CustomerOf[tx[t].order]},
         locked |-> {}, used |-> 0] \in TxStates
    BY <2>1 DEF TxStates, UsesOf
  <2> QED BY <1>7, <2>2, GoTyped, IdleTyped DEF LockPromotion, End, LedgerTypeOK
<1>8. ASSUME NEW t \in Tx, NEW o \in Orders, LockUse(t, o) PROVE LedgerTypeOK'
  <2>1. tx[t] \in Counting
    BY <1>8, TxFields DEF LockUse, Counting
  <2> DEFINE n == IF Active(o) THEN tx[t].used + 1 ELSE tx[t].used
  <2>2. n \in Nat /\ tx[t].locked \cup {o} \in SUBSET Orders
           /\ tx[t].todo \ {o} \in SUBSET Orders
    BY <2>1 DEF Counting
  <2> HIDE DEF n
  <2>3. Recounted(tx[t], tx[t].todo \ {o}, tx[t].locked \cup {o}, n) \in TxStates
    BY <2>1, <2>2, CountingFields, InTxStates DEF Counting
  <2> QED BY <1>8, <2>3, GoTyped DEF LockUse, LedgerTypeOK, Recounted, n
<1>9. ASSUME NEW t \in Tx, InsertUse(t) PROVE LedgerTypeOK'
  <2>1. tx' \in [Tx -> TxStates]
    BY <1>9, GoTyped, IdleTyped DEF InsertUse, End
  <2>2. tx[t].order \in Orders /\ tx[t].code \in Codes
    BY <1>9, TxFields DEF InsertUse
  <2>3. CASE UNCHANGED <<promo, use>>
    BY <2>1, <2>3 DEF LedgerTypeOK
  <2>4. CASE /\ use' = [use EXCEPT ![tx[t].order] = [status |-> "reserved", code |-> tx[t].code]]
             /\ promo' = [promo EXCEPT ![tx[t].code].count = @ + 1]
    <3>1. promo[tx[t].code].count + 1 \in Nat
      BY <2>2 DEF LedgerTypeOK
    <3> QED BY <2>1, <2>2, <2>4, <3>1, CountTyped DEF LedgerTypeOK
  <2> QED BY <1>9, <2>3, <2>4 DEF InsertUse
<1>10. ASSUME NEW t \in Tx, NEW o \in Orders, NEW kind \in {"consume", "release"},
              Begin(t, o, kind)
       PROVE LedgerTypeOK'
  <2>1. [at |-> kind, order |-> o] \in TxStates
    BY DEF TxStates
  <2> QED BY <1>10, <2>1, GoTyped DEF Begin, LedgerTypeOK
<1>11. ASSUME NEW t \in Tx, ConsumeRow(t) PROVE LedgerTypeOK'
  <2>1. tx[t] \in [at : {"consume", "recount", "release", "discount"}, order : Orders]
    BY <1>11, TxFields DEF ConsumeRow
  <2>2. [tx[t] EXCEPT !.at = "recount"]
          \in [at : {"consume", "recount", "release", "discount"}, order : Orders]
    BY <2>1
  <2> QED BY <1>11, <2>1, <2>2, InTxStates, GoTyped, IdleTyped, StatusTyped DEF ConsumeRow, End, LedgerTypeOK
<1>12. ASSUME NEW t \in Tx, FinishConsume(t) PROVE LedgerTypeOK'
  <2>1. tx' \in [Tx -> TxStates]
    BY <1>12, GoTyped, IdleTyped DEF FinishConsume, End
  <2>2. tx[t].order \in Orders
    BY <1>12, TxFields DEF FinishConsume
  <2> DEFINE c == use[tx[t].order].code
             n == promo[use[tx[t].order].code].count + 1
  <2>3. c \in Codes => n \in Nat
    BY DEF LedgerTypeOK
  <2>4. promo' = [promo EXCEPT ![c].count = n] \/ UNCHANGED promo
    BY <1>12 DEF FinishConsume
  <2>5. promo' \in [Codes -> [exists : BOOLEAN, active : BOOLEAN, cap : Caps \cup {0},
                              count : Nat, made : 0..MaxCreates]]
    BY <2>3, <2>4, CountTyped DEF LedgerTypeOK
  <2> QED BY <1>12, <2>1, <2>2, <2>5, StatusTyped DEF FinishConsume, LedgerTypeOK
<1>13. ASSUME NEW t \in Tx, ReleaseRow(t) PROVE LedgerTypeOK'
  <2>1. tx[t] \in [at : {"consume", "recount", "release", "discount"}, order : Orders]
    BY <1>13, TxFields DEF ReleaseRow
  <2>2. [tx[t] EXCEPT !.at = "discount"]
          \in [at : {"consume", "recount", "release", "discount"}, order : Orders]
    BY <2>1
  <2> QED BY <1>13, <2>1, <2>2, InTxStates, GoTyped, IdleTyped DEF ReleaseRow, End, LedgerTypeOK
<1>14. ASSUME NEW t \in Tx, FinishRelease(t) PROVE LedgerTypeOK'
  <2>1. tx' \in [Tx -> TxStates]
    BY <1>14, GoTyped, IdleTyped DEF FinishRelease, End
  <2>2. tx[t].order \in Orders
    BY <1>14, TxFields DEF FinishRelease
  <2> DEFINE c == use[tx[t].order].code
             n == IF promo[use[tx[t].order].code].count > 0
                            THEN promo[use[tx[t].order].code].count - 1 ELSE 0
  <2>3. c \in Codes => n \in Nat
    BY DEF LedgerTypeOK
  <2>4. promo' = [promo EXCEPT ![c].count = n] \/ UNCHANGED promo
    BY <1>14 DEF FinishRelease
  <2>5. promo' \in [Codes -> [exists : BOOLEAN, active : BOOLEAN, cap : Caps \cup {0},
                              count : Nat, made : 0..MaxCreates]]
    BY <2>3, <2>4, CountTyped DEF LedgerTypeOK
  <2> QED BY <1>14, <2>1, <2>2, <2>5, StatusTyped DEF FinishRelease, LedgerTypeOK
<1>15. ASSUME NEW t \in Tx, AbortDeadlocked(t) \/ LoseTx(t) PROVE LedgerTypeOK'
  BY <1>15, GoTyped, IdleTyped DEF AbortDeadlocked, LoseTx, End, LedgerTypeOK
<1>16. CASE UNCHANGED vars
  BY <1>16 DEF vars, LedgerTypeOK
<1> QED BY <1>1, <1>2, <1>3, <1>4, <1>5, <1>6, <1>7, <1>8, <1>9, <1>10, <1>11, <1>12,
           <1>13, <1>14, <1>15, <1>16 DEF Next, Start, Proceed

----------------------------------------------------------------------------
(* What a step does to a row of the ledger, and to the uses of a code. *)

LEMMA StatusSet ==
  ASSUME LedgerTypeOK, NEW o \in Orders, NEW s, use' = [use EXCEPT ![o].status = s]
  PROVE  /\ use'[o].status = s /\ use'[o].code = use[o].code
         /\ \A q \in Orders \ {o} : use'[q] = use[q]
BY DEF LedgerTypeOK

LEMMA UsesFinite ==
  ASSUME NEW c
  PROVE  IsFiniteSet(UsesOf(c)) /\ Cardinality(UsesOf(c)) \in Nat
BY OrdersAssumption, FS_Subset, FS_CardinalityType DEF UsesOf

LEMMA UsesUnchanged ==
  ASSUME NEW c,
         \A q \in Orders : (Active(q)' /\ use'[q].code = c) <=> (Active(q) /\ use[q].code = c)
  PROVE  UsesOf(c)' = UsesOf(c)
BY DEF UsesOf, Active

LEMMA UseAdded ==
  ASSUME NEW o \in Orders, NEW c, ~ Active(o), Active(o)', use'[o].code = c,
         \A q \in Orders \ {o} : use'[q] = use[q]
  PROVE  /\ Cardinality(UsesOf(c)') = Cardinality(UsesOf(c)) + 1
         /\ \A d : d # c => UsesOf(d)' = UsesOf(d)
<1>1. UsesOf(c)' = UsesOf(c) \cup {o} /\ o \notin UsesOf(c)
  BY DEF UsesOf, Active
<1>2. \A d : d # c => UsesOf(d)' = UsesOf(d)
  BY DEF UsesOf, Active
<1> QED BY <1>1, <1>2, UsesFinite, FS_AddElement

LEMMA OnlyCountChanged ==
  ASSUME LedgerTypeOK, NEW k, NEW n, promo' = [promo EXCEPT ![k].count = n], NEW c \in Codes
  PROVE  promo'[c].exists = promo[c].exists /\ promo'[c].made = promo[c].made
BY DEF LedgerTypeOK

LEMMA UseRemoved ==
  ASSUME NEW o \in Orders, NEW c, Active(o), use[o].code = c, ~ Active(o)',
         \A q \in Orders \ {o} : use'[q] = use[q]
  PROVE  /\ Cardinality(UsesOf(c)') = Cardinality(UsesOf(c)) - 1
         /\ Cardinality(UsesOf(c)) > 0
         /\ \A d : d # c => UsesOf(d)' = UsesOf(d)
<1>1. UsesOf(c)' = UsesOf(c) \ {o} /\ o \in UsesOf(c)
  BY DEF UsesOf, Active
<1>2. \A d : d # c => UsesOf(d)' = UsesOf(d)
  BY DEF UsesOf, Active
<1>3. Cardinality(UsesOf(c)') = Cardinality(UsesOf(c)) - 1
  <2>1. IsFiniteSet(UsesOf(c))
    BY UsesFinite
  <2>2. Cardinality(UsesOf(c) \ {o}) = Cardinality(UsesOf(c)) - 1
    BY <1>1, <2>1, FS_RemoveElement, Zenon
  <2> QED BY <1>1, <2>2
<1>4. Cardinality(UsesOf(c)) # 0
  BY <1>1, UsesFinite, FS_EmptySet
<1> QED BY <1>2, <1>3, <1>4, UsesFinite

----------------------------------------------------------------------------
(* The ledger names codes that were created. *)

LEMMA NamedInit == Init => UsesAreNamed
BY DEF Init, UsesAreNamed, NoPromo, NoUse, Idle

\* What keeps the ledger named: no row and no code forgets that it was there,
\* and who goes for a row has seen it.
LEMMA NamedKept ==
  ASSUME UsesAreNamed, LedgerTypeOK, LedgerTypeOK',
         \A c \in Codes :
           /\ promo[c].made > 0 => promo'[c].made > 0
           /\ promo'[c].exists => promo'[c].made > 0,
         \A o \in Orders :
              use'[o] # use[o]
                => /\ use'[o].status # "none" /\ use'[o].code \in Codes
                   /\ promo[use'[o].code].made > 0,
         \A t \in Tx : tx'[t].at \in {"consume", "recount", "release", "discount"}
                        => tx'[t].order \in Orders /\ use[tx'[t].order].status # "none"
  PROVE  UsesAreNamed'
<1>1. ASSUME NEW o \in Orders
      PROVE  /\ use'[o].status = "none" => use'[o].code = NoCode
             /\ use'[o].status # "none"
                  => use'[o].code \in Codes /\ promo'[use'[o].code].made > 0
  BY DEF UsesAreNamed
<1>2. \A o \in Orders : use[o].status # "none" => use'[o].status # "none"
  OBVIOUS
<1>3. \A t \in Tx : tx'[t].at \in {"consume", "recount", "release", "discount"}
                     => use'[tx'[t].order].status # "none"
  BY <1>2
<1> QED BY <1>1, <1>3 DEF UsesAreNamed, NoUse

LEMMA NamedStep == LedgerInv /\ LedgerTypeOK' /\ [Next]_vars => UsesAreNamed'
<1> SUFFICES ASSUME LedgerInv, LedgerTypeOK', [Next]_vars PROVE UsesAreNamed'
  OBVIOUS
<1> USE DEF LedgerInv
<1> DEFINE CodesNamed == \A c \in Codes :
              /\ promo[c].made > 0 => promo'[c].made > 0
              /\ promo'[c].exists => promo'[c].made > 0
           RowsNamed == \A o \in Orders :
              use'[o] # use[o]
                => /\ use'[o].status # "none" /\ use'[o].code \in Codes
                   /\ promo[use'[o].code].made > 0
           TakersSee == \A t \in Tx :
              tx'[t].at \in {"consume", "recount", "release", "discount"}
                => tx'[t].order \in Orders /\ use[tx'[t].order].status # "none"
<1>0. CodesNamed /\ RowsNamed /\ TakersSee => UsesAreNamed'
  BY NamedKept
<1>a. UNCHANGED promo => CodesNamed
  BY DEF UsesAreNamed
<1>b. UNCHANGED use => RowsNamed
  OBVIOUS
<1>c. ASSUME NEW t \in Tx, NEW s, Go(t, s),
             s.at \in {"consume", "recount", "release", "discount"}
                => s.order \in Orders /\ use[s.order].status # "none"
      PROVE TakersSee
  <2>1. ASSUME NEW u \in Tx
        PROVE  tx'[u].at \in {"consume", "recount", "release", "discount"}
                 => tx'[u].order \in Orders /\ use[tx'[u].order].status # "none"
    <3>1. CASE u = t
      BY <1>c, <3>1 DEF Go, LedgerTypeOK
    <3>2. CASE u # t
      BY <1>c, <3>2, TxFields DEF Go, LedgerTypeOK, UsesAreNamed
    <3> QED BY <3>1, <3>2
  <2> QED BY <2>1
<1>d. ASSUME NEW t \in Tx, End(t) PROVE TakersSee
  BY <1>c, <1>d DEF End, Idle
<1> HIDE DEF TakersSee
<1>1. ASSUME NEW c \in Codes, NEW cap \in Caps, CreatePromotion(c, cap) PROVE UsesAreNamed'
  <2>1. CodesNamed
    BY <1>1, CreatesAssumption DEF CreatePromotion, LedgerTypeOK, UsesAreNamed
  <2>2. TakersSee
    BY <1>1, TxFields DEF CreatePromotion, TakersSee, UsesAreNamed
  <2> QED BY <1>0, <1>b, <1>1, <2>1, <2>2 DEF CreatePromotion
<1>2. ASSUME NEW c \in Codes, DeletePromotion(c) PROVE UsesAreNamed'
  <2>1. CodesNamed
    BY <1>2 DEF DeletePromotion, NoPromo, LedgerTypeOK, UsesAreNamed
  <2>2. TakersSee
    BY <1>2, TxFields DEF DeletePromotion, TakersSee, UsesAreNamed
  <2> QED BY <1>0, <1>b, <1>2, <2>1, <2>2 DEF DeletePromotion
<1>3. ASSUME NEW t \in Tx, SaveUpdate(t) PROVE UsesAreNamed'
  <2>1. CodesNamed
    BY <1>3 DEF SaveUpdate, LedgerTypeOK, UsesAreNamed
  <2> QED BY <1>0, <1>b, <1>d, <1>3, <2>1 DEF SaveUpdate
<1>4. ASSUME NEW t \in Tx, Start(t) PROVE UsesAreNamed'
  <2>1. ASSUME NEW o \in Orders, NEW kind, Begin(t, o, kind) PROVE TakersSee
    <3>1. use[o].status # "none"
      BY <2>1 DEF Begin, UsesAreNamed, LedgerTypeOK, NoUse
    <3> QED BY <1>c, <2>1, <3>1 DEF Begin
  <2>2. ASSUME NEW o \in Orders, NEW c \in Codes, BeginReserve(t, o, c) PROVE TakersSee
    BY <1>c, <2>2 DEF BeginReserve
  <2>3. ASSUME NEW c, NEW active, NEW cap, BeginUpdate(t, c, active, cap) PROVE TakersSee
    BY <1>c, <2>3 DEF BeginUpdate
  <2>4. TakersSee
    BY <1>4, <2>1, <2>2, <2>3 DEF Start
  <2> QED BY <1>0, <1>a, <1>b, <1>4, <2>4 DEF Start, Begin, BeginReserve, BeginUpdate
<1>5. ASSUME NEW t \in Tx,
             FindUse(t) \/ LockPromotion(t) \/ (\E o \in Orders : LockUse(t, o))
               \/ AbortDeadlocked(t) \/ LoseTx(t)
      PROVE UsesAreNamed'
  <2>1. CASE FindUse(t)
    <3>1. tx[t] \in [at : {"find", "promotion"}, order : Orders, code : Codes]
      BY <2>1, TxFields DEF FindUse
    <3> QED BY <1>0, <1>a, <1>b, <1>c, <1>d, <2>1, <3>1 DEF FindUse
  <2>2. CASE LockPromotion(t)
    BY <1>0, <1>a, <1>b, <1>c, <1>d, <2>2 DEF LockPromotion
  <2>3. ASSUME NEW o \in Orders, LockUse(t, o) PROVE UsesAreNamed'
    <3>1. tx[t] \in Counting
      BY <2>3, TxFields DEF LockUse, Counting
    <3> QED BY <1>0, <1>a, <1>b, <1>c, <2>3, <3>1 DEF LockUse, Counting
  <2>4. CASE AbortDeadlocked(t) \/ LoseTx(t)
    BY <1>0, <1>a, <1>b, <1>d, <2>4 DEF AbortDeadlocked, LoseTx
  <2> QED BY <1>5, <2>1, <2>2, <2>3, <2>4
<1>6. ASSUME NEW t \in Tx, InsertUse(t) PROVE UsesAreNamed'
  <2>1. tx[t].code \in Codes /\ promo[tx[t].code].made > 0 /\ tx[t].order \in Orders
    BY <1>6, TxFields DEF InsertUse, ReadsHold, PromoHeld, UsesAreNamed
  <2>2. RowsNamed
    BY <1>6, <2>1 DEF InsertUse, LedgerTypeOK
  <2>3. CodesNamed
    BY <1>6, <2>1 DEF InsertUse, LedgerTypeOK, UsesAreNamed
  <2> QED BY <1>0, <1>d, <1>6, <2>2, <2>3 DEF InsertUse
<1>7. ASSUME NEW t \in Tx, ConsumeRow(t) \/ ReleaseRow(t) PROVE UsesAreNamed'
  <2>1. /\ tx[t] \in [at : {"consume", "recount", "release", "discount"}, order : Orders]
        /\ use[tx[t].order].status # "none"
    BY <1>7, TxFields DEF ConsumeRow, ReleaseRow, UsesAreNamed
  <2>2. RowsNamed
    <3>1. UNCHANGED use \/ use' = [use EXCEPT ![tx[t].order].status = "consumed"]
      BY <1>7 DEF ConsumeRow, ReleaseRow
    <3>2. CASE use' = [use EXCEPT ![tx[t].order].status = "consumed"]
      <4>1. /\ use'[tx[t].order].status = "consumed"
            /\ use'[tx[t].order].code = use[tx[t].order].code
            /\ \A q \in Orders \ {tx[t].order} : use'[q] = use[q]
        BY <2>1, <3>2, StatusSet
      <4> QED BY <2>1, <4>1 DEF UsesAreNamed
    <3> QED BY <3>1, <3>2
  <2>3. TakersSee
    BY <1>7, <1>c, <1>d, <2>1 DEF ConsumeRow, ReleaseRow
  <2> QED BY <1>0, <1>a, <1>7, <2>2, <2>3 DEF ConsumeRow, ReleaseRow
<1>8. ASSUME NEW t \in Tx, FinishConsume(t) \/ FinishRelease(t) PROVE UsesAreNamed'
  <2>1. /\ tx[t].order \in Orders
        /\ use[tx[t].order].status # "none"
    BY <1>8, TxFields DEF FinishConsume, FinishRelease, UsesAreNamed
  <2>2. RowsNamed
    <3>1. PICK s \in {"consumed", "released"} : use' = [use EXCEPT ![tx[t].order].status = s]
      BY <1>8 DEF FinishConsume, FinishRelease
    <3>2. /\ use'[tx[t].order].status = s
          /\ use'[tx[t].order].code = use[tx[t].order].code
          /\ \A q \in Orders \ {tx[t].order} : use'[q] = use[q]
      BY <2>1, <3>1, StatusSet
    <3> QED BY <2>1, <3>2 DEF UsesAreNamed
  <2>3. CodesNamed
    <3>1. \A c \in Codes : promo'[c].exists = promo[c].exists /\ promo'[c].made = promo[c].made
      <4>1. UNCHANGED promo \/ \E k, n : promo' = [promo EXCEPT ![k].count = n]
        <5>1. CASE FinishConsume(t)
          BY <5>1, Zenon DEF FinishConsume
        <5>2. CASE FinishRelease(t)
          BY <5>2, Zenon DEF FinishRelease
        <5> QED BY <1>8, <5>1, <5>2
      <4> QED BY <4>1, OnlyCountChanged
    <3> QED BY <3>1 DEF UsesAreNamed
  <2> QED BY <1>0, <1>d, <1>8, <2>2, <2>3 DEF FinishConsume, FinishRelease
<1>9. CASE UNCHANGED vars
  BY <1>9 DEF vars, UsesAreNamed
<1> QED BY <1>1, <1>2, <1>3, <1>4, <1>5, <1>6, <1>7, <1>8, <1>9 DEF Next, Proceed

----------------------------------------------------------------------------
(* A row is locked by one transaction at a time. *)

LEMMA LocksInit == Init => LocksExclude
BY DEF Init, LocksExclude, HoldsPromo, HoldsUse, Idle

\* A step of one transaction that takes only locks nobody else holds.
LEMMA LocksKept ==
  ASSUME LocksExclude, NEW t \in Tx, \A u \in Tx \ {t} : tx'[u] = tx[u],
         \A c \in Codes : HoldsPromo(t, c)' => HoldsPromo(t, c) \/ ~ PromoLocked(t, c),
         \A o \in Orders : HoldsUse(t, o)' => HoldsUse(t, o) \/ ~ UseLocked(t, o)
  PROVE  LocksExclude'
<1>1. \A u \in Tx \ {t}, c \in Codes : HoldsPromo(u, c)' <=> HoldsPromo(u, c)
  BY DEF HoldsPromo
<1>2. \A u \in Tx \ {t}, o \in Orders : HoldsUse(u, o)' <=> HoldsUse(u, o)
  BY DEF HoldsUse
<1>3. ASSUME NEW u \in Tx, NEW v \in Tx, NEW c \in Codes,
             HoldsPromo(u, c)', HoldsPromo(v, c)', u # v
      PROVE FALSE
  BY <1>1, <1>3 DEF LocksExclude, PromoLocked
<1>4. ASSUME NEW u \in Tx, NEW v \in Tx, NEW o \in Orders,
             HoldsUse(u, o)', HoldsUse(v, o)', u # v
      PROVE FALSE
  BY <1>2, <1>4 DEF LocksExclude, UseLocked
<1> QED BY <1>3, <1>4 DEF LocksExclude

LEMMA LocksStep == LedgerInv /\ [Next]_vars => LocksExclude'
<1> SUFFICES ASSUME LedgerInv, [Next]_vars PROVE LocksExclude'
  OBVIOUS
<1> USE DEF LedgerInv
\* A transaction that holds nothing afterwards ...
<1>a. ASSUME NEW t \in Tx, NEW s, Go(t, s), s.at \notin {"count", "recount", "discount"}
      PROVE LocksExclude'
  <2>1. tx'[t] = s /\ \A u \in Tx \ {t} : tx'[u] = tx[u]
    BY <1>a DEF Go, LedgerTypeOK
  <2>2. /\ \A c \in Codes : ~ HoldsPromo(t, c)'
        /\ \A o \in Orders : ~ HoldsUse(t, o)'
    BY <1>a, <2>1 DEF HoldsPromo, HoldsUse
  <2> QED BY <2>1, <2>2, LocksKept
\* ... as one that ends.
<1>b. ASSUME NEW t \in Tx, End(t) PROVE LocksExclude'
  BY <1>a, <1>b DEF End, Idle
<1>1. ASSUME UNCHANGED tx PROVE LocksExclude'
  BY <1>1 DEF LocksExclude, HoldsPromo, HoldsUse
<1>2. ASSUME NEW t \in Tx, Start(t) PROVE LocksExclude'
  BY <1>2, <1>a DEF Start, Begin, BeginReserve, BeginUpdate
<1>3. ASSUME NEW t \in Tx, FindUse(t) PROVE LocksExclude'
  <2>1. tx[t] \in [at : {"find", "promotion"}, order : Orders, code : Codes]
    BY <1>3, TxFields DEF FindUse
  <2> QED BY <1>3, <1>a, <1>b, <2>1 DEF FindUse
<1>4. ASSUME NEW t \in Tx, LockPromotion(t) PROVE LocksExclude'
  <2>1. CASE Refuses(tx[t].code)
    BY <1>4, <1>b, <2>1 DEF LockPromotion
  <2>2. CASE ~ Refuses(tx[t].code)
    <3>1. /\ tx'[t].at = "count" /\ tx'[t].code = tx[t].code /\ tx'[t].locked = {}
          /\ \A u \in Tx \ {t} : tx'[u] = tx[u]
      BY <1>4, <2>2 DEF LockPromotion, Go, LedgerTypeOK
    <3>2. \A c \in Codes : HoldsPromo(t, c)' => ~ PromoLocked(t, c)
      BY <1>4, <3>1 DEF LockPromotion, HoldsPromo
    <3>3. \A o \in Orders : ~ HoldsUse(t, o)'
      BY <3>1 DEF HoldsUse
    <3> QED BY <3>1, <3>2, <3>3, LocksKept
  <2> QED BY <2>1, <2>2
<1>5. ASSUME NEW t \in Tx, NEW o \in Orders, LockUse(t, o) PROVE LocksExclude'
  <2>1. tx[t] \in Counting
    BY <1>5, TxFields DEF LockUse, Counting
  <2>2. /\ tx'[t].at = "count" /\ tx'[t].code = tx[t].code
        /\ tx'[t].locked = tx[t].locked \cup {o}
        /\ \A u \in Tx \ {t} : tx'[u] = tx[u]
    BY <1>5, <2>1 DEF LockUse, Go, LedgerTypeOK, Counting
  <2>3. \A c \in Codes : HoldsPromo(t, c)' => HoldsPromo(t, c)
    BY <1>5, <2>2 DEF LockUse, HoldsPromo
  <2>4. \A q \in Orders : HoldsUse(t, q)' => HoldsUse(t, q) \/ ~ UseLocked(t, q)
    BY <1>5, <2>2 DEF LockUse, HoldsUse
  <2> QED BY <2>2, <2>3, <2>4, LocksKept
<1>6. ASSUME NEW t \in Tx, ConsumeRow(t) \/ ReleaseRow(t) PROVE LocksExclude'
  <2>1. tx[t] \in [at : {"consume", "recount", "release", "discount"}, order : Orders]
    BY <1>6, TxFields DEF ConsumeRow, ReleaseRow
  <2>2. CASE End(t)
    BY <1>b, <2>2
  <2>3. ASSUME NEW s \in {"recount", "discount"}, Go(t, [tx[t] EXCEPT !.at = s])
        PROVE LocksExclude'
    <3>1. /\ tx'[t].at = s /\ tx'[t].order = tx[t].order
          /\ \A u \in Tx \ {t} : tx'[u] = tx[u]
      BY <2>1, <2>3 DEF Go, LedgerTypeOK
    <3>2. \A c \in Codes : ~ HoldsPromo(t, c)'
      BY <3>1 DEF HoldsPromo
    <3>3. \A o \in Orders : HoldsUse(t, o)' => ~ UseLocked(t, o)
      BY <1>6, <3>1 DEF ConsumeRow, ReleaseRow, HoldsUse
    <3> QED BY <3>1, <3>2, <3>3, LocksKept
  <2> QED BY <1>6, <2>2, <2>3 DEF ConsumeRow, ReleaseRow
<1> QED
  BY <1>1, <1>2, <1>3, <1>4, <1>5, <1>6, <1>b
     DEF Next, Proceed, CreatePromotion, DeletePromotion, SaveUpdate, InsertUse, FinishConsume,
         FinishRelease, AbortDeadlocked, LoseTx, vars

----------------------------------------------------------------------------
(* What a transaction read under its locks stays so. *)

\* How a transaction comes to hold a lock.
LEMMA NewLocks ==
  ASSUME LedgerInv, [Next]_vars, NEW u \in Tx
  PROVE  /\ tx'[u].at = "count" => \/ tx'[u] = tx[u]
                                   \/ LockPromotion(u) /\ ~ Refuses(tx[u].code)
                                   \/ \E o \in Orders : LockUse(u, o)
         /\ tx'[u].at = "discount" => \/ tx'[u] = tx[u]
                                      \/ ReleaseRow(u) /\ Active(tx[u].order)
         /\ tx'[u].at = "recount" => \/ tx'[u] = tx[u]
                                     \/ ConsumeRow(u) /\ use[tx[u].order].status = "released"
<1> USE DEF LedgerInv
<1> DEFINE New == /\ tx'[u].at = "count" => \/ tx'[u] = tx[u]
                                            \/ LockPromotion(u) /\ ~ Refuses(tx[u].code)
                                            \/ \E o \in Orders : LockUse(u, o)
                  /\ tx'[u].at = "discount" => \/ tx'[u] = tx[u]
                                               \/ ReleaseRow(u) /\ Active(tx[u].order)
                  /\ tx'[u].at = "recount" =>
                       \/ tx'[u] = tx[u]
                       \/ ConsumeRow(u) /\ use[tx[u].order].status = "released"
<1>a. ASSUME NEW t \in Tx, NEW s, Go(t, s), s.at \notin {"count", "recount", "discount"}
      PROVE New
  BY <1>a DEF Go, LedgerTypeOK
<1>b. ASSUME NEW t \in Tx, End(t) PROVE New
  BY <1>a, <1>b DEF End, Idle
<1>c. ASSUME NEW t \in Tx, t # u, NEW s, Go(t, s) PROVE New
  BY <1>c DEF Go, LedgerTypeOK
<1>1. ASSUME UNCHANGED tx PROVE New
  BY <1>1
<1>2. ASSUME NEW t \in Tx, Start(t) PROVE New
  BY <1>2, <1>a DEF Start, Begin, BeginReserve, BeginUpdate
<1>3. ASSUME NEW t \in Tx, FindUse(t) PROVE New
  <2>1. tx[t] \in [at : {"find", "promotion"}, order : Orders, code : Codes]
    BY <1>3, TxFields DEF FindUse
  <2> QED BY <1>3, <1>a, <1>b, <2>1 DEF FindUse
<1>4. ASSUME NEW t \in Tx, LockPromotion(t) PROVE New
  <2>1. CASE Refuses(tx[t].code)
    BY <1>4, <1>b, <2>1 DEF LockPromotion
  <2>2. CASE ~ Refuses(tx[t].code) /\ t # u
    BY <1>4, <1>c, <2>2 DEF LockPromotion
  <2>3. CASE ~ Refuses(tx[t].code) /\ t = u
    BY <1>4, <2>3 DEF LockPromotion, Go, LedgerTypeOK
  <2> QED BY <2>1, <2>2, <2>3
<1>5. ASSUME NEW t \in Tx, NEW o \in Orders, LockUse(t, o) PROVE New
  <2>1. tx[t] \in Counting
    BY <1>5, TxFields DEF LockUse, Counting
  <2>2. tx'[t].at = "count"
    BY <1>5, <2>1 DEF LockUse, Go, LedgerTypeOK, Counting
  <2> QED BY <1>5, <1>c, <2>2 DEF LockUse
<1>6. ASSUME NEW t \in Tx, ConsumeRow(t) \/ ReleaseRow(t) PROVE New
  <2>1. tx[t] \in [at : {"consume", "recount", "release", "discount"}, order : Orders]
    BY <1>6, TxFields DEF ConsumeRow, ReleaseRow
  <2>2. CASE End(t)
    BY <1>b, <2>2
  <2>3. CASE t # u
    BY <1>6, <1>b, <1>c, <2>3 DEF ConsumeRow, ReleaseRow
  <2>4. CASE t = u /\ ~ End(t)
    BY <1>6, <2>1, <2>4 DEF ConsumeRow, ReleaseRow, Go, LedgerTypeOK
  <2> QED BY <2>2, <2>3, <2>4
<1> QED
  BY <1>1, <1>2, <1>3, <1>4, <1>5, <1>6, <1>b
     DEF Next, Proceed, CreatePromotion, DeletePromotion, SaveUpdate, InsertUse, FinishConsume,
         FinishRelease, AbortDeadlocked, LoseTx, vars

\* A locked promotion, and which of its uses stand, change with its holder only.
LEMMA HeldCodeStays ==
  ASSUME LedgerInv, [Next]_vars, NEW u \in Tx, tx[u].at = "count", tx'[u].at = "count",
         NEW c, c = tx[u].code
  PROVE  /\ promo'[c].exists = promo[c].exists
         /\ promo'[c].count = promo[c].count /\ promo'[c].cap = promo[c].cap
         /\ UsesOf(c)' = UsesOf(c)
<1> USE DEF LedgerInv
<1> DEFINE Stays == /\ promo'[c].exists = promo[c].exists
                    /\ promo'[c].count = promo[c].count /\ promo'[c].cap = promo[c].cap
                    /\ UsesOf(c)' = UsesOf(c)
<1>a. UNCHANGED use => UsesOf(c)' = UsesOf(c)
  BY DEF UsesOf, Active
<1>b. /\ c \in Codes /\ HoldsPromo(u, c)
      /\ promo[c].exists
  BY TxFields DEF ReadsHold, PromoHeld, HoldsPromo
<1>c. ASSUME NEW t \in Tx, tx'[t] = Idle PROVE t # u
  BY <1>c DEF Idle
<1>d. ASSUME NEW t \in Tx, End(t) PROVE t # u
  BY <1>c, <1>d DEF End, Go, LedgerTypeOK
<1>1. ASSUME UNCHANGED <<promo, use>> PROVE Stays
  BY <1>1, <1>a
<1>2. ASSUME NEW c2 \in Codes, NEW cap \in Caps, CreatePromotion(c2, cap) PROVE Stays
  BY <1>2, <1>a, <1>b DEF CreatePromotion, LedgerTypeOK
<1>3. ASSUME NEW c2 \in Codes, DeletePromotion(c2) PROVE Stays
  BY <1>3, <1>a, <1>b DEF DeletePromotion, LedgerTypeOK
<1>4. ASSUME NEW t \in Tx, SaveUpdate(t) PROVE Stays
  <2>1. tx[t].code # c
    BY <1>4, <1>b, <1>d DEF SaveUpdate, PromoLocked
  <2> QED BY <1>4, <1>a, <1>b, <2>1 DEF SaveUpdate, LedgerTypeOK
<1>5. ASSUME NEW t \in Tx, InsertUse(t) PROVE Stays
  <2>1. tx[t].code # c /\ tx[t].order \in Orders /\ tx[t].code \in Codes
    BY <1>5, <1>b, <1>d, TxFields DEF InsertUse, HoldsPromo, LocksExclude
  <2>2. CASE UNCHANGED <<promo, use>>
    BY <1>1, <2>2
  <2>3. CASE /\ use[tx[t].order] = NoUse
             /\ use' = [use EXCEPT ![tx[t].order] = [status |-> "reserved", code |-> tx[t].code]]
             /\ promo' = [promo EXCEPT ![tx[t].code].count = @ + 1]
    <3>0. \A q \in Orders : (Active(q)' /\ use'[q].code = c) <=> (Active(q) /\ use[q].code = c)
      BY <2>1, <2>3 DEF Active, NoUse, LedgerTypeOK
    <3>1. UsesOf(c)' = UsesOf(c)
      BY <3>0, UsesUnchanged
    <3> QED BY <1>b, <2>1, <2>3, <3>1 DEF LedgerTypeOK
  <2> QED BY <1>5, <2>2, <2>3 DEF InsertUse
<1>6. ASSUME NEW t \in Tx, ConsumeRow(t) PROVE Stays
  <2> DEFINE o == tx[t].order
  <2>1. o \in Orders /\ use[o].status # "none"
    BY <1>6, TxFields DEF ConsumeRow, UsesAreNamed
  <2>2. CASE use' = [use EXCEPT ![o].status = "consumed"] /\ use[o].status # "released"
    <3>1. /\ use'[o].status = "consumed" /\ use'[o].code = use[o].code
          /\ \A q \in Orders \ {o} : use'[q] = use[q]
      BY <2>1, <2>2, StatusSet
    <3>2. Active(o) /\ use'[o].status \in {"reserved", "consumed"}
      BY <2>1, <2>2, <3>1 DEF Active, LedgerTypeOK
    <3>3. \A q \in Orders : (Active(q)' /\ use'[q].code = c) <=> (Active(q) /\ use[q].code = c)
      BY <3>1, <3>2 DEF Active
    <3>4. UsesOf(c)' = UsesOf(c)
      BY <3>3, UsesUnchanged
    <3> QED BY <1>6, <3>4 DEF ConsumeRow
  <2> QED BY <1>6, <1>1, <2>2 DEF ConsumeRow
<1>7. ASSUME NEW t \in Tx, FinishConsume(t) \/ FinishRelease(t) PROVE Stays
  <2> DEFINE o == tx[t].order
  <2>1. o \in Orders /\ use[o].code # c
    BY <1>7, <1>b, <1>d, TxFields DEF FinishConsume, FinishRelease, PromoLocked
  <2>2. PICK s \in {"consumed", "released"} : use' = [use EXCEPT ![o].status = s]
    BY <1>7 DEF FinishConsume, FinishRelease
  <2>3. /\ use'[o].code = use[o].code
        /\ \A q \in Orders \ {o} : use'[q] = use[q]
    BY <2>1, <2>2, StatusSet
  <2>4. \A q \in Orders : (Active(q)' /\ use'[q].code = c) <=> (Active(q) /\ use[q].code = c)
    BY <2>1, <2>3 DEF Active
  <2>5. UsesOf(c)' = UsesOf(c)
    BY <2>4, UsesUnchanged
  <2>6. promo'[c] = promo[c]
    BY <1>7, <1>b, <2>1 DEF FinishConsume, FinishRelease, LedgerTypeOK
  <2> QED BY <2>5, <2>6
<1> QED
  BY <1>1, <1>2, <1>3, <1>4, <1>5, <1>6, <1>7
     DEF Next, Start, Proceed, Begin, BeginReserve, BeginUpdate, FindUse, LockPromotion, LockUse,
         ReleaseRow, AbortDeadlocked, LoseTx, vars

\* A row of the ledger changes with the transaction that has it locked only.
LEMMA HeldRowStays ==
  ASSUME LedgerInv, [Next]_vars, NEW u \in Tx,
         tx[u].at \in {"recount", "discount"}, tx'[u] = tx[u]
  PROVE  use'[tx[u].order] = use[tx[u].order]
<1> USE DEF LedgerInv
<1> DEFINE o == tx[u].order
<1>b. /\ o \in Orders /\ HoldsUse(u, o) /\ use[o].status # "none"
  BY TxFields DEF UsesAreNamed, HoldsUse
<1>d. ASSUME NEW t \in Tx, End(t) PROVE t # u
  BY <1>d DEF End, Go, LedgerTypeOK, Idle
<1> HIDE DEF o
<1>1. ASSUME UNCHANGED use PROVE use'[o] = use[o]
  BY <1>1
<1>2. ASSUME NEW t \in Tx, InsertUse(t) PROVE use'[o] = use[o]
  BY <1>2, <1>b DEF InsertUse, NoUse, LedgerTypeOK
<1>3. ASSUME NEW t \in Tx, ConsumeRow(t) PROVE use'[o] = use[o]
  <2>1. CASE End(t)
    <3>1. t # u /\ tx[t].order # o
      BY <1>3, <1>b, <1>d, <2>1 DEF ConsumeRow, UseLocked
    <3> QED BY <1>3, <1>b, <3>1 DEF ConsumeRow, LedgerTypeOK
  <2> QED BY <1>3, <2>1 DEF ConsumeRow
<1>4. ASSUME NEW t \in Tx, FinishConsume(t) \/ FinishRelease(t) PROVE use'[o] = use[o]
  <2>1. tx[t].order \in Orders /\ HoldsUse(t, tx[t].order)
    BY <1>4, TxFields DEF FinishConsume, FinishRelease, HoldsUse
  <2>2. t # u /\ tx[t].order # o
    BY <1>4, <1>b, <1>d, <2>1 DEF FinishConsume, FinishRelease, LocksExclude
  <2> QED BY <1>4, <1>b, <2>2 DEF FinishConsume, FinishRelease, LedgerTypeOK
<1> QED
  BY <1>1, <1>2, <1>3, <1>4
     DEF Next, Start, Proceed, Begin, BeginReserve, BeginUpdate, FindUse, LockPromotion, LockUse,
         ReleaseRow, AbortDeadlocked, LoseTx, vars, o, CreatePromotion, DeletePromotion, SaveUpdate

LEMMA ReadsInit == Init => ReadsHold
BY DEF Init, ReadsHold, Idle

LEMMA ReadsStep == LedgerInv /\ [Next]_vars => ReadsHold'
<1> SUFFICES ASSUME LedgerInv, [Next]_vars, NEW u \in Tx
             PROVE  /\ tx'[u].at = "count" => PromoHeld(u)'
                    /\ tx'[u].at = "discount" => use'[tx'[u].order].status \in {"reserved", "consumed"}
                    /\ tx'[u].at = "recount" => use'[tx'[u].order].status = "released"
  BY DEF ReadsHold, Active
<1> USE DEF LedgerInv
\* What a holder found follows from what it carries and from its promotion's row.
<1>a. ASSUME NEW c, NEW o, tx'[u].code = c, tx'[u].order = o,
             promo'[c].exists, promo'[c].count < promo'[c].cap,
             \A q : q \in tx'[u].todo \cup tx'[u].locked
                     <=> q \in UsesOf(c)' /\ CustomerOf[q] = CustomerOf[o],
             tx'[u].todo \cap tx'[u].locked = {},
             tx'[u].used = Cardinality(tx'[u].locked)
      PROVE PromoHeld(u)'
  BY <1>a DEF PromoHeld, Mine
<1>1. ASSUME tx'[u].at = "count" PROVE PromoHeld(u)'
  <2>1. CASE tx'[u] = tx[u]
    <3>1. PICK c : c = tx[u].code
      OBVIOUS
    <3>2. PICK o : o = tx[u].order
      OBVIOUS
    <3>3. /\ promo[c].exists /\ promo[c].count < promo[c].cap
          /\ \A q : q \in tx[u].todo \cup tx[u].locked
                    <=> q \in UsesOf(c) /\ CustomerOf[q] = CustomerOf[o]
          /\ tx[u].todo \cap tx[u].locked = {}
          /\ tx[u].used = Cardinality(tx[u].locked)
      BY <1>1, <2>1, <3>1, <3>2 DEF ReadsHold, PromoHeld, Mine
    <3>4. /\ promo'[c].exists = promo[c].exists
          /\ promo'[c].count = promo[c].count /\ promo'[c].cap = promo[c].cap
          /\ UsesOf(c)' = UsesOf(c)
      <4>1. tx[u].at = "count"
        BY <1>1, <2>1
      <4> QED BY <1>1, <3>1, <4>1, HeldCodeStays
    <3>5. /\ tx'[u].code = c /\ tx'[u].order = o
          /\ promo'[c].exists /\ promo'[c].count < promo'[c].cap
      BY <2>1, <3>1, <3>2, <3>3, <3>4
    <3>6. \A q : q \in tx'[u].todo \cup tx'[u].locked
                  <=> q \in UsesOf(c)' /\ CustomerOf[q] = CustomerOf[o]
      BY <2>1, <3>3, <3>4
    <3>7. /\ tx'[u].todo \cap tx'[u].locked = {}
          /\ tx'[u].used = Cardinality(tx'[u].locked)
      BY <2>1, <3>3
    <3> QED BY <1>a, <3>5, <3>6, <3>7
  <2>2. CASE LockPromotion(u) /\ ~ Refuses(tx[u].code)
    <3>1. PICK c : c = tx[u].code
      OBVIOUS
    <3>2. PICK o : o = tx[u].order
      OBVIOUS
    <3>3. /\ tx'[u].code = c /\ tx'[u].order = o
          /\ tx'[u].todo = {q \in UsesOf(c) : CustomerOf[q] = CustomerOf[o]}
          /\ tx'[u].locked = {} /\ tx'[u].used = 0
          /\ UNCHANGED <<promo, use>>
      BY <2>2, <3>1, <3>2 DEF LockPromotion, Go, LedgerTypeOK
    <3>4. promo[c].exists /\ promo[c].count < promo[c].cap
      <4>1. promo[c].count \in Nat /\ promo[c].cap \in Nat
        <5>1. c \in Codes
          BY <2>2, <3>1, TxFields DEF LockPromotion
        <5>2. promo[c].count \in Nat /\ promo[c].cap \in Caps \cup {0}
          BY <5>1 DEF LedgerTypeOK
        <5>3. Caps \cup {0} \subseteq Nat
          BY OrdersAssumption
        <5> QED BY <5>2, <5>3
      <4> QED BY <2>2, <3>1, <4>1 DEF Refuses
    <3>5. UsesOf(c)' = UsesOf(c)
      BY <3>3 DEF UsesOf, Active
    <3>6. tx'[u].used = Cardinality(tx'[u].locked)
      BY <3>3, FS_EmptySet
    <3> QED BY <1>a, <3>3, <3>4, <3>5, <3>6
  <2>3. ASSUME NEW q \in Orders, LockUse(u, q) PROVE PromoHeld(u)'
    <3>1. PICK c : c = tx[u].code
      OBVIOUS
    <3>2. PICK o : o = tx[u].order
      OBVIOUS
    <3>3. tx[u] \in Counting /\ tx[u].at = "count"
      BY <2>3, TxFields DEF LockUse, Counting
    <3>4. /\ promo[c].exists /\ promo[c].count < promo[c].cap
          /\ \A x : x \in tx[u].todo \cup tx[u].locked
                    <=> x \in UsesOf(c) /\ CustomerOf[x] = CustomerOf[o]
          /\ tx[u].todo \cap tx[u].locked = {}
          /\ tx[u].used = Cardinality(tx[u].locked)
      BY <3>1, <3>2, <3>3 DEF ReadsHold, PromoHeld, Mine
    <3>5. Active(q) /\ q \in tx[u].todo /\ q \notin tx[u].locked
      BY <2>3, <3>4 DEF LockUse, UsesOf
    <3>6. tx'[u] = [tx[u] EXCEPT !.todo = tx[u].todo \ {q}, !.locked = tx[u].locked \cup {q},
                                 !.used = tx[u].used + 1]
      BY <2>3, <3>5 DEF LockUse, Go, LedgerTypeOK
    <3>7. /\ tx'[u].order = o /\ tx'[u].code = c
          /\ tx'[u].todo = tx[u].todo \ {q} /\ tx'[u].locked = tx[u].locked \cup {q}
          /\ tx'[u].used = tx[u].used + 1
      <4>1. PICK a \in SUBSET Orders, b \in SUBSET Orders, n \in Nat :
              /\ a = tx[u].todo \ {q} /\ b = tx[u].locked \cup {q} /\ n = tx[u].used + 1
        <5>1. /\ tx[u].todo \ {q} \in SUBSET Orders /\ tx[u].locked \cup {q} \in SUBSET Orders
              /\ tx[u].used + 1 \in Nat
          BY <3>3 DEF Counting
        <5> QED BY <5>1
      <4>2. tx'[u] = Recounted(tx[u], a, b, n)
        BY <3>6, <4>1 DEF Recounted
      <4>3. /\ tx'[u].order = tx[u].order /\ tx'[u].code = tx[u].code
            /\ tx'[u].todo = a /\ tx'[u].locked = b /\ tx'[u].used = n
        BY <3>3, <4>1, <4>2, CountingFields
      <4> QED BY <3>1, <3>2, <4>1, <4>3
    <3>8. tx'[u].used = Cardinality(tx'[u].locked)
      <4>1. IsFiniteSet(tx[u].locked)
        BY <3>3, OrdersAssumption, FS_Subset DEF Counting
      <4>2. Cardinality(tx[u].locked \cup {q}) = Cardinality(tx[u].locked) + 1
        BY <3>5, <4>1, FS_AddElement
      <4> QED BY <3>4, <3>7, <4>2
    <3>9. UNCHANGED <<promo, use>> /\ UsesOf(c)' = UsesOf(c)
      BY <2>3 DEF LockUse, UsesOf, Active
    <3>10. /\ tx'[u].todo \cup tx'[u].locked = tx[u].todo \cup tx[u].locked
           /\ tx'[u].todo \cap tx'[u].locked = {}
      BY <3>4, <3>5, <3>7
    <3> QED BY <1>a, <3>4, <3>7, <3>8, <3>9, <3>10
  <2> QED BY <1>1, <2>1, <2>2, <2>3, NewLocks
<1>2. ASSUME tx'[u].at = "discount"
      PROVE  use'[tx'[u].order].status \in {"reserved", "consumed"}
  <2>1. CASE tx'[u] = tx[u]
    BY <1>2, <2>1, HeldRowStays DEF ReadsHold, Active
  <2>2. CASE ReleaseRow(u) /\ Active(tx[u].order)
    <3>1. tx[u] \in [at : {"consume", "recount", "release", "discount"}, order : Orders]
      BY <2>2, TxFields DEF ReleaseRow
    <3> QED BY <2>2, <3>1 DEF ReleaseRow, Go, LedgerTypeOK, Active
  <2> QED BY <1>2, <2>1, <2>2, NewLocks
<1>3. ASSUME tx'[u].at = "recount" PROVE use'[tx'[u].order].status = "released"
  <2>1. CASE tx'[u] = tx[u]
    BY <1>3, <2>1, HeldRowStays DEF ReadsHold
  <2>2. CASE ConsumeRow(u) /\ use[tx[u].order].status = "released"
    <3>1. tx[u] \in [at : {"consume", "recount", "release", "discount"}, order : Orders]
      BY <2>2, TxFields DEF ConsumeRow
    <3> QED BY <2>2, <3>1 DEF ConsumeRow, Go, LedgerTypeOK
  <2> QED BY <1>3, <2>1, <2>2, NewLocks
<1> QED BY <1>1, <1>2, <1>3

----------------------------------------------------------------------------
(* The count follows the uses. *)

LEMMA CountInit == Init => CountCovered /\ CountExact
BY DEF Init, CountCovered, CountExact, NoPromo

LEMMA CountStep == LedgerInv /\ LedgerTypeOK' /\ [Next]_vars => CountCovered' /\ CountExact'
<1> SUFFICES ASSUME LedgerInv, LedgerTypeOK', [Next]_vars, NEW c \in Codes, promo'[c].exists
             PROVE  /\ promo'[c].count <= Cardinality(UsesOf(c)')
                    /\ promo'[c].made = 1 => promo'[c].count = Cardinality(UsesOf(c)')
  BY DEF CountCovered, CountExact
<1> USE DEF LedgerInv
<1> DEFINE Counted == /\ promo'[c].count <= Cardinality(UsesOf(c)')
                      /\ promo'[c].made = 1 => promo'[c].count = Cardinality(UsesOf(c)')
<1>a. /\ promo[c].count \in Nat /\ promo[c].made \in Nat
      /\ Cardinality(UsesOf(c)) \in Nat
  BY UsesFinite, CreatesAssumption DEF LedgerTypeOK
<1>b. UNCHANGED use => UsesOf(c)' = UsesOf(c)
  BY DEF UsesOf, Active
\* As many more or fewer uses as the count says.
<1>c. ASSUME NEW n \in Int, promo[c].exists, promo'[c].made = promo[c].made,
             promo'[c].count = promo[c].count + n,
             Cardinality(UsesOf(c)') = Cardinality(UsesOf(c)) + n
      PROVE Counted
  BY <1>a, <1>c DEF CountCovered, CountExact
<1>d. ASSUME promo[c].exists, promo'[c].made = promo[c].made, promo'[c].count = promo[c].count,
             UsesOf(c)' = UsesOf(c)
      PROVE Counted
  BY <1>a, <1>d DEF CountCovered, CountExact
<1>1. ASSUME UNCHANGED <<promo, use>> PROVE Counted
  BY <1>1, <1>b, <1>d
<1>2. ASSUME NEW c2 \in Codes, NEW cap \in Caps, CreatePromotion(c2, cap) PROVE Counted
  <2>1. CASE c2 # c
    BY <1>2, <1>b, <1>d, <2>1 DEF CreatePromotion, LedgerTypeOK
  <2>2. CASE c2 = c
    <3>1. promo'[c].count = 0 /\ promo'[c].made = promo[c].made + 1
      BY <1>2, <2>2 DEF CreatePromotion, LedgerTypeOK
    <3>2. promo'[c].made = 1 => UsesOf(c) = {}
      <4>1. promo'[c].made = 1 => promo[c].made = 0
        BY <1>a, <3>1
      <4>2. promo[c].made = 0 => \A q \in Orders : ~ (Active(q) /\ use[q].code = c)
        BY <1>a DEF Active, UsesAreNamed
      <4> QED BY <4>1, <4>2 DEF UsesOf
    <3>3. UsesOf(c)' = UsesOf(c)
      BY <1>2, <1>b DEF CreatePromotion
    <3>4. promo'[c].made = 1 => Cardinality(UsesOf(c)') = 0
      BY <3>2, <3>3, FS_EmptySet
    <3> QED BY <1>a, <3>1, <3>3, <3>4
  <2> QED BY <2>1, <2>2
<1>3. ASSUME NEW c2 \in Codes, DeletePromotion(c2) PROVE Counted
  <2>1. c2 # c
    BY <1>3 DEF DeletePromotion, NoPromo, LedgerTypeOK
  <2> QED BY <1>3, <1>b, <1>d, <2>1 DEF DeletePromotion, LedgerTypeOK
<1>4. ASSUME NEW t \in Tx, SaveUpdate(t) PROVE Counted
  <2>1. promo'[c].made = promo[c].made /\ promo'[c].count = promo[c].count /\ promo[c].exists
    BY <1>4 DEF SaveUpdate, LedgerTypeOK
  <2> QED BY <1>4, <1>b, <1>d, <2>1 DEF SaveUpdate
<1>5. ASSUME NEW t \in Tx, InsertUse(t) PROVE Counted
  <2>1. tx[t].order \in Orders /\ tx[t].code \in Codes /\ promo[tx[t].code].exists
    BY <1>5, TxFields DEF InsertUse, ReadsHold, PromoHeld
  <2>2. CASE UNCHANGED <<promo, use>>
    BY <1>1, <2>2
  <2>3. CASE /\ use[tx[t].order] = NoUse
             /\ use' = [use EXCEPT ![tx[t].order] = [status |-> "reserved", code |-> tx[t].code]]
             /\ promo' = [promo EXCEPT ![tx[t].code].count = @ + 1]
    <3>1. PICK o \in Orders, d \in Codes : o = tx[t].order /\ d = tx[t].code
      BY <2>1
    <3>2. /\ ~ Active(o) /\ Active(o)' /\ use'[o].code = d
          /\ \A q \in Orders \ {o} : use'[q] = use[q]
      BY <2>3, <3>1 DEF Active, NoUse, LedgerTypeOK
    <3>3. /\ Cardinality(UsesOf(d)') = Cardinality(UsesOf(d)) + 1
          /\ d # c => UsesOf(c)' = UsesOf(c)
      BY <3>2, UseAdded
    <3>4. CASE d = c
      BY <1>c, <2>1, <2>3, <3>1, <3>3, <3>4 DEF LedgerTypeOK
    <3>5. CASE d # c
      BY <1>d, <2>1, <2>3, <3>1, <3>3, <3>5 DEF LedgerTypeOK
    <3> QED BY <3>4, <3>5
  <2> QED BY <1>5, <2>2, <2>3 DEF InsertUse
<1>6. ASSUME NEW t \in Tx, ConsumeRow(t) PROVE Counted
  <2>1. PICK o \in Orders : o = tx[t].order /\ use[o].status # "none"
    BY <1>6, TxFields DEF ConsumeRow, UsesAreNamed
  <2>2. CASE use' = [use EXCEPT ![o].status = "consumed"] /\ use[o].status # "released"
    <3>1. /\ use'[o].status = "consumed" /\ use'[o].code = use[o].code
          /\ \A q \in Orders \ {o} : use'[q] = use[q]
      BY <2>2, StatusSet
    <3>2. \A q \in Orders : (Active(q)' /\ use'[q].code = c) <=> (Active(q) /\ use[q].code = c)
      BY <2>1, <2>2, <3>1 DEF Active, LedgerTypeOK
    <3>3. UsesOf(c)' = UsesOf(c)
      BY <3>2, UsesUnchanged
    <3> QED BY <1>6, <1>d, <3>3 DEF ConsumeRow
  <2> QED BY <1>6, <1>1, <2>1, <2>2 DEF ConsumeRow
<1>7. ASSUME NEW t \in Tx, FinishConsume(t) PROVE Counted
  <2>0. PICK o \in Orders : o = tx[t].order
    BY <1>7, TxFields DEF FinishConsume
  <2>1. PICK d : o = tx[t].order /\ d = use[o].code
    BY <2>0
  <2>2. use[o].status = "released"
    BY <1>7, <2>1 DEF FinishConsume, ReadsHold
  <2>3. /\ use'[o].status = "consumed" /\ use'[o].code = d
        /\ \A q \in Orders \ {o} : use'[q] = use[q]
    BY <1>7, <2>1, StatusSet DEF FinishConsume
  <2>4. ~ Active(o) /\ Active(o)'
    BY <2>2, <2>3 DEF Active
  <2>5. /\ Cardinality(UsesOf(d)') = Cardinality(UsesOf(d)) + 1
        /\ d # c => UsesOf(c)' = UsesOf(c)
    BY <2>3, <2>4, UseAdded
  <2>6. CASE d = c
    BY <1>7, <1>c, <2>1, <2>5, <2>6 DEF FinishConsume, LedgerTypeOK
  <2>7. CASE d # c
    BY <1>7, <1>d, <2>1, <2>5, <2>7 DEF FinishConsume, LedgerTypeOK
  <2> QED BY <2>6, <2>7
<1>8. ASSUME NEW t \in Tx, FinishRelease(t) PROVE Counted
  <2>0. PICK o \in Orders : o = tx[t].order
    BY <1>8, TxFields DEF FinishRelease
  <2>1. PICK d : o = tx[t].order /\ d = use[o].code
    BY <2>0
  <2>2. Active(o)
    BY <1>8, <2>1 DEF FinishRelease, ReadsHold
  <2>3. /\ use'[o].status = "released" /\ use'[o].code = d
        /\ \A q \in Orders \ {o} : use'[q] = use[q]
    BY <1>8, <2>1, StatusSet DEF FinishRelease
  <2>4. ~ Active(o)'
    BY <2>3 DEF Active
  <2>5. /\ Cardinality(UsesOf(d)') = Cardinality(UsesOf(d)) - 1
        /\ Cardinality(UsesOf(d)) > 0
        /\ d # c => UsesOf(c)' = UsesOf(c)
    BY <2>1, <2>2, <2>3, <2>4, UseRemoved
  <2>6. CASE d = c
    <3>1. /\ promo[c].exists /\ promo'[c].made = promo[c].made
          /\ promo'[c].count = IF promo[c].count > 0 THEN promo[c].count - 1 ELSE 0
      BY <1>8, <2>1, <2>6 DEF FinishRelease, LedgerTypeOK
    <3> QED BY <1>a, <2>5, <2>6, <3>1 DEF CountCovered, CountExact
  <2>7. CASE d # c
    BY <1>8, <1>d, <2>1, <2>5, <2>7 DEF FinishRelease, LedgerTypeOK
  <2> QED BY <2>6, <2>7
<1> QED
  BY <1>1, <1>2, <1>3, <1>4, <1>5, <1>6, <1>7, <1>8
     DEF Next, Start, Proceed, Begin, BeginReserve, BeginUpdate, FindUse, LockPromotion, LockUse,
         ReleaseRow, AbortDeadlocked, LoseTx, vars

LEMMA LedgerInvariant == Spec => []LedgerInv
<1>1. Init => LedgerInv
  BY TypesInit, NamedInit, LocksInit, ReadsInit, CountInit DEF LedgerInv
<1>2. LedgerInv /\ [Next]_vars => LedgerInv'
  BY TypesStep, NamedStep, LocksStep, ReadsStep, CountStep DEF LedgerInv
<1> QED BY <1>1, <1>2, PTL DEF Spec

(* The ledger's rows, the definitions and what transactions carry are what *)
(* the tables and the code's variables can hold.                           *)
THEOREM LedgerTypeCorrect == Spec => []LedgerTypeOK
<1>1. LedgerInv => LedgerTypeOK
  BY DEF LedgerInv
<1> QED BY <1>1, LedgerInvariant, PTL

(* Whatever staff create, delete and edit and however the transactions     *)
(* interleave, redemption_count counts no use that is not there, and it is *)
(* exact for a code that was not deleted and created again.                *)
THEOREM CountNeverAhead == Spec => [](CountCovered /\ CountExact)
<1>1. LedgerInv => CountCovered /\ CountExact
  BY DEF LedgerInv
<1> QED BY <1>1, LedgerInvariant, PTL

(* The counter that Reserve, Consume and Release keep by hand is the       *)
(* number of uses that stand.                                              *)
THEOREM CountIsKept ==
  ASSUME MaxCreates = 1
  PROVE  Spec => []CountMatchesUses
<1>1. LedgerInv => CountMatchesUses
  <2> SUFFICES ASSUME LedgerInv, NEW c \in Codes, promo[c].exists
               PROVE  promo[c].count = Cardinality(UsesOf(c))
    BY DEF CountMatchesUses
  <2>1. promo[c].made = 1
    BY DEF LedgerInv, LedgerTypeOK, UsesAreNamed
  <2> QED BY <2>1 DEF LedgerInv, CountExact
<1> QED BY <1>1, LedgerInvariant, PTL

----------------------------------------------------------------------------
(* Who can wait for whom. *)

LEMMA WhoIsWaitedFor ==
  ASSUME LedgerInv, NEW t \in Tx, NEW u \in Tx, WaitsFor(t, u)
  PROVE  /\ tx[u].at \in {"count", "recount", "discount"}
         /\ tx[t].at = "count" =>
              \E o \in Orders : o \in tx[t].todo /\ HoldsUse(u, o)
         /\ tx[t].at \in {"recount", "discount"} => tx[u].at = "count"
BY TxFields DEF LedgerInv, WaitsFor, HoldsPromo, HoldsUse

(* A new use waits only for a release of a use of its own customer, never  *)
(* for another new use (which would hold the same promotion) and never for *)
(* a payment (whose use no longer stands, or is not kept waiting).         *)
LEMMA NewUseWaitsForRelease ==
  ASSUME LedgerInv, NEW t \in Tx, NEW u \in Tx, WaitsFor(t, u), tx[t].at = "count"
  PROVE  /\ tx[u].at = "discount"
         /\ CustomerOf[tx[t].order] = CustomerOf[tx[u].order]
<1> USE DEF LedgerInv
<1>1. PICK o \in Orders : o \in tx[t].todo /\ HoldsUse(u, o) /\ t # u
  BY WhoIsWaitedFor DEF WaitsFor
<1>2. /\ tx[t].code \in Codes
      /\ Active(o) /\ use[o].code = tx[t].code /\ CustomerOf[o] = CustomerOf[tx[t].order]
  BY <1>1, TxFields DEF ReadsHold, PromoHeld, Mine, UsesOf
<1>3. tx[u].at # "count"
  <2> SUFFICES ASSUME tx[u].at = "count" PROVE FALSE
    OBVIOUS
  <2>1. o \in tx[u].locked
    BY <1>1 DEF HoldsUse
  <2>2. use[o].code = tx[u].code
    BY <2>1 DEF ReadsHold, PromoHeld, Mine, UsesOf
  <2>3. HoldsPromo(t, tx[t].code) /\ HoldsPromo(u, tx[t].code)
    BY <1>2, <2>2 DEF HoldsPromo
  <2> QED BY <1>1, <1>2, <2>3 DEF LocksExclude
<1>4. tx[u].at \in {"recount", "discount"} /\ o = tx[u].order
  BY <1>1, <1>3 DEF HoldsUse
<1>5. tx[u].at # "recount"
  BY <1>2, <1>4 DEF ReadsHold, Active
<1> QED BY <1>2, <1>4, <1>5

(* Only a new use and a release of the same customer's use can end up      *)
(* waiting for each other.                                                 *)
THEOREM DeadlocksAreOfOneCustomer == Spec => []OnlyReserveMeetsRelease
<1>1. LedgerInv => OnlyReserveMeetsRelease
  <2> SUFFICES ASSUME LedgerInv, NEW t \in Tx, NEW u \in Tx, WaitsFor(t, u), WaitsFor(u, t)
               PROVE  /\ {tx[t].at, tx[u].at} = {"count", "discount"}
                      /\ CustomerOf[tx[t].order] = CustomerOf[tx[u].order]
    BY DEF OnlyReserveMeetsRelease, Deadlocked
  <2>1. tx[t].at \in {"count", "recount", "discount"}
    BY WhoIsWaitedFor
  <2>2. CASE tx[t].at = "count"
    BY <2>2, NewUseWaitsForRelease
  <2>3. CASE tx[t].at \in {"recount", "discount"}
    <3>1. tx[u].at = "count"
      BY <2>3, WhoIsWaitedFor
    <3> QED BY <3>1, NewUseWaitsForRelease
  <2> QED BY <2>1, <2>2, <2>3
<1> QED BY <1>1, LedgerInvariant, PTL

----------------------------------------------------------------------------
(* The counter and the locks implement the plain ledger.                   *)

TermsOf == [c \in Codes |-> [offered |-> promo[c].exists,
                             cap |-> IF promo[c].exists THEN promo[c].cap ELSE 0]]

LEMMA SameCardinality == \A S : Ledger!Cardinality(S) = Cardinality(S)
BY DEF Ledger!Cardinality, Cardinality

LEMMA TermsUnchanged ==
  ASSUME \A c \in Codes : /\ promo'[c].exists = promo[c].exists
                          /\ promo'[c].cap = promo[c].cap
  PROVE  TermsOf' = TermsOf
BY DEF TermsOf

\* Counting leaves what a code offers and its cap alone.
LEMMA TermsBesideCount ==
  ASSUME LedgerTypeOK, NEW d, NEW n, promo' = IF promo[d].exists THEN [promo EXCEPT ![d].count = n] ELSE promo
  PROVE  \A c \in Codes : promo'[c].exists = promo[c].exists /\ promo'[c].cap = promo[c].cap
<1>1. promo \in [Codes -> [exists : BOOLEAN, active : BOOLEAN, cap : Caps \cup {0},
                          count : Nat, made : 0..MaxCreates]]
  BY DEF LedgerTypeOK
<1>2. CASE promo' = [promo EXCEPT ![d].count = n]
  BY <1>1, <1>2
<1>3. CASE promo' = promo
  BY <1>3
<1> QED BY <1>2, <1>3

(* A definition that is created, deleted or saved sets the code's terms. *)
LEMMA TermsSet ==
  ASSUME LedgerTypeOK, NEW c \in Codes, NEW cap \in Caps \cup {0}, NEW offered \in BOOLEAN,
         \A d \in Codes \ {c} : promo'[d] = promo[d],
         promo'[c].exists = offered,
         cap = IF promo'[c].exists THEN promo'[c].cap ELSE 0,
         UNCHANGED use
  PROVE  Ledger!LedgerNext
<1>1. TermsOf' = [TermsOf EXCEPT ![c] = [offered |-> offered, cap |-> cap]]
  BY DEF TermsOf
<1>2. Ledger!SetTerms(c, offered, cap)
  BY <1>1 DEF Ledger!SetTerms, TermsOf
<1> QED BY <1>2 DEF Ledger!LedgerNext

LEMMA LedgerStep ==
  ASSUME MaxCreates = 1, LedgerInv, LedgerInv', [Next]_vars
  PROVE  [Ledger!LedgerNext]_<<TermsOf, use>>
<1> USE DEF LedgerInv
<1>a. ASSUME UNCHANGED promo PROVE UNCHANGED TermsOf
  BY <1>a DEF TermsOf
<1>1. ASSUME UNCHANGED <<promo, use>> PROVE UNCHANGED <<TermsOf, use>>
  BY <1>1, <1>a
<1>2. ASSUME NEW c \in Codes, NEW cap \in Caps, CreatePromotion(c, cap) PROVE Ledger!LedgerNext
  BY <1>2, TermsSet DEF CreatePromotion, LedgerTypeOK
<1>3. ASSUME NEW c \in Codes, DeletePromotion(c) PROVE Ledger!LedgerNext
  BY <1>3, TermsSet DEF DeletePromotion, NoPromo, LedgerTypeOK
<1>4. ASSUME NEW t \in Tx, SaveUpdate(t) PROVE [Ledger!LedgerNext]_<<TermsOf, use>>
  <2>1. tx[t].code \in Codes /\ tx[t].copy \in [active : BOOLEAN, cap : Caps \cup {0}]
    BY <1>4, TxFields DEF SaveUpdate
  <2>2. CASE promo[tx[t].code].exists
    <3>1. PICK c \in Codes, cap \in Caps \cup {0} : c = tx[t].code /\ cap = tx[t].copy.cap
      BY <2>1
    <3>2. /\ \A d \in Codes \ {c} : promo'[d] = promo[d]
          /\ promo'[c].exists = TRUE /\ promo'[c].cap = cap
          /\ UNCHANGED use
      BY <1>4, <2>2, <3>1 DEF SaveUpdate, LedgerTypeOK
    <3> QED BY <3>2, TermsSet
  <2>3. CASE ~ promo[tx[t].code].exists
    BY <1>1, <1>4, <2>3 DEF SaveUpdate
  <2> QED BY <2>2, <2>3
<1>5. ASSUME NEW t \in Tx, InsertUse(t) PROVE [Ledger!LedgerNext]_<<TermsOf, use>>
  <2>1. CASE UNCHANGED <<promo, use>>
    BY <1>1, <2>1
  <2>2. CASE /\ tx[t].used < Limit /\ use[tx[t].order] = NoUse
             /\ use' = [use EXCEPT ![tx[t].order] = [status |-> "reserved", code |-> tx[t].code]]
             /\ promo' = [promo EXCEPT ![tx[t].code].count = @ + 1]
    <3>1. PICK o \in Orders, c \in Codes : o = tx[t].order /\ c = tx[t].code
      BY <1>5, TxFields DEF InsertUse
    <3>2. /\ promo[c].exists /\ promo[c].count < promo[c].cap
          /\ tx[t].todo \cup tx[t].locked = Mine(c, o)
          /\ tx[t].used = Cardinality(tx[t].locked)
      BY <1>5, <3>1 DEF InsertUse, ReadsHold, PromoHeld
    <3>3. Ledger!ActiveUses(c) = UsesOf(c)
      BY DEF Ledger!ActiveUses, Ledger!IsActive, UsesOf, Active
    <3>4. Ledger!UsesOf(c, CustomerOf[o]) = tx[t].locked
      BY <1>5, <3>2, <3>3 DEF InsertUse, Ledger!UsesOf, Mine
    <3>5. promo[c].count = Cardinality(UsesOf(c))
      <4>1. promo[c].made = 1
        BY <3>2 DEF LedgerTypeOK, UsesAreNamed
      <4> QED BY <3>2, <4>1 DEF CountExact
    <3>6. TermsOf[c].offered /\ TermsOf[c].cap = promo[c].cap
      BY <3>2 DEF TermsOf
    <3>7. Ledger!UseLeft(o, c)
      <4>1. use[o] = Ledger!NoUse
        BY <2>2, <3>1 DEF Ledger!NoUse, NoUse
      <4>2. Cardinality(Ledger!ActiveUses(c)) < TermsOf[c].cap
        BY <3>2, <3>3, <3>5, <3>6
      <4>3. Cardinality(Ledger!UsesOf(c, CustomerOf[o])) < Limit
        BY <2>2, <3>2, <3>4
      <4> QED BY <3>6, <4>1, <4>2, <4>3, SameCardinality DEF Ledger!UseLeft, TermsOf
    <3>8. UNCHANGED TermsOf
      BY <2>2, <3>1, TermsUnchanged DEF LedgerTypeOK
    <3>9. Ledger!ReserveUse(o, c)
      BY <2>2, <3>1, <3>7, <3>8 DEF Ledger!ReserveUse, TermsOf
    <3> QED BY <3>9 DEF Ledger!LedgerNext
  <2> QED BY <1>5, <2>1, <2>2 DEF InsertUse
<1>6. ASSUME NEW t \in Tx, ConsumeRow(t) PROVE [Ledger!LedgerNext]_<<TermsOf, use>>
  <2>1. PICK o \in Orders : o = tx[t].order /\ use[o].status # "none"
    BY <1>6, TxFields DEF ConsumeRow, UsesAreNamed
  <2>2. CASE UNCHANGED use
    BY <1>1, <1>6, <2>2 DEF ConsumeRow
  <2>3. CASE use[o].status = "reserved" /\ use' = [use EXCEPT ![o].status = "consumed"]
    <3>1. Ledger!ConsumeUse(o)
      BY <1>6, <1>a, <2>3 DEF ConsumeRow, Ledger!ConsumeUse, TermsOf
    <3> QED BY <3>1 DEF Ledger!LedgerNext
  <2>4. CASE use[o].status = "consumed" /\ use' = [use EXCEPT ![o].status = "consumed"]
    <3>1. use' = use
      BY <2>4 DEF LedgerTypeOK
    <3> QED BY <2>2, <3>1
  <2> QED BY <1>6, <2>1, <2>2, <2>3, <2>4 DEF ConsumeRow, LedgerTypeOK
<1>7. ASSUME NEW t \in Tx, FinishConsume(t) PROVE Ledger!LedgerNext
  <2>1. PICK o \in Orders : o = tx[t].order /\ use[o].status = "released"
    BY <1>7, TxFields DEF FinishConsume, ReadsHold
  <2>2. UNCHANGED TermsOf
    <3>1. \A c \in Codes : promo'[c].exists = promo[c].exists /\ promo'[c].cap = promo[c].cap
      BY <1>7, TermsBesideCount DEF FinishConsume
    <3> QED BY <3>1, TermsUnchanged
  <2>3. Ledger!ConsumeUse(o)
    BY <1>7, <2>1, <2>2 DEF FinishConsume, Ledger!ConsumeUse, TermsOf
  <2> QED BY <2>3 DEF Ledger!LedgerNext
<1>8. ASSUME NEW t \in Tx, FinishRelease(t) PROVE Ledger!LedgerNext
  <2>1. PICK o \in Orders : o = tx[t].order /\ Active(o)
    BY <1>8, TxFields DEF FinishRelease, ReadsHold
  <2>2. UNCHANGED TermsOf
    <3>1. \A c \in Codes : promo'[c].exists = promo[c].exists /\ promo'[c].cap = promo[c].cap
      BY <1>8, TermsBesideCount DEF FinishRelease
    <3> QED BY <3>1, TermsUnchanged
  <2>3. Ledger!ReleaseUse(o)
    BY <1>8, <2>1, <2>2 DEF FinishRelease, Ledger!ReleaseUse, Ledger!IsActive, Active, TermsOf
  <2> QED BY <2>3 DEF Ledger!LedgerNext
<1> QED
  BY <1>1, <1>2, <1>3, <1>4, <1>5, <1>6, <1>7, <1>8
     DEF Next, Start, Proceed, Begin, BeginReserve, BeginUpdate, FindUse, LockPromotion, LockUse,
         ReleaseRow, AbortDeadlocked, LoseTx, vars

(* The counter and the row locks implement the plain ledger: every step is *)
(* one of its steps or changes nothing it sees, so no use is given out     *)
(* beyond the campaign's cap or the customer's limit.                      *)
THEOREM LedgerIsImplemented ==
  ASSUME MaxCreates = 1
  PROVE  Spec => ImplementsUseLedger
<1>1. Init => Ledger!LedgerInit
  BY DEF Init, Ledger!LedgerInit, NoPromo, NoUse, Ledger!NoUse
<1>2. LedgerInv /\ LedgerInv' /\ [Next]_vars => [Ledger!LedgerNext]_Ledger!ledgerVars
  BY LedgerStep DEF Ledger!ledgerVars, TermsOf
<1> QED BY <1>1, <1>2, LedgerInvariant, PTL DEF Spec, ImplementsUseLedger, Ledger!LedgerSpec

(**************************************************************************)
(* Wallet: who signs up is granted what was to be granted all along, and  *)
(* what staff withdraw stays withdrawn whatever starts, dies or is        *)
(* delivered again.                                                       *)
(**************************************************************************)

WalletTyped ==
  /\ at = [s \in Service |-> at[s]]
  /\ insert = [a \in Issuer |-> insert[a]]
  /\ event = [user |-> event.user, todo |-> event.todo, failed |-> event.failed, always |-> event.always]
  /\ ent = [k \in DOMAIN ent |-> ent[k]]
  /\ \A k \in DOMAIN ent : ent[k] = [until |-> ent[k].until, revoked |-> ent[k].revoked]

\* Once the campaign was carried over the column is there, and only starts that had found no
\* column by then still come to mark it.
CarriedOverOnce ==
  /\ marked => column
  /\ \A s \in {Server, Tool} :
       /\ at[s] = <<"mark">> => column
       /\ marked /\ at[s] \in {<<"alter">>, <<"mark">>} => s \in early

\* What the handler of a registration has granted, put aside or still to do.
SignUpUnderWay ==
  /\ \A c \in event.always \ event.failed :
       c \in event.todo \/ Key(c, event.user, "user.registered") \in DOMAIN ent
  /\ insert["event"] # None =>
       /\ event.user # None
       /\ insert["event"].key = Key(insert["event"].key[1], event.user, "user.registered")

WalletInv == WalletTyped /\ CarriedOverOnce /\ SignUpUnderWay

----------------------------------------------------------------------------
(* What an action may change.                                               *)

\* No statement of a start.
LEMMA CarriedOverKeeps ==
  ASSUME CarriedOverOnce, UNCHANGED <<at, column, marked, early>>
  PROVE  CarriedOverOnce'
BY DEF CarriedOverOnce, Up

\* Entitlements that are only added to, by anyone but the subscriber.
LEMMA SignUpKeeps ==
  ASSUME SignUpUnderWay, DOMAIN ent \subseteq DOMAIN ent', insert'["event"] = insert["event"],
         event'.user = event.user, event'.todo = event.todo, event'.failed = event.failed,
         event'.always \subseteq event.always
  PROVE  SignUpUnderWay'
<1>1. \A c : Key(c, event.user, "user.registered") \in DOMAIN ent => Key(c, event'.user, "user.registered") \in DOMAIN ent'
  OBVIOUS
<1>2. \A c \in event'.always \ event'.failed :
        c \in event'.todo \/ Key(c, event'.user, "user.registered") \in DOMAIN ent'
  BY <1>1 DEF SignUpUnderWay
<1>3. insert'["event"] # None =>
        /\ event'.user # None
        /\ insert'["event"].key = Key(insert'["event"].key[1], event'.user, "user.registered")
  BY DEF SignUpUnderWay
<1> QED BY <1>2, <1>3 DEF SignUpUnderWay, Key

LEMMA DefsSeen ==
  ASSUME WalletInv, NEW defs, SetDefs(defs)
  PROVE  /\ event'.user = event.user /\ event'.todo = event.todo /\ event'.failed = event.failed
         /\ event'.always \subseteq event.always
         /\ event' = [user |-> event'.user, todo |-> event'.todo, failed |-> event'.failed, always |-> event'.always]
BY DEF SetDefs, WalletInv, WalletTyped

\* Nothing but definitions, requests and registrations.
LEMMA WalletRests ==
  ASSUME WalletInv, UNCHANGED <<at, column, marked, early, ent, insert, event>>
  PROVE  WalletInv'
<1>1. SignUpUnderWay'
  BY SignUpKeeps DEF WalletInv
<1> QED BY <1>1, CarriedOverKeeps DEF WalletInv, WalletTyped

LEMMA DefsKeep ==
  ASSUME WalletInv, NEW defs, SetDefs(defs), UNCHANGED <<ent, insert>>, at' = [s \in Service |-> at'[s]],
         CarriedOverOnce'
  PROVE  WalletInv'
<1>1. SignUpUnderWay'
  BY DefsSeen, SignUpKeeps DEF WalletInv
<1> QED BY <1>1, DefsSeen DEF WalletInv, WalletTyped

LEMMA EntitlementAdded ==
  ASSUME WalletTyped, NEW k, NEW until, Grant(k, until)
  PROVE  /\ DOMAIN ent' = DOMAIN ent \cup {k}
         /\ \A j \in DOMAIN ent : ent'[j] = ent[j]
         /\ ent' = [j \in DOMAIN ent' |-> ent'[j]]
         /\ \A j \in DOMAIN ent' : ent'[j] = [until |-> ent'[j].until, revoked |-> ent'[j].revoked]
<1>1. CASE k \in DOMAIN ent
  BY <1>1 DEF Grant, WalletTyped
<1>2. CASE k \notin DOMAIN ent
  <2>1. ent' = [j \in DOMAIN ent \cup {k} |-> IF j = k THEN [until |-> until, revoked |-> FALSE] ELSE ent[j]]
    BY <1>2 DEF Grant
  <2>2. DOMAIN ent' = DOMAIN ent \cup {k} /\ \A j \in DOMAIN ent : ent'[j] = ent[j]
    BY <1>2, <2>1
  <2>3. ent'[k] = [until |-> until, revoked |-> FALSE]
    BY <2>1
  <2>4. \A j \in DOMAIN ent : ent'[j] = [until |-> ent'[j].until, revoked |-> ent'[j].revoked]
    BY <2>2 DEF WalletTyped
  <2>5. ent'[k] = [until |-> ent'[k].until, revoked |-> ent'[k].revoked]
    BY <2>3
  <2>6. ent' = [j \in DOMAIN ent' |-> ent'[j]]
    BY <2>1, <2>2
  <2> QED BY <2>2, <2>4, <2>5, <2>6
<1> QED BY <1>1, <1>2

\* An issue somebody but the subscriber prepares or completes.
LEMMA OthersIssue ==
  ASSUME WalletInv, NEW a \in Issuer, a # "event", UNCHANGED <<at, column, marked, early, event>>,
         \/ Granted(a)
         \/ ent' = ent /\ \E k : Prepare(a, k)
  PROVE  WalletInv'
<1>1. insert' = [b \in Issuer |-> insert'[b]] /\ insert'["event"] = insert["event"]
  BY DEF Granted, Prepare, Issuer, WalletInv, WalletTyped
<1>2. /\ DOMAIN ent \subseteq DOMAIN ent'
      /\ ent' = [j \in DOMAIN ent' |-> ent'[j]]
      /\ \A j \in DOMAIN ent' : ent'[j] = [until |-> ent'[j].until, revoked |-> ent'[j].revoked]
  <2>1. CASE Granted(a)
    BY <2>1, EntitlementAdded DEF Granted, WalletInv
  <2>2. CASE ent' = ent
    BY <2>2 DEF WalletInv, WalletTyped
  <2> QED BY <2>1, <2>2
<1>3. SignUpUnderWay'
  BY <1>1, <1>2, SignUpKeeps DEF WalletInv
<1> QED BY <1>1, <1>2, <1>3, CarriedOverKeeps DEF WalletInv, WalletTyped

----------------------------------------------------------------------------
(* The actions.                                                             *)

LEMMA WalletInitSound ==
  ASSUME WalletAssumption, WalletInit
  PROVE  WalletInv
<1>1. PICK cast \in Casts : at = [s \in Service |-> IF s \in cast THEN Down ELSE <<"absent">>]
  BY DEF WalletInit, StartupInit
<1>2. \A s \in Service : at[s] \in {Down, <<"absent">>}
  BY <1>1
<1>3. Server \in Service /\ Tool \in Service
  BY DEF WalletAssumption
<1>4. WalletTyped
  BY <1>1 DEF WalletInit, WalletTyped, NoEvent
<1>5. CarriedOverOnce
  BY <1>2, <1>3 DEF CarriedOverOnce, Up, WalletInit, Down, Serving
<1>6. SignUpUnderWay
  BY DEF SignUpUnderWay, WalletInit, NoEvent, Issuer
<1> QED BY <1>4, <1>5, <1>6 DEF WalletInv

LEMMA ManagersKeep ==
  ASSUME WalletAssumption, WalletInv, NEW m \in Manager, NEW c,
         \/ Delete(c)
         \/ \E d \in NewDefs : Create(c, d)
         \/ \E p \in Patches : JudgePatch(m, c, p)
         \/ \E u \in Customer : IssueByHand(m, c, u)
         \/ LoadRow(m)
         \/ WriteRow(m)
         \/ GrantByHand(m)
  PROVE  WalletInv'
<1>1. m \in Issuer /\ m # "event"
  BY DEF Issuer, WalletAssumption
<1>2. ASSUME NEW defs, SetDefs(defs), UNCHANGED <<startupVars, column, marked, early, ent, insert>>
      PROVE  WalletInv'
  <2>1. UNCHANGED <<at, column, marked, early, ent, insert>>
    BY <1>2 DEF startupVars
  <2> QED BY <1>2, <2>1, CarriedOverKeeps, DefsKeep DEF WalletInv, WalletTyped
<1>3. CASE Delete(c)
  BY <1>2, <1>3 DEF Delete
<1>4. CASE \E d \in NewDefs : Create(c, d)
  BY <1>2, <1>4 DEF Create
<1>5. CASE WriteRow(m)
  BY <1>2, <1>5 DEF WriteRow
<1>6. CASE (\E p \in Patches : JudgePatch(m, c, p)) \/ LoadRow(m)
  <2>1. UNCHANGED <<at, column, marked, early, ent, insert, event>>
    BY <1>6 DEF JudgePatch, LoadRow, startupVars, dbVars
  <2> QED BY <2>1, WalletRests
<1>7. CASE \E u \in Customer : IssueByHand(m, c, u)
  <2>1. UNCHANGED <<at, column, marked, early, event, ent>> /\ \E k : Prepare(m, k)
    BY <1>7 DEF IssueByHand, startupVars, dbVars
  <2> QED BY <1>1, <2>1, OthersIssue
<1>8. CASE GrantByHand(m)
  <2>1. UNCHANGED <<at, column, marked, early, event>> /\ Granted(m)
    BY <1>8 DEF GrantByHand, startupVars
  <2> QED BY <1>1, <2>1, OthersIssue
<1> QED BY <1>3, <1>4, <1>5, <1>6, <1>7, <1>8

LEMMA RevokeKeeps ==
  ASSUME WalletInv, NEW k \in DOMAIN ent, Revoke(k)
  PROVE  /\ WalletInv' /\ DOMAIN ent' = DOMAIN ent
         /\ \A j \in DOMAIN ent : ent'[j].until = ent[j].until /\ (ent[j].revoked => ent'[j].revoked)
<1>1. UNCHANGED <<at, column, marked, early, insert, event>> /\ ent' = [ent EXCEPT ![k].revoked = TRUE]
  BY DEF Revoke, startupVars, jobVars
<1>2. ent[k] = [until |-> ent[k].until, revoked |-> ent[k].revoked] /\ ent = [j \in DOMAIN ent |-> ent[j]]
  BY DEF WalletInv, WalletTyped
<1>3. DOMAIN ent' = DOMAIN ent /\ \A j \in DOMAIN ent : j # k => ent'[j] = ent[j]
  BY <1>1, <1>2
<1>4. ent'[k] = [until |-> ent[k].until, revoked |-> TRUE]
  BY <1>1, <1>2
<1>5. ent' = [j \in DOMAIN ent' |-> ent'[j]]
  BY <1>1, <1>2
<1>6. \A j \in DOMAIN ent' : ent'[j] = [until |-> ent'[j].until, revoked |-> ent'[j].revoked]
  BY <1>3, <1>4 DEF WalletInv, WalletTyped
<1>7. SignUpUnderWay'
  BY <1>1, <1>3, SignUpKeeps DEF WalletInv
<1>8. \A j \in DOMAIN ent : ent'[j].until = ent[j].until /\ (ent[j].revoked => ent'[j].revoked)
  BY <1>3, <1>4
<1> QED BY <1>1, <1>3, <1>5, <1>6, <1>7, <1>8, CarriedOverKeeps DEF WalletInv, WalletTyped

\* The handler's own steps leave starts and definitions alone.
LEMMA HandlerKeeps ==
  ASSUME WalletInv, UNCHANGED <<at, column, marked, early>>, SignUpUnderWay',
         insert' = [a \in Issuer |-> insert'[a]],
         event' = [user |-> event'.user, todo |-> event'.todo, failed |-> event'.failed, always |-> event'.always],
         ent' = [j \in DOMAIN ent' |-> ent'[j]],
         \A j \in DOMAIN ent' : ent'[j] = [until |-> ent'[j].until, revoked |-> ent'[j].revoked]
  PROVE  WalletInv'
BY CarriedOverKeeps DEF WalletInv, WalletTyped

LEMMA DeliverKeeps ==
  ASSUME WalletInv, NEW u, Deliver(u)
  PROVE  WalletInv'
<1>1. UNCHANGED <<at, column, marked, early, ent, insert>> /\ event = NoEvent
      /\ event' = [user |-> u, todo |-> AutoIssued(def, clock), failed |-> {}, always |-> AutoIssued(def, clock)]
  BY DEF Deliver, startupVars, dbVars
<1>2. insert["event"] = None
  BY <1>1 DEF WalletInv, SignUpUnderWay, NoEvent
<1>3. SignUpUnderWay'
  BY <1>1, <1>2 DEF SignUpUnderWay
<1>4. event' = [user |-> event'.user, todo |-> event'.todo, failed |-> event'.failed, always |-> event'.always]
  BY <1>1
<1> QED BY <1>1, <1>3, <1>4, HandlerKeeps DEF WalletInv, WalletTyped

LEMMA TakeCodeKeeps ==
  ASSUME WalletInv, NEW c, TakeCode(c)
  PROVE  WalletInv'
<1>1. UNCHANGED <<at, column, marked, early, ent>> /\ event.user # None
  BY DEF TakeCode, startupVars, dbVars
<1>2. CASE Prepare("event", Key(c, event.user, "user.registered")) /\ UNCHANGED event
  <2>1. PICK until : insert' = [insert EXCEPT !["event"] = [key |-> Key(c, event.user, "user.registered"), until |-> until]]
    BY <1>2 DEF Prepare
  <2>2. insert' = [a \in Issuer |-> insert'[a]] /\ insert'["event"] = [key |-> Key(c, event.user, "user.registered"), until |-> until]
    BY <2>1 DEF WalletInv, WalletTyped, Issuer
  <2>3. insert'["event"].key = Key(insert'["event"].key[1], event.user, "user.registered")
    BY <2>2 DEF Key
  <2>4. SignUpUnderWay'
    BY <1>1, <1>2, <2>3 DEF WalletInv, SignUpUnderWay, Key
  <2> QED BY <1>1, <1>2, <2>2, <2>4, HandlerKeeps DEF WalletInv, WalletTyped
<1>3. CASE insert["event"] = None /\ PutAside(c) /\ UNCHANGED insert
  <2>1. event' = [event EXCEPT !.todo = @ \ {c}, !.failed = @ \cup {c}]
    BY <1>3 DEF PutAside
  <2>2. event' = [user |-> event.user, todo |-> event.todo \ {c}, failed |-> event.failed \cup {c}, always |-> event.always]
    BY <2>1 DEF WalletInv, WalletTyped
  <2>3. event' = [user |-> event'.user, todo |-> event'.todo, failed |-> event'.failed, always |-> event'.always]
    BY <2>2
  <2>4. SignUpUnderWay'
    BY <1>1, <1>3, <2>2 DEF WalletInv, SignUpUnderWay, Key
  <2> QED BY <1>1, <1>3, <2>3, <2>4, HandlerKeeps DEF WalletInv, WalletTyped
<1> QED BY <1>2, <1>3 DEF TakeCode

LEMMA GrantByEventKeeps ==
  ASSUME WalletInv, GrantByEvent
  PROVE  WalletInv'
<1> DEFINE k == insert["event"].key
<1>1. /\ UNCHANGED <<at, column, marked, early>> /\ insert["event"] # None
      /\ Grant(k, insert["event"].until) /\ insert' = [insert EXCEPT !["event"] = None]
      /\ event' = [event EXCEPT !.todo = @ \ {k[1]}]
  BY DEF GrantByEvent, Granted, startupVars
<1>2. k = Key(k[1], event.user, "user.registered")
  BY <1>1 DEF WalletInv, SignUpUnderWay
<1>3. event' = [user |-> event.user, todo |-> event.todo \ {k[1]}, failed |-> event.failed, always |-> event.always]
  BY <1>1 DEF WalletInv, WalletTyped
<1>4. insert' = [a \in Issuer |-> insert'[a]] /\ insert'["event"] = None
  BY <1>1 DEF WalletInv, WalletTyped, Issuer
<1>5. /\ DOMAIN ent' = DOMAIN ent \cup {k}
      /\ ent' = [j \in DOMAIN ent' |-> ent'[j]]
      /\ \A j \in DOMAIN ent' : ent'[j] = [until |-> ent'[j].until, revoked |-> ent'[j].revoked]
  BY <1>1, EntitlementAdded DEF WalletInv
<1> HIDE DEF k
<1>6. \A c \in event.always \ event.failed :
        c \in event'.todo \/ Key(c, event.user, "user.registered") \in DOMAIN ent'
  <2> SUFFICES ASSUME NEW c \in event.always \ event.failed
               PROVE  c \in event'.todo \/ Key(c, event.user, "user.registered") \in DOMAIN ent'
    OBVIOUS
  <2>1. CASE c = k[1]
    BY <1>2, <1>5, <2>1
  <2>2. CASE c # k[1]
    BY <1>3, <1>5, <2>2 DEF WalletInv, SignUpUnderWay
  <2> QED BY <2>1, <2>2
<1>7. SignUpUnderWay'
  BY <1>3, <1>4, <1>6 DEF SignUpUnderWay, Key
<1>8. event' = [user |-> event'.user, todo |-> event'.todo, failed |-> event'.failed, always |-> event'.always]
  BY <1>3
<1> QED BY <1>1, <1>4, <1>5, <1>7, <1>8, HandlerKeeps

LEMMA InsertFailsKeeps ==
  ASSUME WalletInv, InsertFails
  PROVE  WalletInv'
<1> DEFINE c == insert["event"].key[1]
<1>1. UNCHANGED <<at, column, marked, early, ent>> /\ insert' = [insert EXCEPT !["event"] = None]
      /\ event' = [event EXCEPT !.todo = @ \ {c}, !.failed = @ \cup {c}]
  BY DEF InsertFails, PutAside, startupVars, dbVars
<1>2. event' = [user |-> event.user, todo |-> event.todo \ {c}, failed |-> event.failed \cup {c}, always |-> event.always]
  BY <1>1 DEF WalletInv, WalletTyped
<1>3. insert' = [a \in Issuer |-> insert'[a]] /\ insert'["event"] = None
  BY <1>1 DEF WalletInv, WalletTyped, Issuer
<1>4. event' = [user |-> event'.user, todo |-> event'.todo, failed |-> event'.failed, always |-> event'.always]
  BY <1>2
<1>5. SignUpUnderWay'
  BY <1>1, <1>2, <1>3 DEF WalletInv, SignUpUnderWay, Key
<1> QED BY <1>1, <1>3, <1>4, <1>5, HandlerKeeps DEF WalletInv, WalletTyped

LEMMA EventDoneKeeps ==
  ASSUME WalletInv, EventDone
  PROVE  WalletInv'
<1>1. UNCHANGED <<at, column, marked, early, ent, insert>> /\ event' = NoEvent /\ insert["event"] = None
  BY DEF EventDone, Handled, startupVars, dbVars
<1>2. SignUpUnderWay' /\ event' = [user |-> event'.user, todo |-> event'.todo, failed |-> event'.failed, always |-> event'.always]
  BY <1>1 DEF SignUpUnderWay, NoEvent
<1> QED BY <1>1, <1>2, HandlerKeeps DEF WalletInv, WalletTyped

----------------------------------------------------------------------------
(* Starts of product and of the tool.                                       *)

\* One process moves on; the entitlements and their issue stay.
LEMMA StartKeeps ==
  ASSUME WalletInv, NEW s \in {Server, Tool}, NEW next, Goto(s, next), UNCHANGED <<ent, insert, event>>, CarriedOverOnce'
  PROVE  WalletInv'
<1>1. at' = [p \in Service |-> at'[p]]
  BY DEF Goto, WalletInv, WalletTyped
<1>2. SignUpUnderWay'
  BY SignUpKeeps DEF WalletInv
<1> QED BY <1>1, <1>2 DEF WalletInv, WalletTyped

LEMMA Moved ==
  ASSUME WalletAssumption, WalletInv, NEW s \in {Server, Tool}, NEW next, Goto(s, next)
  PROVE  at'[s] = next /\ \A p \in {Server, Tool} : p # s => at'[p] = at[p]
BY DEF Goto, WalletInv, WalletTyped, WalletAssumption

\* One process moves on, but not to a statement of the migration.
LEMMA OtherSteps ==
  ASSUME WalletAssumption, WalletInv, NEW s \in {Server, Tool}, NEW next, Goto(s, next),
         next \notin {<<"alter">>, <<"mark">>}, UNCHANGED <<column, marked, ent, insert, event>>,
         early' \in {early, early \ {s}}
  PROVE  WalletInv'
<1>1. at'[s] = next /\ \A p \in {Server, Tool} : p # s => at'[p] = at[p]
  BY Moved
<1>2. CarriedOverOnce'
  BY <1>1 DEF WalletInv, CarriedOverOnce
<1> QED BY <1>2, StartKeeps

LEMMA ToolKeeps ==
  ASSUME WalletAssumption, WalletInv,
         \/ \E c : ToolFetch(c)
         \/ ToolChecks
         \/ \E u : ToolTakes(u)
         \/ GrantByTool
         \/ ToolEnds
  PROVE  WalletInv'
<1>1. "tool" \in Issuer /\ "tool" # "event"
  BY DEF Issuer
<1>2. Tool \in {Server, Tool}
  OBVIOUS
<1>3. CASE \E c : ToolFetch(c)
  <2>1. /\ Goto(Tool, <<"look">>) /\ UNCHANGED <<column, marked, ent, insert, event>>
        /\ early' = early \ {Tool}
    BY <1>3 DEF ToolFetch, Starts, BeginStart
  <2> QED BY <1>2, <2>1, OtherSteps
<1>4. CASE ToolChecks
  <2>1. UNCHANGED <<column, marked, early, ent, insert, event>>
        /\ (Goto(Tool, Serving) \/ Goto(Tool, <<"ended">>))
    BY <1>4 DEF ToolChecks, Run, dbVars, jobVars
  <2> QED BY <1>2, <2>1, OtherSteps DEF Serving
<1>5. CASE \E u : ToolTakes(u)
  <2>1. UNCHANGED <<at, column, marked, early, ent, event>> /\ (UNCHANGED insert \/ \E k : Prepare("tool", k))
    BY <1>5 DEF ToolTakes, startupVars, dbVars
  <2>2. CASE UNCHANGED insert
    <3>1. UNCHANGED <<at, column, marked, early, ent, insert, event>>
      BY <2>1, <2>2
    <3> QED BY <3>1, WalletRests
  <2>3. CASE \E k : Prepare("tool", k)
    BY <1>1, <2>1, <2>3, OthersIssue
  <2> QED BY <2>1, <2>2, <2>3
<1>6. CASE GrantByTool
  <2>1. UNCHANGED <<at, column, marked, early, event>> /\ Granted("tool")
    BY <1>6 DEF GrantByTool, startupVars
  <2> QED BY <1>1, <2>1, OthersIssue
<1>7. CASE ToolEnds
  <2>1. Goto(Tool, Down) /\ UNCHANGED <<column, marked, early, ent, insert, event>>
    BY <1>7 DEF ToolEnds, Redeploy, dbVars, jobVars
  <2> QED BY <1>2, <2>1, OtherSteps DEF Down
<1> QED BY <1>3, <1>4, <1>5, <1>6, <1>7

LEMMA DeployKeeps ==
  ASSUME WalletAssumption, WalletInv, NEW s \in {Server, Tool},
         BeginDeploy \/ LookForColumn(s) \/ AddColumn(s) \/ StartDies(s)
  PROVE  WalletInv'
<1>1. CASE BeginDeploy
  <2>1. /\ Goto(Server, <<"look">>) /\ UNCHANGED <<column, marked, ent, insert, event>>
        /\ early' = early \ {Server}
    BY <1>1 DEF BeginDeploy, Starts, BeginStart, jobVars
  <2> QED BY <2>1, OtherSteps
<1>2. CASE LookForColumn(s)
  <2>1. /\ Goto(s, IF column THEN Ready(s) ELSE <<"alter">>)
        /\ UNCHANGED <<column, marked, early, ent, insert, event>>
    BY <1>2 DEF LookForColumn, Run, dbVars, jobVars
  <2>2. CASE column
    BY <2>1, <2>2, OtherSteps DEF Ready, Serving
  <2>3. CASE ~column
    <3>1. ~marked /\ at'[s] = <<"alter">> /\ \A p \in {Server, Tool} : p # s => at'[p] = at[p]
      BY <2>1, <2>3, Moved DEF WalletInv, CarriedOverOnce
    <3>2. CarriedOverOnce'
      BY <2>1, <3>1 DEF WalletInv, CarriedOverOnce
    <3> QED BY <2>1, <2>3, <3>2, StartKeeps
  <2> QED BY <2>2, <2>3
<1>3. CASE AddColumn(s)
  <2>1. /\ at[s] = <<"alter">> /\ Goto(s, <<"mark">>) /\ column' = TRUE
        /\ UNCHANGED <<marked, early, ent, insert, event>>
    BY <1>3 DEF AddColumn, Run, jobVars
  <2>2. at'[s] = <<"mark">> /\ \A p \in {Server, Tool} : p # s => at'[p] = at[p]
    BY <2>1, Moved
  <2>3. CarriedOverOnce'
    BY <2>1, <2>2 DEF WalletInv, CarriedOverOnce
  <2> QED BY <2>1, <2>3, StartKeeps
<1>4. CASE StartDies(s)
  <2>1. Goto(s, Down) /\ UNCHANGED <<column, marked, early, ent, insert, event>>
    BY <1>4 DEF StartDies, Crash, dbVars, jobVars
  <2> QED BY <2>1, OtherSteps DEF Down
<1> QED BY <1>1, <1>2, <1>3, <1>4

LEMMA MarkKeeps ==
  ASSUME WalletAssumption, WalletInv, NEW s \in {Server, Tool}, MarkCampaign(s)
  PROVE  WalletInv' /\ at[s] = <<"mark">> /\ at'[s] # at[s] /\ (marked => s \in early)
<1>1. PICK defs :
        /\ at[s] = <<"mark">> /\ Goto(s, Ready(s)) /\ SetDefs(defs) /\ marked' = TRUE
        /\ UNCHANGED <<column, ent, insert>>
  BY DEF MarkCampaign, Run
<1>2. early' = IF marked THEN early \ {s} ELSE {u \in {Server, Tool} \ {s} : at[u] \in {<<"alter">>, <<"mark">>}}
  BY DEF MarkCampaign
<1>3. at'[s] = Ready(s) /\ \A p \in {Server, Tool} : p # s => at'[p] = at[p]
  BY <1>1, Moved
<1>4. Ready(s) \notin {<<"alter">>, <<"mark">>}
  BY DEF Ready, Serving
<1>5. column /\ (marked => s \in early)
  BY <1>1 DEF WalletInv, CarriedOverOnce
<1>6. CarriedOverOnce'
  BY <1>1, <1>2, <1>3, <1>4, <1>5 DEF WalletInv, CarriedOverOnce
<1>7. at' = [p \in Service |-> at'[p]]
  BY <1>1 DEF Goto, WalletInv, WalletTyped
<1>8. WalletInv'
  BY <1>1, <1>6, <1>7, DefsKeep
<1> QED BY <1>1, <1>3, <1>4, <1>5, <1>8

LEMMA StopProductKeeps ==
  ASSUME WalletAssumption, WalletInv, StopProduct
  PROVE  WalletInv'
<1>1. Goto(Server, Down) /\ UNCHANGED <<column, marked, early, ent>> /\ event' = NoEvent
      /\ insert' = [a \in Issuer |-> IF a = "tool" THEN insert[a] ELSE None]
  BY DEF StopProduct, Redeploy, dbVars
<1>2. at'[Server] = Down /\ \A p \in {Server, Tool} : p # Server => at'[p] = at[p]
  BY <1>1, Moved
<1>3. CarriedOverOnce'
  BY <1>1, <1>2 DEF WalletInv, CarriedOverOnce, Down
<1>4. SignUpUnderWay'
  BY <1>1 DEF SignUpUnderWay, NoEvent, Issuer
<1>5. at' = [p \in Service |-> at'[p]]
  BY <1>1 DEF Goto, WalletInv, WalletTyped
<1>6. insert' = [a \in Issuer |-> insert'[a]]
      /\ event' = [user |-> event'.user, todo |-> event'.todo, failed |-> event'.failed, always |-> event'.always]
  BY <1>1 DEF NoEvent
<1> QED BY <1>1, <1>3, <1>4, <1>5, <1>6 DEF WalletInv, WalletTyped

LEMMA TickKeeps ==
  ASSUME WalletInv, Tick
  PROVE  WalletInv'
<1>1. UNCHANGED <<at, column, marked, early, ent, insert>>
      /\ event' = [event EXCEPT !.always = @ \cap AutoIssued(def, clock + 1)]
  BY DEF Tick, startupVars, dbVars
<1>2. event' = [user |-> event.user, todo |-> event.todo, failed |-> event.failed,
                always |-> event.always \cap AutoIssued(def, clock + 1)]
  BY <1>1 DEF WalletInv, WalletTyped
<1>3. SignUpUnderWay'
  BY <1>1, <1>2, SignUpKeeps DEF WalletInv
<1>4. event' = [user |-> event'.user, todo |-> event'.todo, failed |-> event'.failed, always |-> event'.always]
  BY <1>2
<1> QED BY <1>1, <1>3, <1>4, HandlerKeeps DEF WalletInv, WalletTyped

----------------------------------------------------------------------------
(* The theorems.                                                            *)

LEMMA WalletStep ==
  ASSUME WalletAssumption, WalletInv, [WalletNext]_walletVars
  PROVE  WalletInv'
<1>1. CASE UNCHANGED walletVars
  <2>1. UNCHANGED <<at, column, marked, early, ent, insert, event>>
    BY <1>1 DEF walletVars, startupVars, campaignVars
  <2> QED BY <2>1, WalletRests
<1>2. ASSUME NEW c \in Code, Delete(c) \/ \E d \in NewDefs : Create(c, d)
      PROVE  WalletInv'
  <2>1. UNCHANGED <<at, column, marked, early, ent, insert>> /\ \E defs : SetDefs(defs)
    BY <1>2 DEF Delete, Create, startupVars
  <2> QED BY <2>1, CarriedOverKeeps, DefsKeep DEF WalletInv, WalletTyped
<1>3. ASSUME NEW m \in Manager, NEW c \in Code,
             (\E p \in Patches : JudgePatch(m, c, p)) \/ (\E u \in Customer : IssueByHand(m, c, u))
      PROVE  WalletInv'
  BY <1>3, ManagersKeep
<1>4. ASSUME NEW m \in Manager, LoadRow(m) \/ WriteRow(m) \/ GrantByHand(m)
      PROVE  WalletInv'
  BY <1>4, ManagersKeep
<1>5. ASSUME NEW k \in DOMAIN ent, Revoke(k)
      PROVE  WalletInv'
  BY <1>5, RevokeKeeps
<1>6. ASSUME NEW u \in Customer, Register(u)
      PROVE  WalletInv'
  <2>1. UNCHANGED <<at, column, marked, early, ent, insert, event>>
    BY <1>6 DEF Register, startupVars, dbVars, jobVars
  <2> QED BY <2>1, WalletRests
<1>7. ASSUME NEW u \in Customer, Deliver(u) \/ ToolTakes(u)
      PROVE  WalletInv'
  BY <1>7, DeliverKeeps, ToolKeeps
<1>8. ASSUME NEW c, TakeCode(c) \/ ToolFetch(c)
      PROVE  WalletInv'
  BY <1>8, TakeCodeKeeps, ToolKeeps
<1>9. ASSUME NEW s \in {Server, Tool}, LookForColumn(s) \/ AddColumn(s) \/ MarkCampaign(s) \/ StartDies(s)
      PROVE  WalletInv'
  BY <1>9, DeployKeeps, MarkKeeps
<1>10. CASE GrantByEvent \/ InsertFails \/ EventDone \/ ToolChecks \/ GrantByTool \/ ToolEnds
  BY <1>10, GrantByEventKeeps, InsertFailsKeeps, EventDoneKeeps, ToolKeeps
<1>11. CASE BeginDeploy \/ StopProduct \/ Tick
  BY <1>11, DeployKeeps, StopProductKeeps, TickKeeps
<1> QED BY <1>1, <1>2, <1>3, <1>4, <1>5, <1>6, <1>7, <1>8, <1>9, <1>10, <1>11 DEF WalletNext

LEMMA WalletInvariant == WalletSpec => []WalletInv
<1>1. WalletInit => WalletInv
  BY WalletInitSound, WalletAssumption
<1>2. WalletInv /\ [WalletNext]_walletVars => WalletInv'
  BY WalletStep, WalletAssumption
<1> QED BY <1>1, <1>2, PTL DEF WalletSpec

(* Whatever managers write, withdraw and revoke while its event is handled,  *)
(* and whatever inserts fail, a new account is granted every code that was   *)
(* to be granted all along and could be (WelcomePromotionIssuer.Handle).     *)
THEOREM SignUpsAreServed == WalletSpec => []SignUpServed
<1>1. WalletInv => SignUpServed
  BY DEF WalletInv, SignUpUnderWay, SignUpServed, Handled
<1> QED BY <1>1, WalletInvariant, PTL

\* Entitlements as they were, but for new ones and revocations.
EntitlementsKept ==
  \A k \in DOMAIN ent :
    k \in DOMAIN ent' /\ ent'[k].until = ent[k].until /\ (ent[k].revoked => ent'[k].revoked)

LEMMA EntitlementsStep ==
  ASSUME WalletInv, [WalletNext]_walletVars
  PROVE  EntitlementsKept
<1>1. ASSUME UNCHANGED ent
      PROVE  EntitlementsKept
  BY <1>1 DEF EntitlementsKept
<1>2. ASSUME NEW a, Granted(a)
      PROVE  EntitlementsKept
  BY <1>2, EntitlementAdded DEF Granted, WalletInv, EntitlementsKept
<1>3. ASSUME NEW k \in DOMAIN ent, Revoke(k)
      PROVE  EntitlementsKept
  BY <1>3, RevokeKeeps DEF EntitlementsKept
<1>4. ASSUME NEW c \in Code, Delete(c) \/ \E d \in NewDefs : Create(c, d)
      PROVE  EntitlementsKept
  BY <1>1, <1>4 DEF Delete, Create
<1>5. ASSUME NEW m \in Manager, NEW c \in Code,
             (\E p \in Patches : JudgePatch(m, c, p)) \/ (\E u \in Customer : IssueByHand(m, c, u))
      PROVE  EntitlementsKept
  BY <1>1, <1>5 DEF JudgePatch, IssueByHand, dbVars
<1>6. ASSUME NEW m \in Manager, LoadRow(m) \/ WriteRow(m) \/ GrantByHand(m)
      PROVE  EntitlementsKept
  BY <1>1, <1>2, <1>6 DEF LoadRow, WriteRow, GrantByHand, dbVars
<1>7. ASSUME NEW u \in Customer, Register(u) \/ Deliver(u) \/ ToolTakes(u)
      PROVE  EntitlementsKept
  BY <1>1, <1>7 DEF Register, Deliver, ToolTakes, dbVars
<1>8. ASSUME NEW c, TakeCode(c) \/ ToolFetch(c)
      PROVE  EntitlementsKept
  BY <1>1, <1>8 DEF TakeCode, ToolFetch, Starts, dbVars
<1>9. CASE GrantByEvent \/ GrantByTool
  BY <1>2, <1>9 DEF GrantByEvent, GrantByTool
<1>10. CASE InsertFails \/ EventDone \/ ToolChecks \/ ToolEnds \/ BeginDeploy \/ StopProduct \/ Tick
  BY <1>1, <1>10 DEF InsertFails, EventDone, ToolChecks, ToolEnds, BeginDeploy, Starts, StopProduct, Tick, dbVars
<1>11. ASSUME NEW s \in {Server, Tool}, LookForColumn(s) \/ AddColumn(s) \/ MarkCampaign(s) \/ StartDies(s)
       PROVE  EntitlementsKept
  BY <1>1, <1>11 DEF LookForColumn, AddColumn, MarkCampaign, StartDies, dbVars
<1>12. CASE UNCHANGED walletVars
  BY <1>1, <1>12 DEF walletVars, campaignVars
<1> QED BY <1>3, <1>4, <1>5, <1>6, <1>7, <1>8, <1>9, <1>10, <1>11, <1>12 DEF WalletNext

\* Once carried over, a code is set to be issued only by a manager who saves a row that says so,
\* and by a start that had found no column by then.
FlagsKept ==
  \A c \in DOMAIN def \cap DOMAIN def' :
    marked /\ def'[c].auto /\ ~def[c].auto =>
      SetsFlag(c) \/ \E s \in early : at[s] = <<"mark">> /\ at'[s] # at[s]

LEMMA FlagsStep ==
  ASSUME WalletAssumption, WalletInv, [WalletNext]_walletVars
  PROVE  FlagsKept
<1>1. ASSUME \A c \in DOMAIN def \cap DOMAIN def' : def'[c] = def[c]
      PROVE  FlagsKept
  BY <1>1 DEF FlagsKept
<1>2. ASSUME UNCHANGED def
      PROVE  FlagsKept
  BY <1>2 DEF FlagsKept
<1>3. ASSUME NEW s \in {Server, Tool}, MarkCampaign(s)
      PROVE  FlagsKept
  BY <1>3, MarkKeeps DEF FlagsKept
<1>4. ASSUME NEW m \in Manager, WriteRow(m)
      PROVE  FlagsKept
  BY <1>4 DEF WriteRow, SetDefs, FlagsKept, SetsFlag
<1>5. ASSUME NEW c \in Code, Delete(c)
      PROVE  FlagsKept
  <2>1. def' = [x \in DOMAIN def \ {c} |-> def[x]]
    BY <1>5 DEF Delete, SetDefs
  <2> QED BY <1>1, <2>1
<1>6. ASSUME NEW c \in Code, NEW d \in NewDefs, Create(c, d)
      PROVE  FlagsKept
  <2>1. def' = [x \in DOMAIN def \cup {c} |-> IF x = c THEN d ELSE def[x]] /\ c \notin DOMAIN def
    BY <1>6 DEF Create, SetDefs
  <2> QED BY <1>1, <2>1
<1>7. ASSUME NEW m \in Manager, NEW c \in Code,
             (\E p \in Patches : JudgePatch(m, c, p)) \/ (\E u \in Customer : IssueByHand(m, c, u))
      PROVE  FlagsKept
  BY <1>2, <1>7 DEF JudgePatch, IssueByHand, dbVars
<1>8. ASSUME NEW m \in Manager, LoadRow(m) \/ GrantByHand(m)
      PROVE  FlagsKept
  BY <1>2, <1>8 DEF LoadRow, GrantByHand, dbVars
<1>9. ASSUME NEW k \in DOMAIN ent, Revoke(k)
      PROVE  FlagsKept
  BY <1>2, <1>9 DEF Revoke
<1>10. ASSUME NEW u \in Customer, Register(u) \/ Deliver(u) \/ ToolTakes(u)
       PROVE  FlagsKept
  BY <1>2, <1>10 DEF Register, Deliver, ToolTakes, dbVars
<1>11. ASSUME NEW c, TakeCode(c) \/ ToolFetch(c)
       PROVE  FlagsKept
  BY <1>2, <1>11 DEF TakeCode, ToolFetch, Starts, dbVars
<1>12. CASE GrantByEvent \/ GrantByTool \/ InsertFails \/ EventDone \/ ToolChecks \/ ToolEnds
  BY <1>2, <1>12 DEF GrantByEvent, GrantByTool, InsertFails, EventDone, ToolChecks, ToolEnds, dbVars
<1>13. CASE BeginDeploy \/ StopProduct \/ Tick
  BY <1>2, <1>13 DEF BeginDeploy, Starts, StopProduct, Tick, dbVars
<1>14. ASSUME NEW s \in {Server, Tool}, LookForColumn(s) \/ AddColumn(s) \/ StartDies(s)
       PROVE  FlagsKept
  BY <1>2, <1>14 DEF LookForColumn, AddColumn, StartDies, dbVars
<1>15. CASE UNCHANGED walletVars
  BY <1>2, <1>15 DEF walletVars, campaignVars
<1> QED BY <1>3, <1>4, <1>5, <1>6, <1>7, <1>8, <1>9, <1>10, <1>11, <1>12, <1>13, <1>14, <1>15 DEF WalletNext

(* However often product and the tool are started, together or one after the *)
(* other, die and start again: a cleared flag comes back at most with a      *)
(* start that had found no column before the campaign was carried over, and  *)
(* no delivery, run or click revives or prolongs an entitlement              *)
(* (migrateAutoIssue, Issue).                                                *)
THEOREM WithdrawalsStay == WalletSpec => WithdrawnStays
<1>1. WalletInv /\ [WalletNext]_walletVars =>
        [/\ \A c \in DOMAIN def \cap DOMAIN def' :
              marked /\ def'[c].auto /\ ~def[c].auto =>
                SetsFlag(c) \/ \E s \in early : at[s] = <<"mark">> /\ at'[s] # at[s]
         /\ \A k \in DOMAIN ent :
              k \in DOMAIN ent' /\ ent'[k].until = ent[k].until /\ (ent[k].revoked => ent'[k].revoked)]_walletVars
  BY EntitlementsStep, FlagsStep, WalletAssumption DEF EntitlementsKept, FlagsKept
<1> QED BY <1>1, WalletInvariant, PTL DEF WalletSpec, WithdrawnStays

(**************************************************************************)
(* SkuRollout: wherever starts die and whatever is written meanwhile, who *)
(* serves has its keys, no id is given twice, and no line is lost.        *)
(**************************************************************************)

VariantRow == [product : Product, id : Nat]
LineRow    == [sku : Name, id : Nat]

RolloutTyped ==
  /\ at = [s \in Service |-> at[s]]
  /\ product \subseteq Product
  /\ DOMAIN variant \subseteq Name
  /\ variant \in [DOMAIN variant -> VariantRow]
  /\ variantKey \in {"sku", "none", "sku_id"}
  /\ lastId \in Nat
  /\ item = [t \in Table |-> item[t]]
  /\ \A t \in Table : item[t] \in [DOMAIN item[t] -> LineRow]
  /\ itemKey \in [Table -> {"sku", "none", "sku_id"}]
  /\ pending = [s \in Migrating |-> pending[s]]
  /\ found \in [sku : Name \cup {""}, id : Nat]

\* How far a start of product got says what it has left of keys and ids.
ProductStart ==
  /\ at["product"] \in {<<"list">>, <<"ids">>, <<"key">>} => variantKey = "sku" \/ skuUnique
  /\ at["product"] = <<"ids">> => Missing(variant) = pending["product"]
  /\ at["product"] \in {<<"key">>, <<"drop">>, <<"add">>, <<"unique">>, Serving} => Missing(variant) = {}
  /\ at["product"] \in {<<"unique">>, Serving} => variantKey = "sku_id"
  /\ at["product"] = Serving => skuUnique

\* A line table loses its key only when each of its lines has an id, ...
TablesStart ==
  \A t \in Table :
    /\ itemKey[t] # "sku" => Missing(item[t]) = {}
    /\ at[Owner(t)] \in {Step(t, "drop"), Step(t, "add")} => Missing(item[t]) = {}
    /\ at[Owner(t)] = Serving => itemKey[t] # "none"

\* ... and a start does not leave the first table of order without one.
FirstTableKeyed ==
  at["order"] \in {Step(OrderTables[2], "look"), Step(OrderTables[2], "drop"), Step(OrderTables[2], "add")} =>
    itemKey[OrderTables[1]] # "none"

\* Ids are handed out in order, and whoever has one has it from there.
NamesGiven ==
  /\ \A a \in named : a[2] \in 1 .. lastId
  /\ \A a, b \in named : a[2] = b[2] => a = b
  /\ \A s \in DOMAIN variant : variant[s].id # 0 => <<s, variant[s].id>> \in named
  /\ found.id # 0 => <<found.sku, found.id>> \in named
  /\ \A t \in Table : \A l \in DOMAIN item[t] :
       item[t][l].id # 0 => <<item[t][l].sku, item[t][l].id>> \in named

RolloutInv == RolloutTyped /\ ProductStart /\ TablesStart /\ FirstTableKeyed /\ NamesGiven

----------------------------------------------------------------------------
(* Tables, services and steps.                                              *)

LEMMA TheTables ==
  ASSUME RolloutAssumption
  PROVE  /\ Table = {OrderTables[1], OrderTables[2], CartTable}
         /\ OrderTables[1] # OrderTables[2] /\ CartTable # OrderTables[1] /\ CartTable # OrderTables[2]
         /\ Owner(CartTable) = "cart" /\ Owner(OrderTables[1]) = "order" /\ Owner(OrderTables[2]) = "order"
         /\ {"product", "order", "cart", "backfill"} \subseteq Service
BY DEF RolloutAssumption, Table, Owner, Migrating

LEMMA TheSteps ==
  /\ \A t, what : Step(t, what) # Serving /\ Step(t, what) # Down
  /\ \A t, u, a, b : Step(t, a) = Step(u, b) => t = u /\ a = b
  /\ Serving # Down
<1>1. \A t, what : Step(t, what) # Serving /\ Step(t, what) # Down
  <2> SUFFICES ASSUME NEW t, NEW what
               PROVE  Step(t, what) # Serving /\ Step(t, what) # Down
    OBVIOUS
  <2>1. DOMAIN Step(t, what) = {1, 2} /\ DOMAIN Serving = {1} /\ DOMAIN Down = {1}
    BY DEF Step, Serving, Down
  <2> QED BY <2>1
<1>2. \A t, u, a, b : Step(t, a) = Step(u, b) => t = u /\ a = b
  BY DEF Step
<1>3. Serving # Down
  BY DEF Serving, Down
<1> QED BY <1>1, <1>2, <1>3

LEMMA GoesTo ==
  ASSUME RolloutTyped, NEW s \in Service, NEW next, Goto(s, next)
  PROVE  /\ at' = [p \in Service |-> at'[p]]
         /\ at'[s] = next /\ \A p \in Service : p # s => at'[p] = at[p]
BY DEF Goto, RolloutTyped

\* What is not said to change keeps its part of the invariant.
LEMMA TablesRest ==
  ASSUME RolloutAssumption, RolloutInv, UNCHANGED <<item, itemKey>>, at'["order"] = at["order"], at'["cart"] = at["cart"]
  PROVE  TablesStart' /\ FirstTableKeyed'
BY TheTables DEF RolloutInv, TablesStart, FirstTableKeyed, Missing, Step

LEMMA ProductRests ==
  ASSUME RolloutInv, UNCHANGED <<variant, variantKey, skuUnique>>, at'["product"] = at["product"],
         pending'["product"] = pending["product"]
  PROVE  ProductStart'
BY DEF RolloutInv, ProductStart, Missing

\* Stopping a service asks nothing of keys and ids.
LEMMA Stopped ==
  ASSUME RolloutAssumption, RolloutInv, UNCHANGED rolloutVars, NEW s \in Service, Goto(s, Down)
  PROVE  RolloutInv'
<1>1. /\ at' = [p \in Service |-> at'[p]]
      /\ at'[s] = Down /\ \A p \in Service : p # s => at'[p] = at[p]
  BY GoesTo DEF RolloutInv
<1>2. RolloutTyped' /\ NamesGiven'
  BY <1>1 DEF RolloutInv, RolloutTyped, NamesGiven, rolloutVars
<1>3. ProductStart'
  <2>1. CASE s = "product"
    BY <1>1, <2>1 DEF ProductStart, Down, Serving
  <2>2. CASE s # "product"
    <3>1. UNCHANGED <<variant, variantKey, skuUnique>> /\ at'["product"] = at["product"] /\ pending'["product"] = pending["product"]
      BY <1>1, <2>2, TheTables DEF rolloutVars
    <3> QED BY <3>1, ProductRests
  <2> QED BY <2>1, <2>2
<1>4. UNCHANGED <<item, itemKey>>
  BY DEF rolloutVars
<1>5. \A p \in {"order", "cart"} : at'[p] = at[p] \/ at'[p] = Down
  BY <1>1, TheTables
<1>6. TablesStart'
  <2> SUFFICES ASSUME NEW t \in Table
               PROVE  /\ itemKey[t] # "sku" => Missing(item[t]) = {}
                      /\ at'[Owner(t)] \in {Step(t, "drop"), Step(t, "add")} => Missing(item[t]) = {}
                      /\ at'[Owner(t)] = Serving => itemKey[t] # "none"
    BY <1>4 DEF TablesStart, Missing, Step, Owner
  <2>1. Owner(t) \in {"order", "cart"}
    BY DEF Owner
  <2>2. CASE at'[Owner(t)] = at[Owner(t)]
    BY <2>2 DEF RolloutInv, TablesStart
  <2>3. CASE at'[Owner(t)] = Down
    BY <2>3, TheSteps DEF RolloutInv, TablesStart
  <2> QED BY <1>5, <2>1, <2>2, <2>3
<1>7. FirstTableKeyed'
  BY <1>4, <1>5, TheSteps DEF RolloutInv, FirstTableKeyed, Step
<1> QED BY <1>2, <1>3, <1>6, <1>7 DEF RolloutInv

----------------------------------------------------------------------------
(* The start of product.                                                    *)

LEMMA ProductStep ==
  ASSUME RolloutAssumption, RolloutInv, at'["order"] = at["order"], at'["cart"] = at["cart"],
         at' = [p \in Service |-> at'[p]],
         UNCHANGED <<item, itemKey, found>>, product' \subseteq Product,
         DOMAIN variant' \subseteq Name, variant' \in [DOMAIN variant' -> VariantRow],
         variantKey' \in {"sku", "none", "sku_id"}, lastId' \in Nat,
         pending' = [s \in Migrating |-> pending'[s]], ProductStart', NamesGiven'
  PROVE  RolloutInv'
<1>1. TablesStart' /\ FirstTableKeyed'
  BY TablesRest
<1> QED BY <1>1 DEF RolloutInv, RolloutTyped

\* Rows and ids stay, but for rows without an id.
LEMMA NamesKept ==
  ASSUME RolloutInv, UNCHANGED <<named, lastId, item, found>>,
         \A s \in DOMAIN variant' : variant'[s].id # 0 => s \in DOMAIN variant /\ variant'[s] = variant[s]
  PROVE  NamesGiven'
BY DEF RolloutInv, NamesGiven

LEMMA BackfillVariantsKeeps ==
  ASSUME RolloutAssumption, RolloutInv, BackfillVariants
  PROVE  RolloutInv'
<1>1. CASE ~MayBackfill
  <2>1. UNCHANGED rolloutVars /\ Goto("product", Down)
    BY <1>1 DEF BackfillVariants, Refuse, rolloutVars
  <2> QED BY <2>1, Stopped, TheTables
<1>2. CASE MayBackfill
  <2>1. /\ Goto("product", <<"list">>)
        /\ variant' = [s \in DOMAIN variant \cup Bare |-> IF s \in DOMAIN variant THEN variant[s] ELSE [product |-> s, id |-> 0]]
        /\ UNCHANGED <<product, variantKey, skuUnique, idRequired, lastId, item, itemKey, pending, found, named>>
    BY <1>2 DEF BackfillVariants, Run
  <2>2. at' = [p \in Service |-> at'[p]] /\ at'["product"] = <<"list">> /\ at'["order"] = at["order"] /\ at'["cart"] = at["cart"]
    BY <2>1, GoesTo, TheTables DEF RolloutInv
  <2>3. Bare \subseteq Product /\ Product \subseteq Name
    BY DEF Bare, RolloutInv, RolloutTyped, RolloutAssumption
  <2>4. DOMAIN variant' \subseteq Name /\ variant' \in [DOMAIN variant' -> VariantRow]
    BY <2>1, <2>3 DEF RolloutInv, RolloutTyped, VariantRow
  <2>5. \A s \in DOMAIN variant' : variant'[s].id # 0 => s \in DOMAIN variant /\ variant'[s] = variant[s]
    BY <2>1
  <2>6. NamesGiven'
    BY <2>1, <2>5, NamesKept
  <2>7. ProductStart'
    BY <1>2, <2>1, <2>2 DEF ProductStart, MayBackfill, Serving
  <2> QED BY <2>1, <2>2, <2>4, <2>6, <2>7, ProductStep DEF RolloutInv, RolloutTyped
<1> QED BY <1>1, <1>2

LEMMA ListMissingKeeps ==
  ASSUME RolloutAssumption, RolloutInv, ListMissing
  PROVE  RolloutInv'
<1>1. /\ at["product"] = <<"list">> /\ Goto("product", <<"ids">>)
      /\ pending' = [pending EXCEPT !["product"] = Missing(variant)]
      /\ UNCHANGED <<product, variant, variantKey, skuUnique, lastId, named, item, itemKey, found>>
  BY DEF ListMissing, Run, productVars
<1>2. at' = [p \in Service |-> at'[p]] /\ at'["product"] = <<"ids">> /\ at'["order"] = at["order"] /\ at'["cart"] = at["cart"]
  BY <1>1, GoesTo, TheTables DEF RolloutInv
<1>3. pending' = [s \in Migrating |-> pending'[s]] /\ pending'["product"] = Missing(variant)
  BY <1>1 DEF RolloutInv, RolloutTyped, Migrating
<1>4. NamesGiven'
  BY <1>1, NamesKept
<1>5. ProductStart'
  BY <1>1, <1>2, <1>3 DEF RolloutInv, ProductStart, Serving, Missing
<1> QED BY <1>1, <1>2, <1>3, <1>4, <1>5, ProductStep DEF RolloutInv, RolloutTyped

\* A new id is nobody else's.
LEMMA NewName ==
  ASSUME RolloutInv, NEW s, lastId' = lastId + 1, named' = named \cup {<<s, lastId + 1>>}, UNCHANGED <<item, found>>,
         \A r \in DOMAIN variant' :
           \/ r \in DOMAIN variant /\ variant'[r] = variant[r]
           \/ r = s /\ variant'[r].id = lastId + 1
  PROVE  NamesGiven'
<1>1. lastId \in Nat
  BY DEF RolloutInv, RolloutTyped
<1>2. \A a \in named : a[2] \in 1 .. lastId
  BY DEF RolloutInv, NamesGiven
<1>3. \A a \in named' : a[2] \in 1 .. lastId'
  BY <1>1, <1>2
<1>4. \A a, b \in named' : a[2] = b[2] => a = b
  <2>1. ASSUME NEW a \in named', NEW b \in named', a[2] = b[2]
        PROVE  a = b
    <3>1. CASE a \in named /\ b \in named
      BY <2>1, <3>1 DEF RolloutInv, NamesGiven
    <3>2. CASE a \notin named \/ b \notin named
      <4>1. a[2] = lastId + 1 /\ b[2] = lastId + 1
        BY <2>1, <3>2
      <4>2. a = <<s, lastId + 1>> /\ b = <<s, lastId + 1>>
        BY <1>1, <1>2, <4>1
      <4> QED BY <4>2
    <3> QED BY <3>1, <3>2
  <2> QED BY <2>1
<1>5. \A r \in DOMAIN variant' : variant'[r].id # 0 => <<r, variant'[r].id>> \in named'
  BY DEF RolloutInv, NamesGiven
<1>6. /\ found'.id # 0 => <<found'.sku, found'.id>> \in named'
      /\ \A t \in Table : \A l \in DOMAIN item'[t] :
           item'[t][l].id # 0 => <<item'[t][l].sku, item'[t][l].id>> \in named'
  BY DEF RolloutInv, NamesGiven
<1> QED BY <1>3, <1>4, <1>5, <1>6 DEF NamesGiven

LEMMA GiveIdKeeps ==
  ASSUME RolloutAssumption, RolloutInv, NEW s, GiveId(s)
  PROVE  /\ RolloutInv' /\ DOMAIN variant' = DOMAIN variant
         /\ \A r \in DOMAIN variant : variant[r].id # 0 => variant'[r] = variant[r]
<1>1. /\ at["product"] = <<"ids">> /\ s \in pending["product"]
      /\ lastId' = lastId + 1 /\ variant' = [variant EXCEPT ![s].id = lastId + 1]
      /\ named' = named \cup {<<s, lastId + 1>>}
      /\ pending' = [pending EXCEPT !["product"] = @ \ {s}]
      /\ UNCHANGED <<at, product, variantKey, skuUnique, item, itemKey, found>>
  BY DEF GiveId, startupVars
<1>2. pending["product"] = Missing(variant) /\ s \in DOMAIN variant /\ variant[s].id = 0
  BY <1>1 DEF RolloutInv, ProductStart, Missing
<1>3. variant \in [DOMAIN variant -> VariantRow] /\ lastId \in Nat /\ variant[s] \in VariantRow
  BY <1>2 DEF RolloutInv, RolloutTyped
<1>4. /\ variant'[s] \in VariantRow /\ variant'[s].id = lastId + 1
      /\ DOMAIN variant' = DOMAIN variant /\ \A r \in DOMAIN variant : r # s => variant'[r] = variant[r]
      /\ variant' = [r \in DOMAIN variant |-> variant'[r]]
  <2> DEFINE next == [variant[s] EXCEPT !.id = lastId + 1]
  <2>1. next \in VariantRow /\ next.id = lastId + 1
    BY <1>3 DEF VariantRow
  <2>2. variant' = [variant EXCEPT ![s] = next]
    BY <1>1, <1>2, <1>3
  <2> HIDE DEF next
  <2> QED BY <1>2, <1>3, <2>1, <2>2
<1>5. variant' \in [DOMAIN variant' -> VariantRow] /\ DOMAIN variant' \subseteq Name
  BY <1>3, <1>4 DEF RolloutInv, RolloutTyped
<1>6. NamesGiven'
  BY <1>1, <1>4, NewName
<1>7. pending' = [p \in Migrating |-> pending'[p]] /\ pending'["product"] = pending["product"] \ {s}
  BY <1>1 DEF RolloutInv, RolloutTyped, Migrating
<1>8. Missing(variant)' = Missing(variant) \ {s}
  BY <1>2, <1>3, <1>4 DEF Missing
<1>9. ProductStart'
  BY <1>1, <1>2, <1>7, <1>8 DEF RolloutInv, ProductStart, Serving
<1>10. lastId' \in Nat
  BY <1>1, <1>3
<1>11. RolloutInv'
  BY <1>1, <1>5, <1>6, <1>7, <1>9, <1>10, ProductStep DEF RolloutInv, RolloutTyped
<1> QED BY <1>2, <1>4, <1>11

LEMMA KeyStepsKeep ==
  ASSUME RolloutAssumption, RolloutInv, RequireIds \/ DropVariantKey \/ AddVariantKey \/ KeepSkuUnique
  PROVE  RolloutInv'
<1>1. UNCHANGED <<product, variant, lastId, item, itemKey, pending, found, named>>
  BY DEF RequireIds, DropVariantKey, AddVariantKey, KeepSkuUnique
<1>2. PICK next : Goto("product", next)
  BY DEF RequireIds, DropVariantKey, AddVariantKey, KeepSkuUnique, Run
<1>3. /\ at' = [p \in Service |-> at'[p]] /\ at'["order"] = at["order"] /\ at'["cart"] = at["cart"]
      /\ at'["product"] = next
  BY <1>2, GoesTo, TheTables DEF RolloutInv
<1>4. NamesGiven' /\ Missing(variant)' = Missing(variant)
  BY <1>1, NamesKept DEF Missing
<1>5. variantKey' \in {"sku", "none", "sku_id"} /\ ProductStart'
  <2>1. CASE RequireIds
    <3>1. /\ at["product"] = <<"ids">> /\ at'["product"] = <<"key">> /\ pending["product"] = {}
          /\ UNCHANGED <<variantKey, skuUnique>>
      BY <2>1, GoesTo, TheTables DEF RequireIds, Run, RolloutInv
    <3>2. (variantKey = "sku" \/ skuUnique) /\ Missing(variant) = {}
      BY <3>1 DEF RolloutInv, ProductStart
    <3>3. variantKey' \in {"sku", "none", "sku_id"}
      BY <3>1 DEF RolloutInv, RolloutTyped
    <3>4. ProductStart'
      BY <1>4, <3>1, <3>2 DEF ProductStart, Serving
    <3> QED BY <3>3, <3>4
  <2>2. CASE DropVariantKey
    <3>1. at["product"] = <<"drop">> /\ at'["product"] = <<"add">> /\ variantKey' = "none"
      BY <2>2, GoesTo, TheTables DEF DropVariantKey, Run, RolloutInv
    <3> QED BY <1>4, <3>1 DEF RolloutInv, ProductStart, Serving
  <2>3. CASE AddVariantKey
    <3>1. at["product"] = <<"add">> /\ at'["product"] = <<"unique">> /\ variantKey' = "sku_id"
      BY <2>3, GoesTo, TheTables DEF AddVariantKey, Run, RolloutInv
    <3> QED BY <1>4, <3>1 DEF RolloutInv, ProductStart, Serving
  <2>4. CASE KeepSkuUnique
    <3>1. at["product"] = <<"unique">> /\ at'["product"] = Serving /\ skuUnique' = TRUE /\ UNCHANGED variantKey
      BY <2>4, GoesTo, TheTables DEF KeepSkuUnique, Run, RolloutInv
    <3>2. variantKey = "sku_id" /\ Missing(variant) = {}
      BY <3>1 DEF RolloutInv, ProductStart
    <3>3. ProductStart'
      BY <1>4, <3>1, <3>2 DEF ProductStart, Serving
    <3> QED BY <3>1, <3>2, <3>3
  <2> QED BY <2>1, <2>2, <2>3, <2>4
<1> QED BY <1>1, <1>3, <1>4, <1>5, ProductStep DEF RolloutInv, RolloutTyped

LEMMA ReadVariantKeyKeeps ==
  ASSUME RolloutAssumption, RolloutInv, ReadVariantKey
  PROVE  RolloutInv'
<1>1. UNCHANGED rolloutVars /\ UNCHANGED <<product, variant, variantKey, skuUnique, lastId, item, itemKey, pending, found, named>>
  BY DEF ReadVariantKey, rolloutVars
<1>2. variantKey \in {"sku", "none", "sku_id"}
  BY DEF RolloutInv, RolloutTyped
<1>3. CASE variantKey = "none"
  <2>1. Goto("product", Down)
    BY <1>3 DEF ReadVariantKey, Refuse
  <2> QED BY <1>1, <2>1, Stopped, TheTables
<1>4. CASE variantKey \in {"sku", "sku_id"}
  <2>1. PICK next : /\ at["product"] = <<"key">> /\ Goto("product", next)
                    /\ (variantKey = "sku_id" /\ next = Serving) \/ (variantKey = "sku" /\ next = <<"drop">>)
    BY <1>4 DEF ReadVariantKey, Run
  <2>2. /\ at' = [p \in Service |-> at'[p]] /\ at'["order"] = at["order"] /\ at'["cart"] = at["cart"]
        /\ at'["product"] = next
    BY <2>1, GoesTo, TheTables DEF RolloutInv
  <2>3. NamesGiven' /\ Missing(variant)' = Missing(variant)
    BY <1>1, NamesKept DEF Missing
  <2>4. ProductStart'
    BY <1>1, <2>1, <2>2, <2>3 DEF RolloutInv, ProductStart, Serving
  <2> QED BY <1>1, <2>2, <2>3, <2>4, ProductStep DEF RolloutInv, RolloutTyped
<1> QED BY <1>2, <1>3, <1>4

LEMMA VariantsKeep ==
  ASSUME RolloutAssumption, RolloutInv, NEW p \in Product, NEW s \in Name,
         CreateProduct(p) \/ CreateVariant(p, s) \/ DeleteVariant(s)
  PROVE  RolloutInv' /\ \A r \in DOMAIN variant \cap DOMAIN variant' : variant'[r] = variant[r]
<1>1. Up("product") /\ at["product"] = Serving /\ Missing(variant) = {}
      /\ UNCHANGED <<at, variantKey, skuUnique, item, itemKey, pending, found>>
  BY DEF CreateProduct, CreateVariant, DeleteVariant, startupVars, Up, RolloutInv, ProductStart
<1>2. variant \in [DOMAIN variant -> VariantRow] /\ DOMAIN variant \subseteq Name /\ lastId \in Nat
  BY DEF RolloutInv, RolloutTyped
<1>3. CASE CreateProduct(p) \/ DeleteVariant(s)
  <2>1. /\ UNCHANGED <<lastId, named>> /\ product' \subseteq Product
        /\ DOMAIN variant' \subseteq DOMAIN variant /\ \A r \in DOMAIN variant' : variant'[r] = variant[r]
        /\ variant' = [r \in DOMAIN variant' |-> variant'[r]]
    <3>1. CASE CreateProduct(p)
      BY <1>2, <3>1 DEF CreateProduct, RolloutInv, RolloutTyped
    <3>2. CASE DeleteVariant(s)
      <4>1. variant' = [r \in DOMAIN variant \ {s} |-> variant[r]] /\ UNCHANGED <<product, lastId, named>>
        BY <3>2 DEF DeleteVariant, Without, Restrict
      <4> QED BY <1>2, <4>1 DEF RolloutInv, RolloutTyped
    <3> QED BY <1>3, <3>1, <3>2
  <2>2. NamesGiven'
    BY <1>1, <2>1, NamesKept
  <2>3. Missing(variant)' = {}
    BY <1>1, <2>1 DEF Missing
  <2>4. ProductStart'
    BY <1>1, <2>3 DEF RolloutInv, ProductStart, Serving
  <2>5. DOMAIN variant' \subseteq Name /\ variant' \in [DOMAIN variant' -> VariantRow]
    BY <1>2, <2>1
  <2> QED BY <1>1, <2>1, <2>2, <2>4, <2>5, ProductStep DEF RolloutInv, RolloutTyped
<1>4. CASE CreateVariant(p, s)
  <2>1. /\ lastId' = lastId + 1 /\ named' = named \cup {<<s, lastId + 1>>} /\ s \notin DOMAIN variant
        /\ variant' = [r \in DOMAIN variant \cup {s} |-> IF r = s THEN [product |-> p, id |-> lastId + 1] ELSE variant[r]]
        /\ UNCHANGED product
    BY <1>4 DEF CreateVariant, With
  <2>2. variant'[s] = [product |-> p, id |-> lastId + 1] /\ \A r \in DOMAIN variant : variant'[r] = variant[r]
    BY <2>1
  <2>3. NamesGiven'
    <3>1. DOMAIN variant' = DOMAIN variant \cup {s}
      BY <2>1
    <3>2. variant'[s].id = lastId + 1
      BY <2>2
    <3> QED BY <1>1, <2>1, <2>2, <3>1, <3>2, NewName
  <2>4. Missing(variant)' = {}
    BY <1>1, <1>2, <2>1, <2>2 DEF Missing
  <2>5. ProductStart'
    BY <1>1, <2>4 DEF RolloutInv, ProductStart, Serving
  <2>6. DOMAIN variant' \subseteq Name /\ variant' \in [DOMAIN variant' -> VariantRow] /\ lastId' \in Nat
    <3>1. [product |-> p, id |-> lastId + 1] \in VariantRow
      BY <1>2 DEF VariantRow
    <3> QED BY <1>2, <2>1, <2>2, <3>1
  <2> QED BY <1>1, <2>1, <2>2, <2>3, <2>5, <2>6, ProductStep DEF RolloutInv, RolloutTyped
<1> QED BY <1>3, <1>4

----------------------------------------------------------------------------
(* The start of order, table by table, and of cart.                         *)

LEMMA TableGoesOn ==
  ASSUME RolloutAssumption, RolloutInv, NEW t \in Table, NEW next, Goto(Owner(t), next),
         UNCHANGED <<productVars, pending, found>>,
         item' = [u \in Table |-> item'[u]], item'[t] \in [DOMAIN item'[t] -> LineRow],
         itemKey' \in [Table -> {"sku", "none", "sku_id"}],
         \A u \in Table \ {t} : item'[u] = item[u] /\ itemKey'[u] = itemKey[u],
         NamesGiven', itemKey'[t] # "sku" => Missing(item'[t]) = {},
         \/ at[Owner(t)] \in {Step(t, "look"), Step(t, "drop"), Step(t, "add")}
         \/ at[Owner(t)] = Step(t, "purge") /\ t = CartTable,
         \/ next = AfterTable(t) /\ itemKey'[t] # "none"
         \/ next = Step(t, "purge") /\ t = CartTable
         \/ next \in {Step(t, "drop"), Step(t, "add")} /\ Missing(item'[t]) = {}
  PROVE  RolloutInv'
<1>1. Owner(t) \in {"order", "cart"} /\ Owner(t) \in Service
  BY TheTables DEF Owner
<1>2. /\ at' = [p \in Service |-> at'[p]]
      /\ at'[Owner(t)] = next /\ \A p \in Service : p # Owner(t) => at'[p] = at[p]
  BY <1>1, GoesTo DEF RolloutInv
<1>3. at'["product"] = at["product"]
  BY <1>1, <1>2, TheTables
<1>4. ProductStart'
  BY <1>3, ProductRests DEF productVars
<1>5. RolloutTyped'
  <2>1. \A u \in Table : item'[u] \in [DOMAIN item'[u] -> LineRow]
    BY DEF RolloutInv, RolloutTyped
  <2> QED BY <1>2, <2>1 DEF RolloutInv, RolloutTyped, productVars
<1>6. t = OrderTables[2] => itemKey[OrderTables[1]] # "none"
  BY TheTables, TheSteps DEF RolloutInv, FirstTableKeyed
<1>7. t = OrderTables[1] => AfterTable(t) = Step(OrderTables[2], "look")
  BY DEF AfterTable
<1>8. t # OrderTables[1] => AfterTable(t) = Serving
  BY DEF AfterTable
<1>9. ASSUME NEW u \in Table
      PROVE  /\ itemKey'[u] # "sku" => Missing(item'[u]) = {}
             /\ at'[Owner(u)] \in {Step(u, "drop"), Step(u, "add")} => Missing(item'[u]) = {}
             /\ at'[Owner(u)] = Serving => itemKey'[u] # "none"
  <2>1. CASE u = t
    <3>1. CASE next = AfterTable(t) /\ itemKey'[t] # "none"
      <4>1. next \notin {Step(u, "drop"), Step(u, "add")}
        BY <1>7, <1>8, <2>1, <3>1, TheSteps
      <4> QED BY <1>2, <2>1, <3>1, <4>1
    <3>2. CASE ~(next = AfterTable(t) /\ itemKey'[t] # "none")
      <4>1. next # Serving /\ (next \in {Step(u, "drop"), Step(u, "add")} => Missing(item'[t]) = {})
        BY <2>1, <3>2, TheSteps
      <4> QED BY <1>2, <2>1, <4>1
    <3> QED BY <3>1, <3>2
  <2>2. CASE u # t
    <3>1. item'[u] = item[u] /\ itemKey'[u] = itemKey[u] /\ Missing(item'[u]) = Missing(item[u])
      BY <2>2
    <3>2. CASE Owner(u) # Owner(t)
      <4>1. Owner(u) \in Service
        BY TheTables DEF Owner
      <4>2. at'[Owner(u)] = at[Owner(u)]
        BY <1>2, <3>2, <4>1
      <4> QED BY <3>1, <4>2 DEF RolloutInv, TablesStart
    <3>3. CASE Owner(u) = Owner(t)
      <4>1. at'[Owner(u)] = next /\ t # CartTable /\ u # CartTable
        BY <1>2, <2>2, <3>3, TheTables
      <4>2. next \notin {Step(u, "drop"), Step(u, "add")}
        BY <1>7, <1>8, <2>2, <4>1, TheSteps
      <4>3. next = Serving => u = OrderTables[1] /\ t = OrderTables[2]
        BY <1>7, <1>8, <2>2, <4>1, TheTables, TheSteps
      <4> QED BY <1>6, <3>1, <4>1, <4>2, <4>3 DEF RolloutInv, TablesStart
    <3> QED BY <3>2, <3>3
  <2> QED BY <2>1, <2>2
<1>10. TablesStart'
  <2>1. \A u : Missing(item[u])' = Missing(item'[u]) /\ Owner(u)' = Owner(u)
    BY DEF Missing, Owner
  <2> QED BY <1>9, <2>1 DEF TablesStart, Step, Owner
<1>11. at'["order"] \in {Step(OrderTables[2], "look"), Step(OrderTables[2], "drop"), Step(OrderTables[2], "add")} =>
         itemKey'[OrderTables[1]] # "none"
  <2>1. CASE t = CartTable
    <3>1. at'["order"] = at["order"] /\ itemKey'[OrderTables[1]] = itemKey[OrderTables[1]]
      BY <1>2, <2>1, TheTables
    <3> QED BY <3>1 DEF RolloutInv, FirstTableKeyed
  <2>2. CASE t = OrderTables[1]
    <3>1. at'["order"] = next
      BY <1>2, <2>2, TheTables
    <3> QED BY <2>2, <3>1, TheTables, TheSteps
  <2>3. CASE t = OrderTables[2]
    BY <1>6, <2>3, TheTables
  <2> QED BY <2>1, <2>2, <2>3, TheTables
<1>12. FirstTableKeyed'
  BY <1>11 DEF FirstTableKeyed, Step
<1> QED BY <1>4, <1>5, <1>10, <1>12 DEF RolloutInv

\* Ids of lines that stay as they are, or go.
LEMMA LineNamesKept ==
  ASSUME RolloutInv, UNCHANGED <<named, lastId, variant, found>>,
         \A t \in Table : \A l \in DOMAIN item'[t] :
           item'[t][l].id # 0 =>
             \/ l \in DOMAIN item[t] /\ item'[t][l] = item[t][l]
             \/ <<item'[t][l].sku, item'[t][l].id>> \in named
  PROVE  NamesGiven'
BY DEF RolloutInv, NamesGiven

LEMMA LookKeeps ==
  ASSUME RolloutAssumption, RolloutInv, NEW t \in Table, Look(t)
  PROVE  RolloutInv'
<1>1. UNCHANGED rolloutVars /\ UNCHANGED <<productVars, pending, found>> /\ UNCHANGED <<item, itemKey>>
      /\ UNCHANGED <<named, lastId, variant, found>>
  BY DEF Look, rolloutVars, productVars
<1>2. PICK next :
        /\ at[Owner(t)] = Step(t, "look") /\ Goto(Owner(t), next)
        /\ next = IF itemKey[t] = "sku_id" \/ (Owner(t) = "order" /\ Missing(item[t]) # {}) THEN AfterTable(t)
                  ELSE IF t = CartTable THEN Step(t, "purge") ELSE Step(t, "drop")
  BY DEF Look, Run
<1>3. NamesGiven'
  BY <1>1, LineNamesKept
<1>4. /\ item' = [u \in Table |-> item'[u]] /\ item'[t] \in [DOMAIN item'[t] -> LineRow]
      /\ itemKey' \in [Table -> {"sku", "none", "sku_id"}]
      /\ \A u \in Table \ {t} : item'[u] = item[u] /\ itemKey'[u] = itemKey[u]
  BY <1>1 DEF RolloutInv, RolloutTyped
<1>5. itemKey'[t] # "sku" => Missing(item'[t]) = {}
  BY <1>1 DEF RolloutInv, TablesStart
<1>6. \/ next = AfterTable(t) /\ itemKey'[t] # "none"
      \/ next = Step(t, "purge") /\ t = CartTable
      \/ next \in {Step(t, "drop"), Step(t, "add")} /\ Missing(item'[t]) = {}
  <2>1. t # CartTable => Owner(t) = "order"
    BY DEF Owner
  <2> QED BY <1>1, <1>2, <1>5, <2>1
<1> QED BY <1>1, <1>2, <1>3, <1>4, <1>5, <1>6, TableGoesOn

LEMMA PurgeKeeps ==
  ASSUME RolloutAssumption, RolloutInv, NEW t \in Table, Purge(t)
  PROVE  /\ RolloutInv' /\ t = CartTable /\ \A u \in Table \ {t} : item'[u] = item[u]
         /\ item'[t] = Restrict(item[t], DOMAIN item[t] \ Missing(item[t]))
<1>1. /\ t = CartTable /\ Owner(t) = "cart" /\ at[Owner(t)] = Step(t, "purge") /\ Goto(Owner(t), Step(t, "drop"))
      /\ item' = [item EXCEPT ![t] = Restrict(item[t], DOMAIN item[t] \ Missing(item[t]))]
      /\ UNCHANGED <<productVars, pending, found>> /\ UNCHANGED itemKey
  BY TheTables DEF Purge, Run
<1>2. /\ item' = [u \in Table |-> item'[u]] /\ \A u \in Table \ {t} : item'[u] = item[u] /\ itemKey'[u] = itemKey[u]
      /\ item'[t] = Restrict(item[t], DOMAIN item[t] \ Missing(item[t]))
  BY <1>1 DEF RolloutInv, RolloutTyped
<1>3. item'[t] = [l \in DOMAIN item[t] \ Missing(item[t]) |-> item[t][l]]
  BY <1>2 DEF Restrict
<1>4. item'[t] \in [DOMAIN item'[t] -> LineRow] /\ Missing(item'[t]) = {}
  <2>1. item[t] \in [DOMAIN item[t] -> LineRow]
    BY DEF RolloutInv, RolloutTyped
  <2>2. DOMAIN item'[t] = DOMAIN item[t] \ Missing(item[t])
    BY <1>3
  <2>3. \A l \in DOMAIN item'[t] : l \in DOMAIN item[t] /\ l \notin Missing(item[t]) /\ item'[t][l] = item[t][l]
    BY <1>3
  <2>4. Missing(item'[t]) = {}
    BY <2>3 DEF Missing
  <2>5. item'[t] \in [DOMAIN item'[t] -> LineRow]
    BY <1>3, <2>1, <2>2, <2>3
  <2> QED BY <2>4, <2>5
<1>5. NamesGiven'
  <2>1. \A u \in Table : \A l \in DOMAIN item'[u] : l \in DOMAIN item[u] /\ item'[u][l] = item[u][l]
    BY <1>2, <1>3
  <2>2. UNCHANGED <<named, lastId, variant, found>>
    BY <1>1 DEF productVars
  <2> QED BY <2>1, <2>2, LineNamesKept
<1>6. itemKey' \in [Table -> {"sku", "none", "sku_id"}]
  BY <1>1 DEF RolloutInv, RolloutTyped
<1>7. RolloutInv'
  BY <1>1, <1>2, <1>4, <1>5, <1>6, TableGoesOn
<1> QED BY <1>1, <1>2, <1>7

LEMMA KeyOfLinesKeeps ==
  ASSUME RolloutAssumption, RolloutInv, NEW t \in Table, DropKey(t) \/ AddKey(t)
  PROVE  RolloutInv'
<1>1. UNCHANGED <<productVars, pending, found>> /\ UNCHANGED <<named, lastId, variant, found>> /\ UNCHANGED item
  BY DEF DropKey, AddKey, productVars
<1>2. NamesGiven'
  BY <1>1, LineNamesKept
<1>3. item' = [u \in Table |-> item'[u]] /\ item'[t] \in [DOMAIN item'[t] -> LineRow]
  BY <1>1 DEF RolloutInv, RolloutTyped
<1>4. CASE itemKey[t] = "none" /\ Refuse(Owner(t), Step(t, "drop"), "no key") /\ UNCHANGED itemKey
  <2>1. Goto(Owner(t), Down) /\ UNCHANGED rolloutVars
    BY <1>1, <1>4 DEF Refuse, rolloutVars, productVars
  <2>2. Owner(t) \in Service
    BY TheTables DEF Owner
  <2> QED BY <2>1, <2>2, Stopped
<1>5. ASSUME NEW what \in {"drop", "add"}, NEW next, NEW key \in {"none", "sku_id"},
             at[Owner(t)] = Step(t, what), Goto(Owner(t), next), itemKey' = [itemKey EXCEPT ![t] = key],
             \/ next = Step(t, "add")
             \/ next = AfterTable(t) /\ key = "sku_id"
      PROVE  RolloutInv'
  <2>1. Missing(item'[t]) = {}
    BY <1>1, <1>5 DEF RolloutInv, TablesStart
  <2>2. itemKey' \in [Table -> {"sku", "none", "sku_id"}] /\ itemKey'[t] = key
        /\ \A u \in Table \ {t} : item'[u] = item[u] /\ itemKey'[u] = itemKey[u]
    BY <1>1, <1>5 DEF RolloutInv, RolloutTyped
  <2>3. \/ next = AfterTable(t) /\ itemKey'[t] # "none"
        \/ next \in {Step(t, "drop"), Step(t, "add")} /\ Missing(item'[t]) = {}
    BY <1>5, <2>1, <2>2
  <2> QED BY <1>1, <1>2, <1>3, <1>5, <2>1, <2>2, <2>3, TableGoesOn
<1>6. CASE itemKey[t] = "sku" /\ Run(Owner(t), Step(t, "drop"), Step(t, "add")) /\ itemKey' = [itemKey EXCEPT ![t] = "none"]
  BY <1>5, <1>6 DEF Run
<1>7. CASE AddKey(t)
  BY <1>5, <1>7 DEF AddKey, Run
<1> QED BY <1>4, <1>6, <1>7 DEF DropKey

----------------------------------------------------------------------------
(* Lines that are written, and the tool.                                    *)

\* No line without an id is added, and the services stay where they are.
LEMMA LinesStep ==
  ASSUME RolloutAssumption, RolloutInv, UNCHANGED <<productVars, itemKey>>, at' = [p \in Service |-> at'[p]],
         at'["product"] = at["product"], at'["order"] = at["order"], at'["cart"] = at["cart"],
         pending' = [p \in Migrating |-> pending'[p]], pending'["product"] = pending["product"],
         found' \in [sku : Name \cup {""}, id : Nat],
         item' = [u \in Table |-> item'[u]], \A u \in Table : item'[u] \in [DOMAIN item'[u] -> LineRow],
         \A u \in Table : Missing(item'[u]) \subseteq Missing(item[u]), NamesGiven'
  PROVE  RolloutInv'
<1>1. ProductStart'
  BY ProductRests DEF productVars
<1>2. RolloutTyped'
  BY DEF RolloutInv, RolloutTyped, productVars
<1>3. TablesStart'
  <2> SUFFICES ASSUME NEW t \in Table
               PROVE  /\ itemKey[t] # "sku" => Missing(item'[t]) = {}
                      /\ at[Owner(t)] \in {Step(t, "drop"), Step(t, "add")} => Missing(item'[t]) = {}
                      /\ at[Owner(t)] = Serving => itemKey[t] # "none"
    <3>1. \A u \in Table : at'[Owner(u)] = at[Owner(u)]
      BY DEF Owner
    <3> QED BY <3>1 DEF TablesStart, Missing, Step, Owner
  <2> QED BY DEF RolloutInv, TablesStart
<1>4. FirstTableKeyed'
  BY DEF RolloutInv, FirstTableKeyed, Step
<1> QED BY <1>1, <1>2, <1>3, <1>4 DEF RolloutInv

\* One table's lines change.
LEMMA OneTable ==
  ASSUME RolloutInv, NEW t \in Table, NEW lines, item' = [item EXCEPT ![t] = lines]
  PROVE  /\ item' = [u \in Table |-> item'[u]] /\ item'[t] = lines
         /\ \A u \in Table \ {t} : item'[u] = item[u]
BY DEF RolloutInv, RolloutTyped

LEMMA AddLineKeeps ==
  ASSUME RolloutAssumption, RolloutInv, NEW t \in Table, NEW l, NEW s \in Name, AddLine(t, l, s)
  PROVE  /\ RolloutInv' /\ \A u \in Table : DOMAIN item[u] \subseteq DOMAIN item'[u]
         /\ \A u \in Table : \A k \in DOMAIN item[u] : item'[u][k] = item[u][k]
<1> DEFINE new == [sku |-> s, id |-> variant[s].id]
<1>1. /\ UNCHANGED <<productVars, itemKey>> /\ UNCHANGED <<named, lastId, variant, found>> /\ UNCHANGED <<at, pending>>
      /\ at["product"] = Serving /\ s \in DOMAIN variant /\ l \notin DOMAIN item[t]
      /\ item' = [item EXCEPT ![t] = With(l, new, item[t])]
  BY DEF AddLine, startupVars, productVars, Up
<1>2. variant[s] \in VariantRow /\ variant[s].id # 0
  <2>1. Missing(variant) = {}
    BY <1>1 DEF RolloutInv, ProductStart
  <2> QED BY <1>1, <2>1 DEF RolloutInv, RolloutTyped, Missing
<1>3. <<s, variant[s].id>> \in named
  BY <1>1, <1>2 DEF RolloutInv, NamesGiven
<1>4. new \in LineRow /\ new.id # 0 /\ <<new.sku, new.id>> \in named
  BY <1>2, <1>3 DEF VariantRow, LineRow
<1> HIDE DEF new
<1>5. /\ item' = [u \in Table |-> item'[u]] /\ item'[t] = With(l, new, item[t])
      /\ \A u \in Table \ {t} : item'[u] = item[u]
  BY <1>1, OneTable
<1>6. item'[t] = [k \in DOMAIN item[t] \cup {l} |-> IF k = l THEN new ELSE item[t][k]]
  BY <1>5 DEF With
<1>7. DOMAIN item'[t] = DOMAIN item[t] \cup {l} /\ item'[t][l] = new /\ \A k \in DOMAIN item[t] : item'[t][k] = item[t][k]
  BY <1>1, <1>6
<1>8. item[t] \in [DOMAIN item[t] -> LineRow]
  BY DEF RolloutInv, RolloutTyped
<1>9. item'[t] \in [DOMAIN item'[t] -> LineRow]
  BY <1>4, <1>6, <1>7, <1>8
<1>10. Missing(item'[t]) \subseteq Missing(item[t])
  BY <1>4, <1>7 DEF Missing
<1>11. NamesGiven'
  BY <1>1, <1>4, <1>5, <1>7, LineNamesKept
<1>12. RolloutInv'
  <2>1. \A u \in Table : item'[u] \in [DOMAIN item'[u] -> LineRow] /\ Missing(item'[u]) \subseteq Missing(item[u])
    BY <1>5, <1>9, <1>10 DEF RolloutInv, RolloutTyped
  <2> QED BY <1>1, <1>5, <1>11, <2>1, LinesStep DEF RolloutInv, RolloutTyped
<1>13. \A u \in Table : DOMAIN item[u] \subseteq DOMAIN item'[u] /\ \A k \in DOMAIN item[u] : item'[u][k] = item[u][k]
  BY <1>5, <1>7
<1> QED BY <1>12, <1>13

LEMMA RemoveFromCartKeeps ==
  ASSUME RolloutAssumption, RolloutInv, NEW l, RemoveFromCart(l)
  PROVE  /\ RolloutInv' /\ \A u \in Table \ {CartTable} : item'[u] = item[u]
         /\ DOMAIN item'[CartTable] \subseteq DOMAIN item[CartTable]
         /\ \A k \in DOMAIN item'[CartTable] : item'[CartTable][k] = item[CartTable][k]
<1> DEFINE t == CartTable
<1>1. /\ UNCHANGED <<productVars, itemKey>> /\ UNCHANGED <<named, lastId, variant, found>> /\ UNCHANGED <<at, pending>>
      /\ item' = [item EXCEPT ![t] = Without(l, item[t])] /\ t \in Table
  BY TheTables DEF RemoveFromCart, startupVars, productVars
<1>2. /\ item' = [u \in Table |-> item'[u]] /\ item'[t] = Without(l, item[t])
      /\ \A u \in Table \ {t} : item'[u] = item[u]
  BY <1>1, OneTable
<1>3. item'[t] = [k \in DOMAIN item[t] \ {l} |-> item[t][k]]
  BY <1>2 DEF Without, Restrict
<1>4. DOMAIN item'[t] \subseteq DOMAIN item[t] /\ \A k \in DOMAIN item'[t] : item'[t][k] = item[t][k]
  BY <1>3
<1>5. item[t] \in [DOMAIN item[t] -> LineRow]
  BY <1>1 DEF RolloutInv, RolloutTyped
<1>6. item'[t] \in [DOMAIN item'[t] -> LineRow]
  BY <1>3, <1>4, <1>5
<1>7. NamesGiven'
  BY <1>1, <1>2, <1>4, LineNamesKept
<1>8. \A u \in Table : item'[u] \in [DOMAIN item'[u] -> LineRow] /\ Missing(item'[u]) \subseteq Missing(item[u])
  BY <1>2, <1>4, <1>6 DEF RolloutInv, RolloutTyped, Missing
<1>9. RolloutInv'
  BY <1>1, <1>2, <1>7, <1>8, LinesStep DEF RolloutInv, RolloutTyped
<1> QED BY <1>2, <1>4, <1>9

\* Lines change only in that one without an id gets the id that was found.
LEMMA UpdateTableKeeps ==
  ASSUME RolloutAssumption, RolloutInv, NEW t \in Table, UpdateTable(t)
  PROVE  /\ RolloutInv' /\ \A u \in Table : DOMAIN item'[u] = DOMAIN item[u]
         /\ \A u \in Table : \A l \in DOMAIN item[u] : item[u][l].id # 0 => item'[u][l] = item[u][l]
<1>1. PICK next : Goto("backfill", next)
  BY DEF UpdateTable, Run
<1>2. /\ UNCHANGED <<productVars, itemKey>> /\ UNCHANGED <<named, lastId, variant, found>> /\ UNCHANGED pending
      /\ item' = [item EXCEPT ![t] = [l \in DOMAIN item[t] |->
                    IF Resolves(item[t][l]) THEN [item[t][l] EXCEPT !.id = found.id] ELSE item[t][l]]]
  BY DEF UpdateTable, productVars
<1>3. /\ item' = [u \in Table |-> item'[u]]
      /\ item'[t] = [l \in DOMAIN item[t] |-> IF Resolves(item[t][l]) THEN [item[t][l] EXCEPT !.id = found.id] ELSE item[t][l]]
      /\ \A u \in Table \ {t} : item'[u] = item[u]
  BY <1>2, OneTable
<1>4. item[t] \in [DOMAIN item[t] -> LineRow] /\ found.id \in Nat
  BY DEF RolloutInv, RolloutTyped
<1>5. ASSUME NEW l \in DOMAIN item[t]
      PROVE  /\ item'[t][l] \in LineRow
             /\ \/ item'[t][l] = item[t][l]
                \/ item[t][l].id = 0 /\ item'[t][l].sku = found.sku /\ item'[t][l].id = found.id
  <2>1. CASE Resolves(item[t][l])
    <3>1. item'[t][l] = [item[t][l] EXCEPT !.id = found.id]
      BY <1>3, <2>1
    <3> QED BY <1>4, <2>1, <3>1 DEF LineRow, Resolves
  <2>2. CASE ~Resolves(item[t][l])
    BY <1>3, <1>4, <2>2
  <2> QED BY <2>1, <2>2
<1>6. DOMAIN item'[t] = DOMAIN item[t]
  BY <1>3
<1>7. item'[t] \in [DOMAIN item'[t] -> LineRow]
  BY <1>3, <1>5, <1>6
<1>8. Missing(item'[t]) \subseteq Missing(item[t])
  BY <1>5, <1>6 DEF Missing
<1>9. NamesGiven'
  <2>1. found.id # 0 => <<found.sku, found.id>> \in named
    BY DEF RolloutInv, NamesGiven
  <2>2. \A l \in DOMAIN item'[t] :
          item'[t][l].id # 0 =>
            \/ l \in DOMAIN item[t] /\ item'[t][l] = item[t][l]
            \/ <<item'[t][l].sku, item'[t][l].id>> \in named
    BY <1>5, <1>6, <2>1
  <2> QED BY <1>2, <1>3, <2>2, LineNamesKept
<1>10. at' = [p \in Service |-> at'[p]] /\ \A p \in {"product", "order", "cart"} : at'[p] = at[p]
  BY <1>1, GoesTo, TheTables DEF RolloutInv
<1>11. RolloutInv'
  <2>1. \A u \in Table : item'[u] \in [DOMAIN item'[u] -> LineRow] /\ Missing(item'[u]) \subseteq Missing(item[u])
    BY <1>3, <1>7, <1>8 DEF RolloutInv, RolloutTyped
  <2> QED BY <1>2, <1>3, <1>9, <1>10, <2>1, LinesStep DEF RolloutInv, RolloutTyped
<1>12. \A u \in Table : /\ DOMAIN item'[u] = DOMAIN item[u]
                        /\ \A l \in DOMAIN item[u] : item[u][l].id # 0 => item'[u][l] = item[u][l]
  BY <1>3, <1>5, <1>6
<1> QED BY <1>11, <1>12

LEMMA ToolStepsKeep ==
  ASSUME RolloutAssumption, RolloutInv, ListUnresolved \/ FinishBackfill \/ \E s \in Name : LookUpSku(s)
  PROVE  RolloutInv'
<1>1. PICK next : Goto("backfill", next)
  BY DEF ListUnresolved, FinishBackfill, LookUpSku, Run
<1>2. at' = [p \in Service |-> at'[p]] /\ \A p \in {"product", "order", "cart"} : at'[p] = at[p]
  BY <1>1, GoesTo, TheTables DEF RolloutInv
<1>3. UNCHANGED <<productVars, itemKey>> /\ UNCHANGED <<named, lastId, variant, item>>
  BY DEF ListUnresolved, FinishBackfill, LookUpSku, productVars, rolloutVars
<1>4. pending' = [p \in Migrating |-> pending'[p]] /\ pending'["product"] = pending["product"]
  BY DEF ListUnresolved, FinishBackfill, LookUpSku, rolloutVars, RolloutInv, RolloutTyped, Migrating
<1>5. /\ found' \in [sku : Name \cup {""}, id : Nat]
      /\ found'.id # 0 => <<found'.sku, found'.id>> \in named
  <2>1. CASE UNCHANGED found
    BY <2>1 DEF RolloutInv, RolloutTyped, NamesGiven
  <2>2. ASSUME NEW s \in Name, s \in DOMAIN variant, found' = [sku |-> s, id |-> variant[s].id]
        PROVE  /\ found' \in [sku : Name \cup {""}, id : Nat]
               /\ found'.id # 0 => <<found'.sku, found'.id>> \in named
    <3>1. variant[s] \in VariantRow
      BY <2>2 DEF RolloutInv, RolloutTyped
    <3> QED BY <2>2, <3>1 DEF VariantRow, RolloutInv, NamesGiven
  <2> QED BY <2>1, <2>2 DEF ListUnresolved, FinishBackfill, LookUpSku, rolloutVars
<1>6. NamesGiven'
  BY <1>3, <1>5 DEF RolloutInv, NamesGiven
<1>7. /\ item' = [u \in Table |-> item'[u]]
      /\ \A u \in Table : item'[u] \in [DOMAIN item'[u] -> LineRow] /\ Missing(item'[u]) \subseteq Missing(item[u])
  BY <1>3 DEF RolloutInv, RolloutTyped
<1> QED BY <1>2, <1>3, <1>4, <1>5, <1>6, <1>7, LinesStep

----------------------------------------------------------------------------
(* Starts, deaths and deploys; all steps.                                   *)

LEMMA StartsKeep ==
  ASSUME RolloutAssumption, RolloutInv, NEW s \in Migrating, StartService(s)
  PROVE  RolloutInv'
<1>1. /\ Goto(s, FirstStep(s)) /\ pending' = [pending EXCEPT ![s] = {}] /\ s \in Service
      /\ UNCHANGED <<productVars, item, itemKey, found>> /\ UNCHANGED <<named, lastId, variant, found>>
  BY TheTables DEF StartService, BeginStart, productVars, Migrating
<1>2. /\ at' = [p \in Service |-> at'[p]]
      /\ at'[s] = FirstStep(s) /\ \A p \in Service : p # s => at'[p] = at[p]
  BY <1>1, GoesTo DEF RolloutInv
<1>3. pending' = [p \in Migrating |-> pending'[p]] /\ \A p \in Migrating : p # s => pending'[p] = pending[p]
  BY <1>1 DEF RolloutInv, RolloutTyped
<1>4. NamesGiven'
  BY <1>1, LineNamesKept
<1>5. RolloutTyped'
  BY <1>1, <1>2, <1>3 DEF RolloutInv, RolloutTyped, productVars
<1>6. ProductStart'
  <2>1. CASE s = "product"
    <3>1. at'["product"] = <<"variants">>
      BY <1>2, <2>1 DEF FirstStep
    <3> QED BY <3>1 DEF ProductStart, Serving
  <2>2. CASE s # "product"
    <3>1. at'["product"] = at["product"] /\ pending'["product"] = pending["product"]
      BY <1>2, <1>3, <2>2, TheTables DEF Migrating
    <3> QED BY <1>1, <3>1, ProductRests DEF productVars
  <2> QED BY <2>1, <2>2
<1>7. TablesStart' /\ FirstTableKeyed'
  <2>1. CASE s \notin {"order", "cart"}
    <3>1. at'["order"] = at["order"] /\ at'["cart"] = at["cart"]
      BY <1>2, <2>1, TheTables
    <3> QED BY <1>1, <3>1, TablesRest
  <2>2. ASSUME NEW first \in {OrderTables[1], CartTable}, at'[s] = Step(first, "look"), Owner(first) = s
        PROVE  TablesStart' /\ FirstTableKeyed'
    <3>1. \A t \in Table : at'[Owner(t)] = at[Owner(t)] \/ at'[Owner(t)] = Step(first, "look")
      BY <1>2, <2>2, TheTables
    <3>2. \A t \in Table : /\ itemKey[t] # "sku" => Missing(item[t]) = {}
                           /\ at'[Owner(t)] \in {Step(t, "drop"), Step(t, "add")} => Missing(item[t]) = {}
                           /\ at'[Owner(t)] = Serving => itemKey[t] # "none"
      BY <3>1, TheSteps DEF RolloutInv, TablesStart
    <3>3. TablesStart'
      BY <1>1, <3>2 DEF TablesStart, Missing, Step, Owner
    <3>4. at'["order"] = at["order"] \/ at'["order"] = Step(first, "look")
      BY <3>1, TheTables
    <3>5. Step(first, "look") \notin {Step(OrderTables[2], "look"), Step(OrderTables[2], "drop"), Step(OrderTables[2], "add")}
      BY TheTables, TheSteps
    <3>6. FirstTableKeyed'
      BY <1>1, <3>4, <3>5 DEF RolloutInv, FirstTableKeyed, Step
    <3> QED BY <3>3, <3>6
  <2>3. CASE s = "order"
    <3>1. at'[s] = Step(OrderTables[1], "look") /\ Owner(OrderTables[1]) = s
      BY <1>2, <2>3, TheTables DEF FirstStep
    <3> QED BY <2>2, <3>1
  <2>4. CASE s = "cart"
    <3>1. at'[s] = Step(CartTable, "look") /\ Owner(CartTable) = s
      BY <1>2, <2>4, TheTables DEF FirstStep
    <3> QED BY <2>2, <3>1
  <2> QED BY <2>1, <2>3, <2>4
<1> QED BY <1>4, <1>5, <1>6, <1>7 DEF RolloutInv

LEMMA StopsKeep ==
  ASSUME RolloutAssumption, RolloutInv, NEW s \in Migrating, Die(s) \/ Deploy(s)
  PROVE  RolloutInv'
<1>1. UNCHANGED rolloutVars /\ Goto(s, Down) /\ s \in Service
  BY TheTables DEF Die, Deploy, Crash, Redeploy, Migrating
<1> QED BY <1>1, Stopped

LEMMA RolloutInitSound ==
  ASSUME RolloutAssumption, RolloutInit
  PROVE  RolloutInv
<1>1. PICK cast \in Casts : at = [s \in Service |-> IF s \in cast THEN Down ELSE <<"absent">>]
  BY DEF RolloutInit, StartupInit
<1>2. \A s \in Service : at[s] \in {Down, <<"absent">>}
  BY <1>1
<1>3. \A s \in {"product", "order", "cart"} : at[s] \in {Down, <<"absent">>}
  BY <1>2, TheTables
<1>4. PICK S \in SUBSET Name : variant \in [S -> [product : product, id : {0}]]
  BY DEF RolloutInit
<1>5. product \subseteq Product /\ DOMAIN variant \subseteq Name /\ variant \in [DOMAIN variant -> VariantRow]
      /\ \A s \in DOMAIN variant : variant[s].id = 0
  BY <1>4 DEF RolloutInit, VariantRow
<1>6. ASSUME NEW t \in Table
      PROVE  /\ item[t] \in [DOMAIN item[t] -> LineRow] /\ \A l \in DOMAIN item[t] : item[t][l].id = 0
             /\ itemKey[t] = "sku"
  <2>1. item[t] \in {[l \in {} |-> Nothing]} \cup [Line -> [sku : Name, id : {0}]]
    BY DEF RolloutInit
  <2>2. CASE item[t] = [l \in {} |-> Nothing]
    <3>1. DOMAIN item[t] = {} /\ item[t] = [l \in {} |-> item[t][l]]
      BY <2>2
    <3> QED BY <3>1 DEF RolloutInit
  <2>3. CASE item[t] \in [Line -> [sku : Name, id : {0}]]
    BY <2>3 DEF LineRow, RolloutInit
  <2> QED BY <2>1, <2>2, <2>3
<1>7. item = [t \in Table |-> item[t]] /\ itemKey \in [Table -> {"sku", "none", "sku_id"}]
      /\ pending = [s \in Migrating |-> pending[s]] /\ found = Nothing /\ named = {} /\ lastId = 0
      /\ variantKey = "sku"
  BY DEF RolloutInit
<1>8. RolloutTyped
  BY <1>1, <1>5, <1>6, <1>7 DEF RolloutTyped, Nothing
<1>9. ProductStart
  BY <1>3, <1>7 DEF ProductStart, Down, Serving
<1>10. TablesStart /\ FirstTableKeyed
  <2>1. \A t, what : Step(t, what) # <<"absent">>
    <3> SUFFICES ASSUME NEW t, NEW what
                 PROVE  Step(t, what) # <<"absent">>
      OBVIOUS
    <3>1. DOMAIN Step(t, what) = {1, 2} /\ DOMAIN <<"absent">> = {1}
      BY DEF Step
    <3> QED BY <3>1
  <2>2. Serving # <<"absent">>
    BY DEF Serving
  <2>3. \A t \in Table : at[Owner(t)] \in {Down, <<"absent">>}
    BY <1>3 DEF Owner
  <2>4. TablesStart
    BY <1>6, <2>1, <2>2, <2>3, TheSteps DEF TablesStart
  <2>5. FirstTableKeyed
    BY <1>3, <2>1, TheSteps DEF FirstTableKeyed
  <2> QED BY <2>4, <2>5
<1>11. NamesGiven
  BY <1>5, <1>6, <1>7 DEF NamesGiven, Nothing
<1> QED BY <1>8, <1>9, <1>10, <1>11 DEF RolloutInv

LEMMA RolloutRests ==
  ASSUME RolloutAssumption, RolloutInv, UNCHANGED allVars
  PROVE  RolloutInv'
<1>1. /\ UNCHANGED <<productVars, itemKey>> /\ UNCHANGED <<named, lastId, variant, found>> /\ UNCHANGED <<at, pending, item>>
  BY DEF allVars, startupVars, rolloutVars, productVars
<1>2. NamesGiven'
  BY <1>1, LineNamesKept
<1> QED BY <1>1, <1>2, LinesStep DEF RolloutInv, RolloutTyped

LEMMA RolloutStep ==
  ASSUME RolloutAssumption, RolloutInv, [RolloutNext]_allVars
  PROVE  RolloutInv'
<1>1. CASE StartStep
  <2>1. ASSUME NEW t \in Table, Look(t) \/ Purge(t) \/ DropKey(t) \/ AddKey(t)
        PROVE  RolloutInv'
    BY <2>1, LookKeeps, PurgeKeeps, KeyOfLinesKeeps
  <2>2. ASSUME NEW s \in Name, GiveId(s)
        PROVE  RolloutInv'
    BY <2>2, GiveIdKeeps
  <2> QED BY <1>1, <2>1, <2>2, BackfillVariantsKeeps, ListMissingKeeps, KeyStepsKeep, ReadVariantKeyKeeps DEF StartStep
<1>2. ASSUME NEW p \in Product, CreateProduct(p) \/ \E s \in Name : CreateVariant(p, s)
      PROVE  RolloutInv'
  <2>1. CASE CreateProduct(p)
    <3>1. p \in Name
      BY DEF RolloutAssumption
    <3> QED BY <2>1, <3>1, VariantsKeep
  <2>2. CASE \E s \in Name : CreateVariant(p, s)
    BY <2>2, VariantsKeep
  <2> QED BY <1>2, <2>1, <2>2
<1>3. ASSUME NEW s \in Name, DeleteVariant(s)
      PROVE  RolloutInv'
  <2>1. s \in DOMAIN variant
    BY <1>3 DEF DeleteVariant
  <2>2. variant[s] \in VariantRow
    BY <2>1 DEF RolloutInv, RolloutTyped
  <2>3. variant[s].product \in Product
    BY <2>2 DEF VariantRow
  <2> QED BY <1>3, <2>3, VariantsKeep
<1>4. ASSUME NEW t \in Table, (\E l \in Line, s \in Name : AddLine(t, l, s)) \/ UpdateTable(t)
      PROVE  RolloutInv'
  BY <1>4, AddLineKeeps, UpdateTableKeeps
<1>5. CASE (\E l \in Line : RemoveFromCart(l)) \/ ListUnresolved \/ FinishBackfill \/ \E s \in Name : LookUpSku(s)
  BY <1>5, RemoveFromCartKeeps, ToolStepsKeep
<1>6. ASSUME NEW s \in Migrating, StartService(s) \/ Die(s) \/ Deploy(s)
      PROVE  RolloutInv'
  BY <1>6, StartsKeep, StopsKeep
<1> QED BY <1>1, <1>2, <1>3, <1>4, <1>5, <1>6, RolloutRests DEF RolloutNext

LEMMA RolloutInvariant == RolloutSpec => []RolloutInv
<1>1. RolloutInit => RolloutInv
  BY RolloutInitSound, RolloutAssumption
<1>2. RolloutInv /\ [RolloutNext]_allVars => RolloutInv'
  BY RolloutStep, RolloutAssumption
<1> QED BY <1>1, <1>2, PTL DEF RolloutSpec

(* Wherever starts die, however often they are repeated and whatever is      *)
(* written meanwhile: who serves has its keys, product has one row for each  *)
(* human sku, no id is given twice and a line's id is one its sku stood for  *)
(* (promoteSkuIDPrimaryKey, backfillSkuIDs, cmd/backfill-sku-id).            *)
THEOREM RolloutIsSafe == RolloutSpec => []RolloutSafe
<1>1. RolloutInv => RolloutSafe
  <2> SUFFICES ASSUME RolloutInv
               PROVE  RolloutSafe
    OBVIOUS
  <2>1. KeyedWhenUp
    BY DEF RolloutInv, ProductStart, TablesStart, KeyedWhenUp, Up
  <2>2. IdsAreNames
    BY DEF RolloutInv, NamesGiven, IdsAreNames, Missing
  <2> QED BY <2>1, <2>2 DEF RolloutSafe
<1> QED BY <1>1, RolloutInvariant, PTL

\* Ids of variants stay.
VariantIdsKept ==
  \A s \in DOMAIN variant \cap DOMAIN variant' : variant[s].id # 0 => variant'[s].id = variant[s].id

LEMMA VariantIdsStep ==
  ASSUME RolloutAssumption, RolloutInv, [RolloutNext]_allVars
  PROVE  VariantIdsKept
<1>1. ASSUME UNCHANGED variant
      PROVE  VariantIdsKept
  BY <1>1 DEF VariantIdsKept
<1>2. CASE BackfillVariants
  BY <1>2 DEF BackfillVariants, VariantIdsKept
<1>3. ASSUME NEW s \in Name, GiveId(s)
      PROVE  VariantIdsKept
  BY <1>3, GiveIdKeeps DEF VariantIdsKept
<1>4. ASSUME NEW p \in Product, CreateProduct(p)
      PROVE  VariantIdsKept
  BY <1>1, <1>4 DEF CreateProduct
<1>5. ASSUME NEW p \in Product, NEW s \in Name, CreateVariant(p, s)
      PROVE  VariantIdsKept
  BY <1>5, VariantsKeep DEF VariantIdsKept
<1>6. ASSUME NEW s \in Name, DeleteVariant(s)
      PROVE  VariantIdsKept
  BY <1>6 DEF DeleteVariant, Without, Restrict, VariantIdsKept
<1>7. CASE ListMissing \/ RequireIds \/ ReadVariantKey \/ DropVariantKey \/ AddVariantKey \/ KeepSkuUnique
  BY <1>1, <1>7 DEF ListMissing, RequireIds, ReadVariantKey, DropVariantKey, AddVariantKey, KeepSkuUnique,
                    productVars, rolloutVars
<1>8. ASSUME NEW t \in Table, Look(t) \/ Purge(t) \/ DropKey(t) \/ AddKey(t) \/ UpdateTable(t)
      PROVE  VariantIdsKept
  BY <1>1, <1>8 DEF Look, Purge, DropKey, AddKey, UpdateTable, productVars, rolloutVars
<1>9. CASE (\E t \in Table, l \in Line, s \in Name : AddLine(t, l, s)) \/ (\E l \in Line : RemoveFromCart(l))
  BY <1>1, <1>9 DEF AddLine, RemoveFromCart, productVars
<1>10. CASE ListUnresolved \/ FinishBackfill \/ \E s \in Name : LookUpSku(s)
  BY <1>1, <1>10 DEF ListUnresolved, FinishBackfill, LookUpSku, productVars, rolloutVars
<1>11. ASSUME NEW s \in Migrating, StartService(s) \/ Die(s) \/ Deploy(s)
       PROVE  VariantIdsKept
  BY <1>1, <1>11 DEF StartService, Die, Deploy, productVars, rolloutVars
<1>12. CASE UNCHANGED allVars
  BY <1>1, <1>12 DEF allVars, rolloutVars
<1> QED BY <1>2, <1>3, <1>4, <1>5, <1>6, <1>7, <1>8, <1>9, <1>10, <1>11, <1>12 DEF RolloutNext, StartStep

\* So do lines and their ids, in order for ever and in cart while it starts.
LinesStay ==
  \A t \in Table :
    /\ \A l \in DOMAIN item[t] \cap DOMAIN item'[t] : item[t][l].id # 0 => item'[t][l] = item[t][l]
    /\ \A l \in DOMAIN item[t] \ DOMAIN item'[t] : t = CartTable /\ (Up("cart") \/ item[t][l].id = 0)

LEMMA LinesStayStep ==
  ASSUME RolloutAssumption, RolloutInv, [RolloutNext]_allVars
  PROVE  LinesStay
<1>1. ASSUME UNCHANGED item
      PROVE  LinesStay
  BY <1>1 DEF LinesStay
<1>2. ASSUME NEW t \in Table, Purge(t)
      PROVE  LinesStay
  <2>1. /\ t = CartTable /\ \A u \in Table \ {t} : item'[u] = item[u]
        /\ item'[t] = [l \in DOMAIN item[t] \ Missing(item[t]) |-> item[t][l]]
    BY <1>2, PurgeKeeps DEF Restrict
  <2> QED BY <2>1 DEF LinesStay, Missing
<1>3. ASSUME NEW t \in Table, NEW l \in Line, NEW s \in Name, AddLine(t, l, s)
      PROVE  LinesStay
  BY <1>3, AddLineKeeps DEF LinesStay
<1>4. ASSUME NEW l \in Line, RemoveFromCart(l)
      PROVE  LinesStay
  <2>1. Up("cart")
    BY <1>4 DEF RemoveFromCart
  <2> QED BY <1>4, <2>1, RemoveFromCartKeeps DEF LinesStay
<1>5. ASSUME NEW t \in Table, UpdateTable(t)
      PROVE  LinesStay
  BY <1>5, UpdateTableKeeps DEF LinesStay
<1>6. CASE BackfillVariants \/ ListMissing \/ (\E s \in Name : GiveId(s)) \/ RequireIds \/ ReadVariantKey
  BY <1>1, <1>6 DEF BackfillVariants, ListMissing, GiveId, RequireIds, ReadVariantKey, rolloutVars
<1>7. CASE DropVariantKey \/ AddVariantKey \/ KeepSkuUnique
  BY <1>1, <1>7 DEF DropVariantKey, AddVariantKey, KeepSkuUnique
<1>8. CASE \/ \E p \in Product : CreateProduct(p)
           \/ \E p \in Product, s \in Name : CreateVariant(p, s)
           \/ \E s \in Name : DeleteVariant(s)
  BY <1>1, <1>8 DEF CreateProduct, CreateVariant, DeleteVariant
<1>9. ASSUME NEW t \in Table, Look(t) \/ DropKey(t) \/ AddKey(t)
      PROVE  LinesStay
  BY <1>1, <1>9 DEF Look, DropKey, AddKey, rolloutVars
<1>10. CASE ListUnresolved \/ FinishBackfill \/ \E s \in Name : LookUpSku(s)
  BY <1>1, <1>10 DEF ListUnresolved, FinishBackfill, LookUpSku, rolloutVars
<1>11. ASSUME NEW s \in Migrating, StartService(s) \/ Die(s) \/ Deploy(s)
       PROVE  LinesStay
  BY <1>1, <1>11 DEF StartService, Die, Deploy, rolloutVars
<1>12. CASE UNCHANGED allVars
  BY <1>1, <1>12 DEF allVars, rolloutVars
<1> QED BY <1>2, <1>3, <1>4, <1>5, <1>6, <1>7, <1>8, <1>9, <1>10, <1>11, <1>12 DEF RolloutNext, StartStep

(* An id once given stays, order keeps its lines for ever, and a start of    *)
(* cart takes none away whose id is known, in any interleaving of starts,    *)
(* deaths, the tool and requests (the guards "sku_id IS NULL").              *)
THEOREM LinesAreKept == RolloutSpec => LinesKept
<1>1. RolloutInv /\ [RolloutNext]_allVars =>
        [/\ \A s \in DOMAIN variant \cap DOMAIN variant' :
              variant[s].id # 0 => variant'[s].id = variant[s].id
         /\ \A t \in Table :
              /\ \A l \in DOMAIN item[t] \cap DOMAIN item'[t] :
                   item[t][l].id # 0 => item'[t][l] = item[t][l]
              /\ \A l \in DOMAIN item[t] \ DOMAIN item'[t] :
                   t = CartTable /\ (Up("cart") \/ item[t][l].id = 0)]_allVars
  BY VariantIdsStep, LinesStayStep, RolloutAssumption DEF VariantIdsKept, LinesStay
<1> QED BY <1>1, RolloutInvariant, PTL DEF RolloutSpec, LinesKept
============================================================================
