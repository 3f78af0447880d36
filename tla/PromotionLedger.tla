-------------------------- MODULE PromotionLedger --------------------------
(***************************************************************************)
(* Promotional codes and the ledger of their uses, as the product service  *)
(* stores them: a promotions table whose redemption_count is kept by hand, *)
(* a promotion_redemptions table with one row per order, and transactions  *)
(* that lock rows of both.  A row lock is held to the end of its           *)
(* transaction, whose writes become visible then; everything not locked    *)
(* may change between two statements (READ COMMITTED).                     *)
(*                                                                         *)
(* Reserving locks the promotion and then the customer's uses, releasing   *)
(* locks the use and then the promotion: two such transactions can wait    *)
(* for each other, and PostgreSQL ends one of them.                        *)
(***************************************************************************)
EXTENDS Integers, FiniteSets

CONSTANTS
  Codes,
  Orders,
  CustomerOf,   \* the customer of each order
  Limit,        \* max_per_customer, which the service reads before the transaction
  Caps,         \* max_redemptions values staff set
  NoCode,
  Tx,           \* transactions open at a time
  MaxCreates    \* times a code is created

ASSUME CreatesAssumption == MaxCreates \in Nat
ASSUME OrdersAssumption  == IsFiniteSet(Orders) /\ Caps \subseteq Nat

VARIABLES
  promo,   \* the promotions table, with how often each code was created
  use,     \* the promotion_redemptions table, by order
  tx       \* what each transaction has read and locked

vars == <<promo, use, tx>>

Ledger == INSTANCE UseLedger
            WITH terms <- [c \in Codes |-> [offered |-> promo[c].exists,
                                            cap |-> IF promo[c].exists THEN promo[c].cap ELSE 0]]

NoPromo   == [exists |-> FALSE, active |-> FALSE, cap |-> 0, count |-> 0, made |-> 0]
NoUse     == [status |-> "none", code |-> NoCode]
Idle      == [at |-> "idle"]

Active(o) == use[o].status \in {"reserved", "consumed"}

\* Slip: the released uses are listed, and locked, as well.
UsesEver(c) == {o \in Orders : use[o].code = c}

UsesOf(c) == {o \in Orders : Active(o) /\ use[o].code = c}

\* Row locks follow from where each transaction is.
HoldsPromo(t, c) == tx[t].at = "count" /\ tx[t].code = c
HoldsUse(t, o) ==
  \/ tx[t].at = "count" /\ o \in tx[t].locked
  \/ tx[t].at \in {"recount", "discount"} /\ o = tx[t].order

PromoLocked(t, c) == \E u \in Tx \ {t} : HoldsPromo(u, c)
UseLocked(t, o)   == \E u \in Tx \ {t} : HoldsUse(u, o)

----------------------------------------------------------------------------
Init ==
  /\ promo = [c \in Codes |-> NoPromo]
  /\ use = [o \in Orders |-> NoUse]
  /\ tx = [t \in Tx |-> Idle]

Go(t, s) == tx' = [tx EXCEPT ![t] = s]
End(t)   == Go(t, Idle)

----------------------------------------------------------------------------
(* Definitions *)

CreatePromotion(c, cap) ==
  /\ ~ promo[c].exists
  /\ promo[c].made < MaxCreates
  /\ promo' = [promo EXCEPT ![c] = [exists |-> TRUE, active |-> TRUE, cap |-> cap,
                                    count |-> 0, made |-> @.made + 1]]
  /\ UNCHANGED <<use, tx>>

\* A hard delete; the redemptions of the code stay.
DeletePromotion(c) ==
  /\ promo[c].exists
  /\ \A t \in Tx : ~ HoldsPromo(t, c)
  /\ promo' = [promo EXCEPT ![c] = [NoPromo EXCEPT !.made = promo[c].made]]
  /\ UNCHANGED <<use, tx>>

\* Update reads the definition, applies the patch to the copy ...
BeginUpdate(t, c, active, cap) ==
  /\ tx[t].at = "idle"
  /\ promo[c].exists
  /\ Go(t, [at |-> "update", code |-> c, copy |-> [active |-> active, cap |-> cap]])
  /\ active = promo[c].active \/ cap = promo[c].cap
  /\ UNCHANGED <<promo, use>>

\* ... and writes every column but the count, to a row that may have changed.
SaveUpdate(t) ==
  LET c == tx[t].code
  IN
  /\ tx[t].at = "update"
  /\ ~ PromoLocked(t, c)
  /\ promo' = IF promo[c].exists
              THEN [promo EXCEPT ![c].active = tx[t].copy.active, ![c].cap = tx[t].copy.cap]
              ELSE promo
  /\ End(t)
  /\ UNCHANGED use

----------------------------------------------------------------------------
(* Reserving a use *)

\* The service has judged the code active and not exhausted, without a lock.
BeginReserve(t, o, c) ==
  /\ tx[t].at = "idle"
  /\ promo[c].exists /\ promo[c].active /\ promo[c].count < promo[c].cap
  /\ Go(t, [at |-> "find", order |-> o, code |-> c])
  /\ UNCHANGED <<promo, use>>

\* Slip: a use the order released is waited for.
FindUseRetries(t) ==
  /\ tx[t].at = "find"
  /\ use[tx[t].order].status # "released"
  /\ IF use[tx[t].order] = NoUse THEN Go(t, [tx[t] EXCEPT !.at = "promotion"]) ELSE End(t)
  /\ UNCHANGED <<promo, use>>

\* The order's use is read without a lock.  One that stands is the answer.
\* Taking a released one again fails: PostgreSQL does not accept the
\* aggregate FOR UPDATE of reactivateReleased.
FindUse(t) ==
  /\ tx[t].at = "find"
  /\ IF use[tx[t].order] = NoUse THEN Go(t, [tx[t] EXCEPT !.at = "promotion"]) ELSE End(t)
  /\ UNCHANGED <<promo, use>>

Refuses(c) == ~ promo[c].exists \/ promo[c].count >= promo[c].cap

\* Slip: the promotion is read without FOR UPDATE.
LockPromotionUnlocked(t) ==
  LET c == tx[t].code
      mine == {o \in UsesOf(c) : CustomerOf[o] = CustomerOf[tx[t].order]}
  IN
  /\ tx[t].at = "promotion"
  /\ IF Refuses(c) THEN End(t)
     ELSE Go(t, [at |-> "count", order |-> tx[t].order, code |-> c,
                 todo |-> mine, locked |-> {}, used |-> 0])
  /\ UNCHANGED <<promo, use>>

\* FOR UPDATE on the promotion; then the customer's standing uses are listed.
LockPromotion(t) ==
  LET c == tx[t].code
      mine == {o \in UsesOf(c) : CustomerOf[o] = CustomerOf[tx[t].order]}
  IN
  /\ tx[t].at = "promotion"
  /\ ~ PromoLocked(t, c)
  /\ IF Refuses(c) THEN End(t)
     ELSE Go(t, [at |-> "count", order |-> tx[t].order, code |-> c,
                 todo |-> mine, locked |-> {}, used |-> 0])
  /\ UNCHANGED <<promo, use>>

\* Each listed use is locked, and counted if it still stands.
LockUse(t, o) ==
  /\ tx[t].at = "count"
  /\ o \in tx[t].todo
  /\ ~ UseLocked(t, o)
  /\ Go(t, [tx[t] EXCEPT !.todo = @ \ {o}, !.locked = @ \cup {o},
                         !.used = IF Active(o) THEN @ + 1 ELSE @])
  /\ UNCHANGED <<promo, use>>

\* Insert and count commit together.  Over the customer's limit, or with a
\* use of the order inserted meanwhile, the transaction rolls back.
InsertUse(t) ==
  LET c == tx[t].code
      o == tx[t].order
  IN
  /\ tx[t].at = "count"
  /\ tx[t].todo = {}
  /\ IF tx[t].used < Limit /\ use[o] = NoUse
     THEN /\ use' = [use EXCEPT ![o] = [status |-> "reserved", code |-> c]]
          /\ promo' = [promo EXCEPT ![c].count = @ + 1]
     ELSE UNCHANGED <<promo, use>>
  /\ End(t)

----------------------------------------------------------------------------
(* Consuming a use when its order is paid, releasing it on a cancel *)

Begin(t, o, kind) ==
  /\ tx[t].at = "idle"
  /\ use[o] # NoUse
  /\ Go(t, [at |-> kind, order |-> o])
  /\ UNCHANGED <<promo, use>>

\* A reserved use is consumed at once; a released one is taken back, which
\* has to reach the promotion's count as well.
ConsumeRow(t) ==
  LET o == tx[t].order
  IN
  /\ tx[t].at = "consume"
  /\ ~ UseLocked(t, o)
  /\ IF use[o].status = "released"
     THEN Go(t, [tx[t] EXCEPT !.at = "recount"]) /\ UNCHANGED use
     ELSE End(t) /\ use' = [use EXCEPT ![o].status = "consumed"]
  /\ UNCHANGED promo

FinishConsume(t) ==
  LET o == tx[t].order
      c == use[o].code
  IN
  /\ tx[t].at = "recount"
  /\ ~ PromoLocked(t, c)
  /\ use' = [use EXCEPT ![o].status = "consumed"]
  /\ promo' = IF promo[c].exists THEN [promo EXCEPT ![c].count = @ + 1] ELSE promo
  /\ End(t)

\* Slip: a release repeated hands the slot back again.
ReleaseRowAlways(t) ==
  /\ tx[t].at = "release"
  /\ ~ UseLocked(t, tx[t].order)
  /\ Go(t, [tx[t] EXCEPT !.at = "discount"])
  /\ UNCHANGED <<promo, use>>

\* Only a use that stands is released.
ReleaseRow(t) ==
  LET o == tx[t].order
  IN
  /\ tx[t].at = "release"
  /\ ~ UseLocked(t, o)
  /\ IF Active(o) THEN Go(t, [tx[t] EXCEPT !.at = "discount"]) ELSE End(t)
  /\ UNCHANGED <<promo, use>>

FinishRelease(t) ==
  LET o == tx[t].order
      c == use[o].code
  IN
  /\ tx[t].at = "discount"
  /\ ~ PromoLocked(t, c)
  /\ use' = [use EXCEPT ![o].status = "released"]
  /\ promo' = IF promo[c].exists
              THEN [promo EXCEPT ![c].count = IF @ > 0 THEN @ - 1 ELSE 0]
              ELSE promo
  /\ End(t)

----------------------------------------------------------------------------
(* Waiting *)

WaitsFor(t, u) ==
  /\ t # u
  /\ \/ tx[t].at = "count" /\ \E o \in tx[t].todo : HoldsUse(u, o)
     \/ tx[t].at \in {"recount", "discount"} /\ HoldsPromo(u, use[tx[t].order].code)
     \/ tx[t].at \in {"promotion", "update"} /\ HoldsPromo(u, tx[t].code)
     \/ tx[t].at \in {"consume", "release"} /\ HoldsUse(u, tx[t].order)

Deadlocked(t, u) == WaitsFor(t, u) /\ WaitsFor(u, t)

\* PostgreSQL ends one transaction of a cycle.  The caller only logs it.
AbortDeadlocked(t) ==
  /\ \E u \in Tx : Deadlocked(t, u)
  /\ End(t)
  /\ UNCHANGED <<promo, use>>

\* A request given up, or a connection lost: the transaction rolls back.
LoseTx(t) ==
  /\ tx[t].at # "idle"
  /\ End(t)
  /\ UNCHANGED <<promo, use>>

----------------------------------------------------------------------------
Proceed(t) ==
  \/ SaveUpdate(t)
  \/ FindUse(t)
  \/ LockPromotion(t)
  \/ \E o \in Orders : LockUse(t, o)
  \/ InsertUse(t)
  \/ ConsumeRow(t)
  \/ FinishConsume(t)
  \/ ReleaseRow(t)
  \/ FinishRelease(t)
  \/ AbortDeadlocked(t)

Start(t) ==
  \/ \E o \in Orders, c \in Codes : BeginReserve(t, o, c)
  \/ \E o \in Orders, kind \in {"consume", "release"} : Begin(t, o, kind)
  \/ \E c \in Codes, active \in BOOLEAN, cap \in Caps : BeginUpdate(t, c, active, cap)

Next ==
  \/ \E c \in Codes, cap \in Caps : CreatePromotion(c, cap)
  \/ \E c \in Codes : DeletePromotion(c)
  \/ \E t \in Tx : Start(t) \/ Proceed(t) \/ LoseTx(t)

\* A statement that can run does, a lock is granted in the end to one that
\* waits for it (row locks queue), and a deadlock is detected.
Fairness == \A t \in Tx : SF_vars(Proceed(t))

Spec == Init /\ [][Next]_vars /\ Fairness

----------------------------------------------------------------------------
(* What a transaction carries at each of its steps. *)
TxStates ==
  {Idle}
    \cup [at : {"update"}, code : Codes, copy : [active : BOOLEAN, cap : Caps \cup {0}]]
    \cup [at : {"find", "promotion"}, order : Orders, code : Codes]
    \cup [at : {"count"}, order : Orders, code : Codes, todo : SUBSET Orders,
          locked : SUBSET Orders, used : Nat]
    \cup [at : {"consume", "recount", "release", "discount"}, order : Orders]

LedgerTypeOK ==
  /\ promo \in [Codes -> [exists : BOOLEAN, active : BOOLEAN, cap : Caps \cup {0},
                          count : Nat, made : 0..MaxCreates]]
  /\ use \in [Orders -> [status : {"none", "reserved", "consumed", "released"},
                         code : Codes \cup {NoCode}]]
  /\ tx \in [Tx -> TxStates]

(* redemption_count, which the campaign cap and the list view rest on, is  *)
(* the number of uses that stand ("kept in the same transaction so it      *)
(* cannot drift"), through retries, late payments, staff edits and aborted *)
(* transactions.                                                           *)
CountMatchesUses ==
  \A c \in Codes : promo[c].exists => promo[c].count = Cardinality(UsesOf(c))

(* Only a new use and a release of the same customer's use of the same     *)
(* code can wait for each other: payments and staff edits never end up in  *)
(* a deadlock (the lock orders of Reserve, Consume, Release and Update).   *)
OnlyReserveMeetsRelease ==
  \A t, u \in Tx : Deadlocked(t, u) =>
    {tx[t].at, tx[u].at} = {"count", "discount"}
      /\ CustomerOf[tx[t].order] = CustomerOf[tx[u].order]

(* The counter, the locks and the retries give what the plain ledger       *)
(* promises: no use beyond the campaign's cap or the customer's limit, one *)
(* per order, each handed back once.                                       *)
ImplementsUseLedger == Ledger!LedgerSpec

(* Every transaction ends: what waits for a lock gets it or is ended.      *)
LedgerRequestsEnd == \A t \in Tx : tx[t].at # "idle" ~> tx[t].at = "idle"
============================================================================
