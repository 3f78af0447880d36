----------------------------- MODULE UseLedger -----------------------------
(***************************************************************************)
(* What the ledger of promotional codes promises: an order uses a code at  *)
(* most once, a use is given out only while the campaign and the customer  *)
(* have one left, and a use handed back can be given out again.  A payment *)
(* that arrives after its order was canceled takes its use back whatever   *)
(* has been given out since.  There are no counters and no locks here.     *)
(***************************************************************************)
EXTENDS Integers, FiniteSets

CONSTANTS
  Codes,
  Orders,
  CustomerOf,   \* the customer of each order
  Limit,        \* uses of a code one customer may have
  Caps,         \* campaign caps staff set
  NoCode

ASSUME CustomersAssumption == DOMAIN CustomerOf = Orders
ASSUME LimitsAssumption    == Limit \in Nat \ {0} /\ Caps \subseteq Nat

VARIABLES
  terms,   \* per code: whether it is on offer, and its cap
  use      \* per order: its use of a code

ledgerVars == <<terms, use>>

NoUse == [status |-> "none", code |-> NoCode]

IsActive(o)   == use[o].status \in {"reserved", "consumed"}
ActiveUses(c) == {o \in Orders : IsActive(o) /\ use[o].code = c}
UsesOf(c, k)  == {o \in ActiveUses(c) : CustomerOf[o] = k}

LedgerInit ==
  /\ terms = [c \in Codes |-> [offered |-> FALSE, cap |-> 0]]
  /\ use = [o \in Orders |-> NoUse]

UseLeft(o, c) ==
  /\ use[o] = NoUse
  /\ terms[c].offered
  /\ Cardinality(ActiveUses(c)) < terms[c].cap
  /\ Cardinality(UsesOf(c, CustomerOf[o])) < Limit

ReserveUse(o, c) ==
  /\ UseLeft(o, c)
  /\ use' = [use EXCEPT ![o] = [status |-> "reserved", code |-> c]]
  /\ UNCHANGED terms

ConsumeUse(o) ==
  /\ use[o].status \in {"reserved", "released"}
  /\ use' = [use EXCEPT ![o].status = "consumed"]
  /\ UNCHANGED terms

ReleaseUse(o) ==
  /\ IsActive(o)
  /\ use' = [use EXCEPT ![o].status = "released"]
  /\ UNCHANGED terms

SetTerms(c, offered, cap) ==
  /\ terms' = [terms EXCEPT ![c] = [offered |-> offered, cap |-> cap]]
  /\ UNCHANGED use

LedgerNext ==
  \/ \E o \in Orders, c \in Codes : ReserveUse(o, c)
  \/ \E o \in Orders : ConsumeUse(o) \/ ReleaseUse(o)
  \/ \E c \in Codes, offered \in BOOLEAN, cap \in Caps \cup {0} : SetTerms(c, offered, cap)

LedgerSpec == LedgerInit /\ [][LedgerNext]_ledgerVars
============================================================================
