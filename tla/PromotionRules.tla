--------------------------- MODULE PromotionRules ---------------------------
(***************************************************************************)
(* What a promotion is worth on a cart, as the product service judges it   *)
(* (product/pkg/domain/promotion_evaluate.go): conditions are a list of    *)
(* comparisons that gate the cart or its lines, a benefit is a fixed sum   *)
(* or a percentage of the whole goods subtotal.                            *)
(*                                                                         *)
(* A cart gives the quantity of each of its skus.  A book is a state of    *)
(* the catalog: the price of every sku, whether it is sold and whether it  *)
(* is on sale.  A predicate that reads the catalog sees a blank line when  *)
(* the catalog does not answer.                                            *)
(***************************************************************************)
EXTENDS Integers, FiniteSetsExt

Subtotal(book, cart) == MapThenSumSet(LAMBDA s : cart[s] * book[s].price, DOMAIN cart)
ItemCount(cart)      == MapThenSumSet(LAMBDA s : cart[s], DOMAIN cart)

----------------------------------------------------------------------------
(* Predicates: [attr, op, value], checked for their types when written *)

CartAttrs == {"subtotal", "shipping_fee", "item_count"}
LineAttrs == {"unit_price", "category", "on_sale"}

Compare(op, actual, value) ==
  CASE op = "eq"  -> actual = value
    [] op = "neq" -> actual # value
    [] op = "in"  -> actual \in value
    [] op = "nin" -> actual \notin value
    [] op = "gte" -> actual >= value
    [] op = "lte" -> actual <= value
    [] op = "gt"  -> actual > value
    [] op = "lt"  -> actual < value

CartHolds(pred, book, cart, fee) ==
  Compare(pred.op,
          CASE pred.attr = "subtotal"     -> Subtotal(book, cart)
            [] pred.attr = "shipping_fee" -> fee
            [] pred.attr = "item_count"   -> ItemCount(cart),
          pred.value)

\* A line as its predicates read it; without the catalog it has no category
\* and is not on sale.
LineHolds(pred, book, s, answers) ==
  Compare(pred.op,
          CASE pred.attr = "unit_price" -> book[s].price
            [] pred.attr = "category"   -> IF answers THEN book[s].category ELSE ""
            [] pred.attr = "on_sale"    -> answers /\ book[s].onSale,
          pred.value)

EligibleLines(rule, book, cart, answers) ==
  {s \in DOMAIN cart :
     /\ \A pred \in rule.all : pred.attr \in LineAttrs => LineHolds(pred, book, s, answers)
     /\ \A pred \in rule.exclude : ~ LineHolds(pred, book, s, answers)}

\* No conditions: every cart that has a line.
Eligible(rule, book, cart, fee, answers) ==
  LET lines == EligibleLines(rule, book, cart, answers)
  IN
  /\ DOMAIN cart # {}
  /\ \A pred \in rule.all : pred.attr \in CartAttrs => CartHolds(pred, book, cart, fee)
  /\ IF rule.lineMatch = "all" THEN lines = DOMAIN cart ELSE lines # {}

----------------------------------------------------------------------------
(* Benefits: the whole subtotal is the base, whatever lines were eligible *)

AtMost(n, bound) == IF n > bound THEN bound ELSE n

Discount(rule, base) ==
  LET earned == IF rule.type = "fixed" THEN rule.amount ELSE (base * rule.amount) \div 100
  IN  AtMost(AtMost(earned, rule.max), base)

Refused == [ok |-> FALSE, won |-> 0]

\* The verdict on a rule that is active, not expired and not exhausted.
Evaluate(rule, book, cart, fee, answers) ==
  IF Eligible(rule, book, cart, fee, answers)
  THEN [ok |-> TRUE, won |-> Discount(rule, Subtotal(book, cart))]
  ELSE Refused

\* The best of a customer's tiers, which adds to any code; 0 without one.
BestTier(tiers, book, cart, fee, answers) ==
  LET won == {Evaluate(rule, book, cart, fee, answers).won : rule \in tiers}
  IN  IF won = {} THEN 0 ELSE CHOOSE n \in won : \A m \in won : m <= n
============================================================================
