----------------------------- MODULE MCCheckout -----------------------------
(* One session, a code that is not for goods on sale, a tier of 50%. *)
EXTENDS Checkout

mcOrders     == {1, 2}
mcCustomerOf == [o \in mcOrders |-> "ann"]
mcSessionOf  == [o \in mcOrders |-> "cs"]

Line(price, onSale) == [price |-> price, sold |-> TRUE, onSale |-> onSale, category |-> "bag"]

mcBooks == {[bag |-> Line(3, FALSE), hat |-> Line(1, TRUE)],
            [bag |-> Line(1, TRUE), hat |-> [Line(1, TRUE) EXCEPT !.sold = FALSE]]}

\* Everything is on sale.
mcSale  == {[bag |-> Line(3, TRUE), hat |-> Line(1, TRUE)]}
mcCarts == {[bag |-> 1], [bag |-> 1, hat |-> 1]}
mcOpening == {[bag |-> 1]}

mcRules == [spring |-> [all |-> {[attr |-> "subtotal", op |-> "gte", value |-> 2],
                                 [attr |-> "on_sale", op |-> "eq", value |-> FALSE]},
                        exclude |-> {[attr |-> "category", op |-> "in", value |-> {"gift"}]},
                        lineMatch |-> "any", type |-> "fixed", amount |-> 2, max |-> 100]]
mcTiers == {[all |-> {}, exclude |-> {}, lineMatch |-> "any", type |-> "percent",
             amount |-> 50, max |-> 100]}
mcCaps  == {2}

Symmetry == Permutations(Handlers)
============================================================================
