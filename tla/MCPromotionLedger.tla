------------------------- MODULE MCPromotionLedger -------------------------
(* One code, two orders of one customer and one of another. *)
EXTENDS PromotionLedger

mcOrders     == {"o1", "o2", "o3"}
mcCustomerOf == [o \in mcOrders |-> IF o = "o3" THEN "bea" ELSE "ann"]
mcCaps       == {1, 2}
============================================================================
