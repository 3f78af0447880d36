----------------------------- MODULE MCPayment -----------------------------
(* One order priced for card, two payments, two requests at a time. *)
EXTENDS Payment

mcOrderMethod == [o \in {"o1"} |-> "credit_card"]
============================================================================
