--------------------------- MODULE MCInventoryTx ---------------------------
(* Two requests racing over two skus of one product. *)
EXTENDS InventoryTx

mcSku        == {1, 2}
mcProduct    == {"tote"}
mcProductOf  == [s \in mcSku |-> "tote"]
mcRequests   == {[s \in mcSku |-> 1], [s \in mcSku |-> IF s = 2 THEN 1 ELSE 0]}
mcQuantities == {0, 2}
mcDeltas     == {-1}
============================================================================
