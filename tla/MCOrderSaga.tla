---------------------------- MODULE MCOrderSaga ----------------------------
(* One sku, one order of one unit, handlers given to each process. *)
EXTENDS OrderSaga

CONSTANTS p1, p2, p3, q1, q2

mcSku        == {1}
mcProductOf  == [s \in mcSku |-> "tote"]
mcRequests   == {[s \in mcSku |-> 1]}
mcItemsOf    == [o \in 1..NumOrders |-> [s \in mcSku |-> 1]]
mcPaymentOrder == [q \in Payment |-> 1]

Consumers == {"markPaid", "refunded"}
Desk      == {"confirm", "ship", "cancel"}

mcPreShip == [p \in Proc |-> CASE p = p1 -> {"place", "expire"} \cup Consumers
                               [] p = p2 -> Desk
                               [] OTHER  -> {"cancel", "ship"}]

mcShipping == [p \in Proc |-> CASE p = p1 -> {"place", "markPaid", "deliver", "dispute"}
                                [] p = p2 -> Desk \cup {"fulfill", "reject"}
                                [] OTHER  -> {"receipt", "resolve", "request"}]

mcDelivering == [p \in Proc |-> IF p = p1 THEN {"place", "markPaid", "deliver"} ELSE Desk]
============================================================================
