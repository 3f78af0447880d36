---------------------------- MODULE MCPlaceOrder ----------------------------
(* Two clients with one key, four bodies, two of which are the same request. *)
EXTENDS PlaceOrder, TLC

CONSTANTS c1, c2

mcProductOf == [s \in Sku |-> "tote"]
mcRequests  == {[s \in Sku |-> IF s = 1 THEN 1 ELSE 0], [s \in Sku |-> IF s = 1 THEN 2 ELSE 0],
                [s \in Sku |-> 1]}

Line(s, n) == [sku |-> s, units |-> n]
Card       == [lines |-> <<Line(1, 1), Line(2, 1)>>, method |-> "", discount |-> 0, tier |-> 0]
Turned     == [Card EXCEPT !.lines = Reverse(@)]
Coded      == [lines |-> <<Line(1, 1), Line(2, 1)>>, method |-> "bypass", discount |-> 38, tier |-> 5]
Doubled    == [lines |-> <<Line(1, 1), Line(1, 1)>>, method |-> "credit_card", discount |-> 0, tier |-> 0]

mcInputs   == {Card, Turned, Coded, Doubled}

MCInit == PlaceInit /\ rows = Sku /\ \A s \in Sku : quantity[s] = 2 /\ price[s] = 20
MCSpec == MCInit /\ [][PlaceNext]_allVars

Interchangeable == Permutations(Client)
============================================================================
