----------------------------- MODULE MCCatalog -----------------------------
(* A style with up to two variants, one of which has a second color; the    *)
(* style's product can be deleted and created again.                        *)
EXTENDS Catalog, TLC

CONSTANTS h1, h2

mcSku       == {1, 2, 3}
mcProduct   == {"first", "second"}
mcProductOf == [s \in mcSku |-> IF s = 3 THEN "second" ELSE "first"]
mcRequests  == {[s \in mcSku |-> IF s = 1 THEN 1 ELSE 0]}
mcDeltas    == {-1}
mcBrandOf   == [st \in Style |-> "VIN"]
mcStyleOf   == [p \in mcProduct |-> "TOTE"]
mcSizesOf   == [c \in Category |-> IF c = "clothing" THEN {"M"} ELSE {}]

Plain == [color |-> "BLK", size |-> "OS", edition |-> NoCode, color2 |-> NoCode,
          status |-> "active", images |-> <<>>, listing |-> <<>>]
Duo   == [Plain EXCEPT !.color = "TAN", !.size = "M", !.edition = "LTD", !.color2 = "BLK",
                         !.images = <<0>>]
Again == [Plain EXCEPT !.edition = "LTD"]
Bag   == [status |-> "active", category |-> "bags"]

mcBodies         == {Plain, Duo}
mcNewProducts    == {[row |-> Bag, bodies |-> <<Plain, other>>] : other \in {Duo, Again}}
mcVariantPatches == {[status |-> "draft"], [color2 |-> "TAN"]}
mcProductPatches == {[category |-> "clothing"], [status |-> "active"]}

Interchangeable == Permutations(Staff)
============================================================================
