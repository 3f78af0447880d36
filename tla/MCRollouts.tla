----------------------------- MODULE MCRollouts -----------------------------
(* Two roll-outs that share nothing but the way services start: SkuRollout    *)
(* and Wallet.  Which processes there are decides which one a behaviour is.   *)
EXTENDS SkuRollout, Wallet

CONSTANTS bag, bagBlack, l1, server, tool, ann, welcome, vip

mcService == Migrating \cup {server, tool}
mcCasts   == {{"product", "order", "backfill"}, {"product", "cart"}, {server, tool}}
mcTables  == <<"order_items", "checkout_session_items">>

Def(scope, auto, ttl, ends) ==
  [scope |-> scope, tier |-> FALSE, auto |-> auto, capped |-> FALSE, active |-> FALSE, ttl |-> ttl, ends |-> ends]

mcInitDefs == [c \in {welcome} |-> Def("single", FALSE, 1, Never)]
mcNewDefs  == {Def("single", TRUE, 0, 0)}
mcPatches  == {[f \in {"auto"} |-> FALSE]}

Campaign == at[Server] # <<"absent">>

MCInit == RolloutInit /\ WalletInit /\ (Campaign => product = {} /\ DOMAIN variant = {})

MCNext ==
  \/ RolloutNext /\ UNCHANGED campaignVars
  \/ Campaign /\ WalletNext /\ UNCHANGED rolloutVars

MCSpec == MCInit /\ [][MCNext]_<<allVars, walletVars>>
============================================================================
