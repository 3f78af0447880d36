----------------------------- MODULE SkuRollout -----------------------------
(***************************************************************************)
(* The roll-out of sku_id, the permanent id of a variant, at the start of    *)
(* three services.  Product gives every variant an id and makes it the key  *)
(* (product/pkg/infra/pg/product_store.go); order waits until a tool has     *)
(* looked the old lines up in product (cmd/backfill-sku-id) and then makes   *)
(* it the key of its two line tables; cart throws old lines away.  A human   *)
(* sku is a name: a variant created after a delete may carry it again.       *)
(***************************************************************************)
EXTENDS Startup, FiniteSets, Functions

CONSTANTS
  Product,     \* product ids; a legacy variant has its product's id for a sku
  Name,        \* human skus
  MaxIds,      \* bound on ids ever given
  Line,        \* keys of lines; each table has its own lines
  OrderTables, \* tables of the order service, in the order they are promoted
  CartTable    \* cart_items

\* The services looked at here, and the tool.
Migrating == {"product", "order", "cart", "backfill"}

Table == {OrderTables[i] : i \in DOMAIN OrderTables} \cup {CartTable}

ASSUME RolloutAssumption ==
  /\ Migrating \subseteq Service
  /\ MaxIds \in Nat
  /\ Product \subseteq Name
  /\ DOMAIN OrderTables = {1, 2}
  /\ OrderTables[1] # OrderTables[2] /\ CartTable \notin {OrderTables[1], OrderTables[2]}

VARIABLES
  product,     \* table products: ids present
  variant,     \* table product_variants, by sku; id 0: NULL
  variantKey,  \* its primary key: "sku", "none", "sku_id"
  skuUnique,   \* constraint product_variants_sku_key
  idRequired,  \* sku_id is NOT NULL
  lastId,      \* ids given so far (ULIDs: never twice)
  item,        \* the line tables: by line, the sku and its id
  itemKey,     \* their primary keys
  pending,     \* skus a loop of product's start, or the tool, has still to do
  found,       \* the sku the tool looked up, with its id
  named        \* history: pairs of a sku and an id it stood for

rolloutVars ==
  <<product, variant, variantKey, skuUnique, idRequired, lastId, item, itemKey, pending, found, named>>
productVars == <<product, variant, variantKey, skuUnique, idRequired, lastId, named>>
allVars     == <<startupVars, rolloutVars>>

Owner(t)   == IF t = CartTable THEN "cart" ELSE "order"
Missing(f) == {x \in DOMAIN f : f[x].id = 0}
Nothing    == [sku |-> "", id |-> 0]

Without(x, f) == Restrict(f, DOMAIN f \ {x})
With(x, row, f) == [y \in DOMAIN f \cup {x} |-> IF y = x THEN row ELSE f[y]]

(* A database from before the roll-out: products with and without variants,  *)
(* lines that name skus, some of them gone (of the services looked at).       *)
RolloutInit ==
  /\ StartupInit
  /\ product \in SUBSET Product
  /\ variant \in UNION {[S -> [product : product, id : {0}]] : S \in SUBSET Name}
  /\ variantKey = "sku"
  /\ skuUnique = FALSE
  /\ idRequired = FALSE
  /\ lastId = 0
  /\ item \in [Table -> {[l \in {} |-> Nothing]} \cup [Line -> [sku : Name, id : {0}]]]
  /\ \A t \in Table : at[Owner(t)] # Down => item[t] = [l \in {} |-> Nothing]
  /\ itemKey = [t \in Table |-> "sku"]
  /\ pending = [s \in Migrating |-> {}]
  /\ found = Nothing
  /\ named = {}

----------------------------------------------------------------------------
(* The start of product.                                                    *)

Bare == {p \in product : \A s \in DOMAIN variant : variant[s].product # p}

\* ON CONFLICT (sku) needs a unique key on sku, and the inserted rows no id.
MayBackfill == (variantKey = "sku" \/ skuUnique) /\ (idRequired => Bare = {})

BackfillVariants ==
  /\ \/ /\ MayBackfill
        /\ Run("product", <<"variants">>, <<"list">>)
        /\ variant' = [s \in DOMAIN variant \cup Bare |->
                         IF s \in DOMAIN variant THEN variant[s] ELSE [product |-> s, id |-> 0]]
     \/ ~MayBackfill /\ Refuse("product", <<"variants">>, IF variantKey = "sku" \/ skuUnique THEN "bare product" ELSE "no key")
        /\ UNCHANGED variant
  /\ UNCHANGED <<product, variantKey, skuUnique, idRequired, lastId, item, itemKey, pending, found, named>>

ListMissing ==
  /\ Run("product", <<"list">>, <<"ids">>)
  /\ pending' = [pending EXCEPT !["product"] = Missing(variant)]
  /\ UNCHANGED <<productVars, item, itemKey, found>>

GiveId(s) ==
  /\ at["product"] = <<"ids">>
  /\ s \in pending["product"]
  /\ lastId < MaxIds
  /\ lastId' = lastId + 1
  /\ variant' = [variant EXCEPT ![s].id = lastId + 1]
  /\ named' = named \cup {<<s, lastId + 1>>}
  /\ pending' = [pending EXCEPT !["product"] = @ \ {s}]
  /\ UNCHANGED <<startupVars, product, variantKey, skuUnique, idRequired, item, itemKey, found>>

RequireIds ==
  /\ pending["product"] = {}
  /\ Run("product", <<"ids">>, <<"key">>)
  /\ idRequired' = TRUE
  /\ UNCHANGED <<product, variant, variantKey, skuUnique, lastId, item, itemKey, pending, found, named>>

(* The unique index on sku_id was created just before, so the new key only  *)
(* takes it over.                                                           *)
ReadVariantKey ==
  /\ CASE variantKey = "sku_id" -> Run("product", <<"key">>, Serving)
       [] variantKey = "sku"    -> Run("product", <<"key">>, <<"drop">>)
       [] variantKey = "none"   -> Refuse("product", <<"key">>, "no key")
  /\ UNCHANGED rolloutVars

DropVariantKey ==
  /\ Run("product", <<"drop">>, <<"add">>)
  /\ variantKey' = "none"
  /\ UNCHANGED <<product, variant, skuUnique, idRequired, lastId, item, itemKey, pending, found, named>>

AddVariantKey ==
  /\ Run("product", <<"add">>, <<"unique">>)
  /\ variantKey' = "sku_id"
  /\ UNCHANGED <<product, variant, skuUnique, idRequired, lastId, item, itemKey, pending, found, named>>

KeepSkuUnique ==
  /\ Run("product", <<"unique">>, Serving)
  /\ skuUnique' = TRUE
  /\ UNCHANGED <<product, variant, variantKey, idRequired, lastId, item, itemKey, pending, found, named>>

----------------------------------------------------------------------------
(* What product does when it is up.                                         *)

\* A product may be created without any variant (CreateProduct).
CreateProduct(p) ==
  /\ Up("product")
  /\ p \notin product
  /\ product' = product \cup {p}
  /\ UNCHANGED <<startupVars, variant, variantKey, skuUnique, idRequired, lastId, item, itemKey, pending, found, named>>

CreateVariant(p, s) ==
  /\ Up("product")
  /\ p \in product /\ s \notin DOMAIN variant
  /\ lastId < MaxIds
  /\ lastId' = lastId + 1
  /\ variant' = With(s, [product |-> p, id |-> lastId + 1], variant)
  /\ named' = named \cup {<<s, lastId + 1>>}
  /\ UNCHANGED <<startupVars, product, variantKey, skuUnique, idRequired, item, itemKey, pending, found>>

DeleteVariant(s) ==
  /\ Up("product")
  /\ s \in DOMAIN variant
  /\ variant' = Without(s, variant)
  /\ UNCHANGED <<startupVars, product, variantKey, skuUnique, idRequired, lastId, item, itemKey, pending, found, named>>

----------------------------------------------------------------------------
(* The start of order, table by table, and of cart.                         *)

Step(t, what) == <<what, t>>
AfterTable(t) == IF t = OrderTables[1] THEN Step(OrderTables[2], "look") ELSE Serving
FirstStep(s)  == CASE s = "product" -> <<"variants">>
                   [] s = "order" -> Step(OrderTables[1], "look")
                   [] s = "cart" -> Step(CartTable, "look")
                   [] s = "backfill" -> <<"list">>

\* Slip: a table without a key is taken for one that was promoted.
LookForLegacyKey(t) ==
  /\ Run(Owner(t), Step(t, "look"),
         IF itemKey[t] # "sku" \/ (Owner(t) = "order" /\ Missing(item[t]) # {}) THEN AfterTable(t)
         ELSE IF t = CartTable THEN Step(t, "purge") ELSE Step(t, "drop"))
  /\ UNCHANGED rolloutVars

(* A promoted table is left alone, and so is a table of order that has lines  *)
(* without an id.  (SET NOT NULL cannot fail then, and changes nothing else.) *)
Look(t) ==
  /\ Run(Owner(t), Step(t, "look"),
         IF itemKey[t] = "sku_id" \/ (Owner(t) = "order" /\ Missing(item[t]) # {}) THEN AfterTable(t)
         ELSE IF t = CartTable THEN Step(t, "purge") ELSE Step(t, "drop"))
  /\ UNCHANGED rolloutVars

Purge(t) ==
  /\ t = CartTable
  /\ Run("cart", Step(t, "purge"), Step(t, "drop"))
  /\ item' = [item EXCEPT ![t] = Restrict(@, DOMAIN @ \ Missing(@))]
  /\ UNCHANGED <<productVars, itemKey, pending, found>>

\* DROP CONSTRAINT without IF EXISTS.
DropKey(t) ==
  /\ \/ /\ itemKey[t] = "sku"
        /\ Run(Owner(t), Step(t, "drop"), Step(t, "add"))
        /\ itemKey' = [itemKey EXCEPT ![t] = "none"]
     \/ itemKey[t] = "none" /\ Refuse(Owner(t), Step(t, "drop"), "no key") /\ UNCHANGED itemKey
  /\ UNCHANGED <<productVars, item, pending, found>>

AddKey(t) ==
  /\ Run(Owner(t), Step(t, "add"), AfterTable(t))
  /\ itemKey' = [itemKey EXCEPT ![t] = "sku_id"]
  /\ UNCHANGED <<productVars, item, pending, found>>

(* A line written by a service that is up carries the id its variant has    *)
(* now: product is asked first (CreateOrder, UpsertItem).                    *)
AddLine(t, l, s) ==
  /\ Up(Owner(t)) /\ Up("product")
  /\ s \in DOMAIN variant /\ l \notin DOMAIN item[t]
  /\ item' = [item EXCEPT ![t] = With(l, [sku |-> s, id |-> variant[s].id], @)]
  /\ UNCHANGED <<startupVars, productVars, itemKey, pending, found>>

RemoveFromCart(l) ==
  /\ Up("cart")
  /\ l \in DOMAIN item[CartTable]
  /\ item' = [item EXCEPT ![CartTable] = Without(l, @)]
  /\ UNCHANGED <<startupVars, productVars, itemKey, pending, found>>

----------------------------------------------------------------------------
(* cmd/backfill-sku-id.                                                     *)

ListUnresolved ==
  /\ Run("backfill", <<"list">>, <<"next">>)
  /\ pending' = [pending EXCEPT !["backfill"] =
                   UNION {{item[t][l].sku : l \in Missing(item[t])} : t \in Table \ {CartTable}}]
  /\ UNCHANGED <<productVars, item, itemKey, found>>

(* A sku product does not know, or does not answer for, is skipped. *)
LookUpSku(s) ==
  /\ s \in pending["backfill"]
  /\ pending' = [pending EXCEPT !["backfill"] = @ \ {s}]
  /\ \/ /\ Up("product") /\ s \in DOMAIN variant
        /\ Run("backfill", <<"next">>, Step(OrderTables[1], "update"))
        /\ found' = [sku |-> s, id |-> variant[s].id]
     \/ Run("backfill", <<"next">>, <<"next">>) /\ UNCHANGED found
  /\ UNCHANGED <<productVars, item, itemKey>>

\* Slip: a line that has its id is looked up again.
ResolvesAgain(line) == line.sku = found.sku

Resolves(line) == line.sku = found.sku /\ line.id = 0

UpdateTable(t) ==
  /\ t # CartTable
  /\ Run("backfill", Step(t, "update"), IF t = OrderTables[1] THEN Step(OrderTables[2], "update") ELSE <<"next">>)
  /\ item' = [item EXCEPT ![t] = [l \in DOMAIN @ |-> IF Resolves(@[l]) THEN [@[l] EXCEPT !.id = found.id] ELSE @[l]]]
  /\ UNCHANGED <<productVars, itemKey, pending, found>>

FinishBackfill ==
  /\ pending["backfill"] = {}
  /\ Run("backfill", <<"next">>, Down)
  /\ UNCHANGED rolloutVars

StartService(s) ==
  /\ BeginStart(s, FirstStep(s))
  /\ pending' = [pending EXCEPT ![s] = {}]
  /\ UNCHANGED <<productVars, item, itemKey, found>>

Die(s)    == Crash(s) /\ UNCHANGED rolloutVars
Deploy(s) == Redeploy(s) /\ UNCHANGED rolloutVars

StartStep ==
  \/ BackfillVariants
  \/ ListMissing
  \/ \E s \in Name : GiveId(s)
  \/ RequireIds
  \/ ReadVariantKey
  \/ DropVariantKey
  \/ AddVariantKey
  \/ KeepSkuUnique
  \/ \E t \in Table : Look(t) \/ Purge(t) \/ DropKey(t) \/ AddKey(t)

RolloutNext ==
  \/ StartStep
  \/ \E p \in Product : CreateProduct(p)
  \/ \E p \in Product, s \in Name : CreateVariant(p, s)
  \/ \E s \in Name : DeleteVariant(s)
  \/ \E t \in Table, l \in Line, s \in Name : AddLine(t, l, s)
  \/ \E l \in Line : RemoveFromCart(l)
  \/ ListUnresolved
  \/ \E s \in Name : LookUpSku(s)
  \/ \E t \in Table : UpdateTable(t)
  \/ FinishBackfill
  \/ \E s \in Migrating : StartService(s) \/ Die(s) \/ Deploy(s)

RolloutSpec == RolloutInit /\ [][RolloutNext]_allVars

----------------------------------------------------------------------------
(* A service that serves has a primary key on each of its tables, and        *)
(* product still has one row per human sku, wherever a start died.           *)
KeyedWhenUp ==
  /\ \A t \in Table : Up(Owner(t)) => itemKey[t] # "none"
  /\ \A t \in Table : itemKey[t] = "sku_id" => Missing(item[t]) = {}
  /\ Up("product") => variantKey = "sku_id" /\ skuUnique /\ Missing(variant) = {}

(* No id is given twice, and a line's id is one its sku stood for. *)
IdsAreNames ==
  /\ \A a, b \in named : a[2] = b[2] => a = b
  /\ \A t \in Table : \A l \in DOMAIN item[t] \ Missing(item[t]) :
       <<item[t][l].sku, item[t][l].id>> \in named

(* Starts that die and are repeated, the tool and the services that write    *)
(* meanwhile leave usable keys and true ids (promoteSkuIDPrimaryKey,          *)
(* backfillSkuIDs, cmd/backfill-sku-id).                                    *)
RolloutSafe == KeyedWhenUp /\ IdsAreNames

(* An id, once given to a variant or a line, stays, although starts and the  *)
(* tool are repeated after a death and names are used again (the guards       *)
(* "sku_id IS NULL" of backfillSkuIDs and of the tool).  And order's lines    *)
(* are kept for ever (comment of its promoteSkuIDPrimaryKey); a start of      *)
(* cart takes no line away whose id is known.                               *)
LinesKept ==
  [][/\ \A s \in DOMAIN variant \cap DOMAIN variant' :
          variant[s].id # 0 => variant'[s].id = variant[s].id
     /\ \A t \in Table :
          /\ \A l \in DOMAIN item[t] \cap DOMAIN item'[t] :
               item[t][l].id # 0 => item'[t][l] = item[t][l]
          /\ \A l \in DOMAIN item[t] \ DOMAIN item'[t] :
               t = CartTable /\ (Up("cart") \/ item[t][l].id = 0)]_allVars

----------------------------------------------------------------------------
(* Statements of comments that do not hold (see README).                     *)

(* The comments on promoteSkuIDPrimaryKey in cart and in product say "Safe    *)
(* to run on every startup": no statement of a promotion is refused.         *)
PromotionIsRestartable ==
  \A s \in Migrating : <<s, "no key">> \notin refused

(* "backfillVariants creates one variant per legacy product row that has     *)
(* none yet" (product_store.go:316): the start gets past it.                 *)
BackfillCreatesVariants == <<"product", "bare product">> \notin refused
============================================================================
