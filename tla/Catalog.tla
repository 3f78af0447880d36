------------------------------ MODULE Catalog ------------------------------
(***************************************************************************)
(* The catalogue of the product service over its stock rows: the          *)
(* dictionaries a sku is composed from (infra/pg/catalog_store.go),        *)
(* products and variants (service/product_search_service.go,               *)
(* infra/pg/product_store.go, infra/pg/variant_store.go).                  *)
(*                                                                         *)
(* Every request reads what it needs first and writes in a later           *)
(* transaction, which only the foreign keys and unique indexes protect: a  *)
(* step here is one such read or write, and a request that dies in between *)
(* leaves what it has written.  Products and variants are saved as whole   *)
(* rows, as they were read.  Variants are addressed by their human sku,    *)
(* the combination of codes, which a later variant may carry again.        *)
(*                                                                         *)
(* Reads that only refuse a request early, and are repeated by a           *)
(* constraint of its write, share a step with the read before them.        *)
(***************************************************************************)
EXTENDS Inventory, Sequences

CONSTANTS
  Staff,          \* requests that may be under way at once
  NoCode,         \* a column that is NULL
  Brand, Style, BaseColor, Color, Size, Edition,   \* codes of the dictionaries
  BrandOf,        \* the brand of each style
  StyleOf,        \* the style each product is created with
  Category,       \* merchandising categories
  SizesOf,        \* the sizes a category sells; none listed: any
  Bodies,         \* variants staff ask for
  NewProducts,    \* products staff ask for: their row and their variants
  VariantPatches, \* the fields a variant update sets
  ProductPatches, \* the fields a product update sets
  MaxRequests     \* bound on the requests begun and the dictionary rows edited

(* A product's status and category are among those there are. *)
ProductRow == [status : {"active", "draft"}, category : Category]

ASSUME CatalogAssumption ==
  /\ \A n \in NewProducts : n.row \in ProductRow
  /\ \A patch \in ProductPatches :
       /\ "status" \in DOMAIN patch => patch.status \in {"active", "draft"}
       /\ "category" \in DOMAIN patch => patch.category \in Category

VARIABLES
  dict,      \* rows of the six dictionary tables, by code
  baseOf,    \* colors.base_code
  product,   \* products.status ("none": no row) and category
  variant,   \* product_variants, by sku id
  req,       \* the request each member of staff has under way
  begun      \* requests begun so far; also names uploaded images

catalogVars == <<dict, baseOf, product, variant, req, begun>>
allVars     == <<vars, catalogVars>>

Blank == [color |-> NoCode, size |-> NoCode, edition |-> NoCode, color2 |-> NoCode,
          status |-> "none", images |-> <<>>, listing |-> <<>>]
NoProduct == [status |-> "none", category |-> NoCode]
Idle == [at |-> "idle"]

SkuString(p, v) == <<StyleOf[p], v.color, v.edition, v.size>>
NameOf(s)       == SkuString(ProductOf[s], variant[s])
Named(name)     == {s \in rows : NameOf(s) = name}
Exists(p)       == product[p].status # "none"
Variants(p)     == rows \cap SkusOf(p)
Active(v)       == v.status = "active"

SizeFits(c, z) == SizesOf[c] = {} \/ z \in SizesOf[c]

\* The codes of a variant are in their dictionaries.
KnownColor2(v) == v.color2 \in dict.color \cup {NoCode}
KnownCodes(v) ==
  /\ v.color \in dict.color
  /\ KnownColor2(v)
  /\ v.size \in dict.size
  /\ v.edition \in dict.edition \cup {NoCode}

KnownStyle(st) == BrandOf[st] \in dict.brand /\ st \in dict.style
StyleTaken(st) == \E p \in Product : Exists(p) /\ StyleOf[p] = st

\* UNIQUE (product_id, color, size) is on the display names, which follow
\* the codes here; the edition does not count.
OptionTaken(p, v) ==
  \E s \in Variants(p) : variant[s].color = v.color /\ variant[s].size = v.size

CatalogInit ==
  /\ Init
  /\ dict \in [brand : SUBSET Brand, style : SUBSET Style, base : {BaseColor},
              color : {Color}, size : {Size}, edition : {Edition}]
  /\ \A st \in dict.style : BrandOf[st] \in dict.brand
  /\ baseOf = [c \in Color |-> IF c \in BaseColor THEN c ELSE NoCode]
  /\ product \in [Product -> {NoProduct} \cup ProductRow]
  /\ \A p \in Product : Exists(p) => StyleOf[p] \in dict.style
  /\ \A p, q \in Product : Exists(p) /\ Exists(q) /\ StyleOf[p] = StyleOf[q] => p = q
  /\ variant \in [Sku -> Bodies \cup {Blank}]
  /\ \A s \in Sku :
       /\ s \in rows <=> variant[s] # Blank
       /\ s \in rows => /\ Exists(ProductOf[s]) /\ KnownCodes(variant[s])
                        /\ SizeFits(product[ProductOf[s]].category, variant[s].size)
                        /\ \A t \in Variants(ProductOf[s]) :
                             variant[t].color = variant[s].color /\ variant[t].size = variant[s].size => t = s
  /\ req = [h \in Staff |-> Idle]
  /\ begun = 0

----------------------------------------------------------------------------
(* Dictionaries: one statement each, refused by the unique code, by the     *)
(* foreign key of the row, or by a row that still refers to it (RESTRICT).  *)

Edit(table, codes) ==
  /\ begun < MaxRequests
  /\ begun' = begun + 1
  /\ dict' = [dict EXCEPT ![table] = codes]
  /\ UNCHANGED <<vars, product, variant, req>>

Add(table, code)  == code \notin dict[table] /\ Edit(table, dict[table] \cup {code})
Drop(table, code) == code \in dict[table] /\ Edit(table, dict[table] \ {code})

CreateBrand(b) == Add("brand", b) /\ UNCHANGED baseOf

DeleteBrand(b) ==
  /\ \A st \in dict.style : BrandOf[st] # b
  /\ Drop("brand", b)
  /\ UNCHANGED baseOf

CreateStyle(st) ==
  /\ BrandOf[st] \in dict.brand
  /\ Add("style", st)
  /\ UNCHANGED baseOf

DeleteStyle(st) ==
  /\ \A p \in Product : Exists(p) => StyleOf[p] # st
  /\ Drop("style", st)
  /\ UNCHANGED baseOf

CreateBaseColor(b) == Add("base", b) /\ UNCHANGED baseOf

DeleteBaseColor(b) ==
  /\ \A c \in dict.color : baseOf[c] # b
  /\ Drop("base", b)
  /\ UNCHANGED baseOf

CreateColor(c, b) ==
  /\ b \in dict.base \cup {NoCode}
  /\ Add("color", c)
  /\ baseOf' = [baseOf EXCEPT ![c] = b]

DeleteColor(c) ==
  /\ \A s \in rows : c \notin {variant[s].color, variant[s].color2}
  /\ Drop("color", c)
  /\ baseOf' = [baseOf EXCEPT ![c] = NoCode]

CreateSize(z) == Add("size", z) /\ UNCHANGED baseOf

DeleteSize(z) ==
  /\ \A s \in rows : variant[s].size # z
  /\ Drop("size", z)
  /\ UNCHANGED baseOf

CreateEdition(e) == Add("edition", e) /\ UNCHANGED baseOf

DeleteEdition(e) ==
  /\ \A s \in rows : variant[s].edition # e
  /\ Drop("edition", e)
  /\ UNCHANGED baseOf

----------------------------------------------------------------------------
(* Requests *)

At(h, step) == req[h].at = step
Go(h, r)    == req' = [req EXCEPT ![h] = r]
Done(h)     == Go(h, Idle)

\* A request starts with reads only.
Begin(h, r) ==
  /\ At(h, "idle")
  /\ begun < MaxRequests
  /\ begun' = begun + 1
  /\ Go(h, r)
  /\ UNCHANGED <<vars, dict, baseOf, product, variant>>

\* A write the database refuses, or a read that found nothing to do.
Leave(h) == Done(h) /\ UNCHANGED <<vars, dict, baseOf, product, variant, begun>>

(* The process dies or a call fails between two steps of a request. *)
Crash(h) == ~ At(h, "idle") /\ Leave(h)

\* Checks before a variant is inserted: its codes exist, its sku is unused.
MayInsert(p, v) ==
  /\ Exists(p)
  /\ KnownCodes(v)
  /\ Named(SkuString(p, v)) = {}

(* UpdateColor reads the row, applies the patch and saves it whole: also a  *)
(* rename writes the base color it read.                                    *)
BeginUpdateColor(h, c, b) ==
  /\ c \in dict.color
  /\ Begin(h, [at |-> "saveColor", color |-> c, base |-> b])

SaveColor(h) ==
  LET r == req[h]
  IN
  /\ At(h, "saveColor")
  /\ \/ /\ r.color \in dict.color
        /\ r.base \in dict.base \cup {NoCode}
        /\ baseOf' = [baseOf EXCEPT ![r.color] = r.base]
        /\ Done(h)
        /\ UNCHANGED <<vars, dict, product, variant, begun>>
     \/ /\ ~ (r.color \in dict.color /\ r.base \in dict.base \cup {NoCode})
        /\ Leave(h)

(* CreateProduct checks the sizes, the brand and the style, inserts the     *)
(* product and then its variants, each in a transaction of its own.         *)
BeginCreateProduct(h, st, row, bodies) ==
  /\ \A i \in DOMAIN bodies : SizeFits(row.category, bodies[i].size)
  /\ KnownStyle(st)
  /\ Begin(h, [at |-> "insertProduct", style |-> st, row |-> row, todo |-> bodies])

\* The next variant of a product being created, or the end of the request.
NextBody(h, p, todo) ==
  IF todo = <<>> THEN Done(h) ELSE Go(h, [at |-> "checkVariant", product |-> p, todo |-> todo])

\* Product ids are ULIDs as well: none is used again.
NewProduct(st) == {p \in Product \ deleted : ~ Exists(p) /\ StyleOf[p] = st}

InsertProduct(h) ==
  LET r == req[h]
  IN
  /\ At(h, "insertProduct")
  /\ IF KnownStyle(r.style) /\ ~ StyleTaken(r.style)
     THEN /\ \E p \in NewProduct(r.style) : /\ product' = [product EXCEPT ![p] = r.row]
                                           /\ NextBody(h, p, r.todo)
          /\ UNCHANGED <<vars, dict, baseOf, variant, begun>>
     ELSE Leave(h)

CheckVariant(h) ==
  LET r == req[h]
  IN
  /\ At(h, "checkVariant")
  /\ IF MayInsert(r.product, Head(r.todo))
     THEN /\ Go(h, [r EXCEPT !.at = "insertVariant"])
          /\ UNCHANGED <<vars, dict, baseOf, product, variant, begun>>
     ELSE Leave(h)

(* CreateVariant of the service: the size must be one the category sells.   *)
BeginCreateVariant(h, p, v) ==
  /\ Exists(p)
  /\ SizeFits(product[p].category, v.size)
  /\ MayInsert(p, v)
  /\ Begin(h, [at |-> "insertVariant", product |-> p, todo |-> <<v>>])

\* ULIDs grow with time: a new variant gets the smallest one not used yet.
NewSku(p) ==
  LET unused == SkusOf(p) \ (rows \cup retired)
  IN  {s \in unused : \A t \in unused : s <= t}

(* Slip: the checks of the request are trusted at the insert. *)
InsertUnchecked(h) ==
  LET r == req[h]
  IN
  /\ At(h, "insertVariant")
  /\ \E s \in NewSku(r.product) :
       /\ CreateVariant(s)
       /\ variant' = [variant EXCEPT ![s] = Head(r.todo)]
  /\ NextBody(h, r.product, Tail(r.todo))
  /\ UNCHANGED <<dict, baseOf, product, begun>>

(* The insert: foreign keys and unique constraints decide again, and the    *)
(* stock row comes with the variant.                                        *)
InsertVariant(h) ==
  LET r == req[h]
  IN
  /\ At(h, "insertVariant")
  /\ IF MayInsert(r.product, Head(r.todo)) /\ ~ OptionTaken(r.product, Head(r.todo))
     THEN /\ \E s \in NewSku(r.product) :
               /\ CreateVariant(s)
               /\ variant' = [variant EXCEPT ![s] = Head(r.todo)]
          /\ NextBody(h, r.product, Tail(r.todo))
          /\ UNCHANGED <<dict, baseOf, product, begun>>
     ELSE Leave(h)

\* SyncListingImageURLs: surviving images keep the listing thumb at their
\* index, the others get the thumb derived from their name.
Synced(old, images) ==
  [i \in DOMAIN images |->
     IF \E j \in DOMAIN old.listing : old.images[j] = images[i]
     THEN old.listing[CHOOSE j \in DOMAIN old.listing : old.images[j] = images[i]]
     ELSE images[i]]

\* Variant.MergeUpdate for the fields staff send; a patch has no others.
Merge(row, patch) ==
  LET merged == [f \in DOMAIN row |-> IF f \in DOMAIN patch THEN patch[f] ELSE row[f]]
  IN  IF "images" \in DOMAIN patch
      THEN [merged EXCEPT !.listing = Synced(row, patch.images)]
      ELSE merged

(* UpdateVariant merges the patch onto the row it read.  The second color   *)
(* may not repeat the first.                                                *)
BeginUpdateVariant(h, s, patch) ==
  LET merged == Merge(variant[s], patch)
  IN
  /\ s \in rows
  /\ merged.color2 \in {NoCode} \cup (Color \ {merged.color})
  /\ Begin(h, [at |-> "saveVariant", product |-> ProductOf[s], row |-> merged,
               left |-> Active(variant[s]) /\ ~ Active(merged)])

(* UploadVariantImage stores the image and its thumb and appends both to    *)
(* the row it read before.                                                  *)
BeginUpload(h, s) ==
  LET image == begun + 1
  IN
  /\ s \in rows
  /\ Begin(h, [at |-> "saveVariant", product |-> ProductOf[s], left |-> FALSE,
               row |-> [variant[s] EXCEPT !.images  = Append(@, image),
                                          !.listing = Append(@, image)]])

\* A sku left active: does its product still have something to sell?
LookForDraft(h, p) == Go(h, [at |-> "lookForDraft", product |-> p])

(* The row is written by human sku, whichever variant carries it now. *)
SaveVariant(h) ==
  LET r      == req[h]
      target == Named(SkuString(r.product, r.row))
  IN
  /\ At(h, "saveVariant")
  /\ IF target = {} \/ ~ KnownColor2(r.row)
     THEN Leave(h)
     ELSE /\ variant' = [s \in Sku |-> IF s \in target THEN r.row ELSE variant[s]]
          /\ IF r.left THEN LookForDraft(h, r.product) ELSE Done(h)
          /\ UNCHANGED <<vars, dict, baseOf, product, begun>>

(* draftIfNoActiveVariant reads the product with its variants and saves the *)
(* row it read as a draft.                                                  *)
FindNothingToSell(h) ==
  LET p == req[h].product
  IN
  /\ At(h, "lookForDraft")
  /\ IF product[p].status = "active" /\ \A s \in Variants(p) : ~ Active(variant[s])
     THEN /\ Go(h, [at |-> "saveProduct", product |-> p, asked |-> FALSE,
                    row |-> [product[p] EXCEPT !.status = "draft"]])
          /\ UNCHANGED <<vars, dict, baseOf, product, variant, begun>>
     ELSE Leave(h)

(* UpdateProduct merges onto the row it read; a new category must sell the  *)
(* sizes of the variants read with it.                                      *)
BeginUpdateProduct(h, p, patch) ==
  LET merged == [f \in DOMAIN product[p] |-> IF f \in DOMAIN patch THEN patch[f] ELSE product[p][f]]
  IN
  /\ Exists(p)
  /\ merged.category # product[p].category =>
       \A s \in Variants(p) : SizeFits(merged.category, variant[s].size)
  /\ Begin(h, [at |-> "saveProduct", product |-> p, row |-> merged,
               asked |-> "status" \in DOMAIN patch])

SaveProduct(h) ==
  LET r == req[h]
  IN
  /\ At(h, "saveProduct")
  /\ IF Exists(r.product)
     THEN /\ product' = [product EXCEPT ![r.product] = r.row]
          /\ Done(h)
          /\ UNCHANGED <<vars, dict, baseOf, variant, begun>>
     ELSE Leave(h)

(* DeleteVariant refuses a sku with stock on hand or reserved. *)
BeginDeleteVariant(h, s) ==
  /\ s \in rows
  /\ reserved[s] = 0
  /\ quantity[s] = 0
  /\ Begin(h, [at |-> "deleteVariant", product |-> ProductOf[s], name |-> NameOf(s),
               left |-> Active(variant[s])])

\* What follows the delete of a variant.
AfterDelete(h) ==
  IF req[h].left THEN LookForDraft(h, req[h].product) ELSE Done(h)

(* Slip: the stock row goes because the request saw it empty. *)
RemoveUnchecked(h) ==
  /\ At(h, "deleteVariant")
  /\ \E s \in Named(req[h].name) :
       /\ DropRows({s})
       /\ variant' = [variant EXCEPT ![s] = Blank]
  /\ AfterDelete(h)
  /\ UNCHANGED <<seq, status, lines, deleted, soldCount, dict, baseOf, product, begun>>

(* The transaction drops the stock row only while it is empty, and its      *)
(* foreign key keeps the variant otherwise.                                 *)
RemoveVariant(h) ==
  LET gone == {s \in Named(req[h].name) : quantity[s] = 0 /\ reserved[s] = 0}
  IN
  /\ At(h, "deleteVariant")
  /\ IF gone = {}
     THEN Leave(h)
     ELSE /\ \E s \in gone : /\ DeleteVariant(s)
                             /\ variant' = [variant EXCEPT ![s] = Blank]
          /\ AfterDelete(h)
          /\ UNCHANGED <<dict, baseOf, product, begun>>

(* DeleteProduct refuses while one of its variants has reserved stock. *)
BeginDeleteProduct(h, p) ==
  /\ Exists(p)
  /\ \A s \in Variants(p) : reserved[s] = 0
  /\ Begin(h, [at |-> "deleteProduct", product |-> p])

RemoveProduct(h) ==
  LET p == req[h].product
  IN
  /\ At(h, "deleteProduct")
  /\ IF Exists(p)
     THEN /\ DeleteProduct(p)
          /\ product' = [product EXCEPT ![p] = NoProduct]
          /\ variant' = [s \in Sku |-> IF s \in SkusOf(p) THEN Blank ELSE variant[s]]
          /\ Done(h)
          /\ UNCHANGED <<dict, baseOf, begun>>
     ELSE Leave(h)

\* Staff take the first image of a variant off.
DropImage(s) == [images |-> Tail(variant[s].images)]

Request(h) ==
  \/ \E c \in Color, b \in BaseColor \cup {NoCode} : BeginUpdateColor(h, c, b)
  \/ \E st \in Style, n \in NewProducts : BeginCreateProduct(h, st, n.row, n.bodies)
  \/ \E p \in Product, patch \in ProductPatches : BeginUpdateProduct(h, p, patch)
  \/ \E p \in Product : BeginDeleteProduct(h, p)
  \/ \E p \in Product, v \in Bodies : BeginCreateVariant(h, p, v)
  \/ \E s \in Sku, patch \in VariantPatches : BeginUpdateVariant(h, s, patch)
  \/ \E s \in Sku : Len(variant[s].images) > 1 /\ BeginUpdateVariant(h, s, DropImage(s))
  \/ \E s \in Sku : BeginDeleteVariant(h, s)
  \/ \E s \in Sku : BeginUpload(h, s)

Continue(h) ==
  \/ SaveColor(h)
  \/ InsertProduct(h)
  \/ CheckVariant(h)
  \/ InsertVariant(h)
  \/ SaveVariant(h)
  \/ FindNothingToSell(h)
  \/ SaveProduct(h)
  \/ RemoveVariant(h)
  \/ RemoveProduct(h)

Dictionaries ==
  \/ \E b \in Brand : CreateBrand(b) \/ DeleteBrand(b)
  \/ \E st \in Style : CreateStyle(st) \/ DeleteStyle(st)
  \/ \E b \in BaseColor : CreateBaseColor(b) \/ DeleteBaseColor(b)
  \/ \E c \in Color, b \in BaseColor \cup {NoCode} : CreateColor(c, b)
  \/ \E c \in Color : DeleteColor(c)
  \/ \E z \in Size : CreateSize(z) \/ DeleteSize(z)
  \/ \E e \in Edition : CreateEdition(e) \/ DeleteEdition(e)

(* Stock handlers and the order service, as Inventory models them. *)
StockStep ==
  /\ \/ \E s \in Sku, q \in Quantities : SetQuantity(s, q)
     \/ \E s \in Sku, d \in Deltas : AdjustQuantity(s, d)
     \/ \E want \in Requests : CreateReservation(want)
     \/ \E r \in ResId, to \in Closed : FinalizeReservation(r, to)
  /\ UNCHANGED catalogVars

CatalogNext ==
  \/ \E h \in Staff : Request(h) \/ Continue(h) \/ Crash(h)
  \/ Dictionaries
  \/ StockStep

CatalogSpec == CatalogInit /\ [][CatalogNext]_allVars

----------------------------------------------------------------------------
(* Whatever is deleted between the checks of a request and its writes, a    *)
(* row never refers to one that is gone: master_require.go reads, the       *)
(* foreign keys of sku_master.go decide.                                    *)
ReferencesResolve ==
  /\ \A st \in dict.style : BrandOf[st] \in dict.brand
  /\ \A c \in dict.color : baseOf[c] \in dict.base \cup {NoCode}
  /\ \A p \in Product : Exists(p) => StyleOf[p] \in dict.style
  /\ \A s \in rows : Exists(ProductOf[s]) /\ KnownCodes(variant[s])

(* Requests address products by style and variants by human sku: each       *)
(* names one row, also when two requests create it or one comes back under  *)
(* an update that is still on its way.                                      *)
NamesAreUnique ==
  /\ \A p, q \in Product : Exists(p) /\ Exists(q) /\ StyleOf[p] = StyleOf[q] => p = q
  /\ \A s, t \in rows : NameOf(s) = NameOf(t) => s = t

CatalogConsistent == ReferencesResolve /\ NamesAreUnique

(* Deleting a variant never loses goods: a restock or a reservation between *)
(* the checks of DeleteVariant and its transaction keeps the row            *)
(* (variant_store.go:344-366).  Deleting a product does lose them.          *)
DeletedVariantHeldNothing ==
  [][\A s \in rows \ rows' :
       ProductOf[s] \in deleted' \/ (quantity[s] = 0 /\ reserved[s] = 0)]_vars

(* A draft becomes active when a request asks for it (docs/api.md:853).     *)
(* Refuted: an update that read the product before it was drafted saves the *)
(* status it read.                                                          *)
ListedOnRequest ==
  [][\A p \in Product :
       product[p].status = "draft" /\ product'[p].status = "active" =>
         \E h \in Staff : At(h, "saveProduct") /\ req[h].asked]_product

(* Variants carry sizes their product's category sells                      *)
(* (product_search_service.go:313).  Refuted: a size checked against the    *)
(* category read earlier is inserted under another.                         *)
SizesFitCategory ==
  \A s \in rows : SizeFits(product[ProductOf[s]].category, variant[s].size)

(* listingImageUrls are thumbs parallel to imageUrls (domain/products.go:46).*)
(* Refuted: an image uploaded to a variant created with images of its own   *)
(* puts the first thumb at the index of another image.                      *)
ListingsParallel ==
  \A s \in rows : \A i \in DOMAIN variant[s].listing :
    i \in DOMAIN variant[s].images /\ variant[s].listing[i] = variant[s].images[i]
============================================================================
