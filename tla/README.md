# Verification of dupli1: catalogue, stock, orders, money, codes, accounts, support

TLA+ models of the parts of dupli1 that decide who gets the goods, who gets the
money and who is told: the catalogue, the stock and reservations and the
promotional codes of the product service; checkout sessions, the placing of an
order and the order lifecycle of the order service with its workers and event
consumers; the payment service and the outbox that carries its events; customer
accounts across auth and profile; the support service; the alerts of the
notification service; and the roll-outs that run when services start. TLC checks
the models on small instances. TLAPS proves the central results about stock,
the catalogue, orders, payments, codes, checkout, accounts, support, alerts and
roll-outs for every value of the constants.

Paths below are relative to the repository root; `src/` is where this project
refers to it. Run `tlc -config <X>.cfg <Module>` and `tlapm <Module>.tla` in
this directory.

## 1. The system

dupli1 is a bag marketplace of Go services, each with its own PostgreSQL
database, that call each other over HTTP and tell each other about payments
over core NATS. There is no distributed transaction. Production is one
container per service under Docker Compose (`README.md`,
`docs/deployment-venus.md`).

| Component | State | Operations | Talks to | What is hard |
|---|---|---|---|---|
| **Inventory store** (`product/pkg/infra/pg/inventory_store.go`, `service/inventory_service.go`) | `stock_items` (quantity, reserved), `reservations`, `reservation_items`, `id_sequences`, `products.sold_count` | set and adjust stock, create, commit and release reservations; variant and product create and delete | called by order; writes its own database | several rows per transaction, row locks, counters kept by hand, deletes checked outside the transaction |
| **Order lifecycle** (`order/pkg/service/service.go`, `domain/order.go`, `infra/pg/repository.go`) | `orders`, `order_items`, inspection videos, idempotency keys, outbox | create, pay, confirm, film, ship, deliver, receipt, dispute, resolve, fulfill, request, approve and reject cancel, cancel | product (reserve, commit, release, code), payment (refund) | every operation is a sequence of calls; races between cancel, expiry, ship and late payment; full-row saves |
| **Order workers and consumers** (`order/pkg/service/payment_consumer.go`) | none of their own | expire unpaid orders, confirm after two hours, approve overdue cancel requests, fulfill after fourteen days; handle `payment.succeeded` and `payment.canceled` | NATS, the handlers above | run beside the requests; events late, repeated, lost, out of order |
| **Payment service** (`payment/pkg/service`) | `payments`, outbox, kill switches | create, complete (NANO callback, bypass), fail, cancel in full or in part, reconcile | order (reads the order), NANO gateway, NATS | gateway round trip outside the lock; approvals and refunds racing; one open and one succeeded payment per order |
| **Outbox and NATS** (`shared/pkg/outbox`, `order/pkg/infra/nats`) | outbox rows | drain, publish, mark; subscribe | all services | publish and mark are two steps; core NATS does not redeliver |
| **Order placement** (`order/pkg/service/service.go`, `CreateOrder`; `domain/order.go`, `domain/card_surcharge.go`) | `orders`, `order_items`, `order_idempotency_keys`, `id_sequences` | look up the idempotency key, price the lines, reserve, insert, undo | product (prices, reserve, release) | two sends of one key race between lookup and insert; prices change meanwhile; a reply is lost after the call succeeded |
| **Checkout sessions** (`order/pkg/service/checkout.go`) | `checkout_sessions` and their items | open, change items, apply code, complete, expire | order, product | complete-once across four calls; rolling the order back |
| **Promotion redemptions** (`product/pkg/infra/pg/promotion_redemption_store.go`) | `promotions`, `promotion_redemptions` | reserve, consume, release, reactivate | called by order | caps under row locks, lock order, re-taking a released use |
| **Promotion definitions, entitlements** (`product/pkg/service/promotion_service.go`, `promotion_entitlement_store.go`, `promotion_issuer.go`, `product/cmd/backfill-welcome-promotion`) | `promotions`, `customer_promotions` | create, patch, delete a code; issue by hand, at registration, by a tool; revoke | auth (`user.registered`, list of accounts) | an update judged on one read and written from another; repeated, lost events; a deploy that marks an old campaign |
| **Promotion evaluation** (`product/pkg/domain/promotion_evaluate.go`) | none | which promotion applies, how much it takes off | checkout, catalog | negative conditions, clamps and rounding, a catalog that does not answer |
| **Catalog and SKU master** (`product/pkg/infra/pg/catalog_store.go`, `sku_master.go`, `product_store.go`, `variant_store.go`, `service/product_search_service.go`) | brands, styles, colors, base colors, sizes, editions, `products`, `product_variants` | create, change, delete; upload an image; draft a product left with nothing to sell | stock rows | checked in one statement, written in a later one; rows saved whole as read; variants addressed by a name that can come back |
| **Search, reports, views, wishlist** | counters | queries | | none |
| **Auth** (`auth/pkg/service/service.go`) | `users`, refresh tokens in Redis, API keys, `auth_outbox` | register, login, refresh (rotation), logout, staff changes, delete, API key exchange | all (JWT), NATS | refresh rotation racing itself; a user row saved whole by login, staff and delete |
| **Profile** (`profile/pkg/service/service.go`) | `customer_addresses`, profile row | add, change, delete addresses; forget a deleted user | NATS | limit and default are checked in statements of their own |
| **Support** (`support/pkg/service`) | `support_conversations`, `support_inquiries`, `support_messages`, `support_product_questions` | write, read, close; claim, reply; ask, edit, withdraw, answer, hide; notice job, closing sweep, forget a deleted user | order and product (reference cards), Telegram, SMTP, NATS | every row is read, changed and saved later by shoppers, managers and jobs at once; email and database are two steps |
| **Cart** | one customer's cart | CRUD | order reads it | last write wins |
| **Notification** (`notification/pkg`) | `telegram_subscriptions`; per task a cached list of allowed chats | accept, reject, mute, delete, enter a chat by hand; `/start`; route and send an alert | NATS, Telegram | the list is a copy that lags, rebuilt by two callers; tasks overlap during a deploy |
| **Startup migrations** (`product`, `order`, `cart`: `pkg/infra/pg`; `order/cmd/backfill-sku-id`) | schema, primary keys, `sku_id` columns | give ids, promote a key, look old lines up | product answers the tool | every statement commits on its own; a start may die between any two and is repeated |
| **Live order feed** | none | push order changes to open pages | order events | none that changes an order |

What makes each modelled component correct:

* *Inventory*: `reserved` is exactly what open reservations hold, never more
  than is on hand; `sold_count` is exactly what was shipped; concurrent
  transactions behave as if one ran after the other and never deadlock; every
  open reservation can still be closed.
* *Catalogue*: no row refers to one that is gone, a style and a human sku name
  one row each, goods are not lost with a deleted variant.
* *Orders*: an order that can ship holds stock and no other order's; goods
  leave only once stock of that order was committed; no hold is left behind by
  the loser of a race; a paid order that is canceled was refunded; captured
  money finds its order or goes back; unpaid and delivered orders close;
  statuses change only as `docs/api.md:1101-1113` lists.
* *Payments*: what the service tells and records is what the card processor
  did: nobody is told of a payment that was not captured, the refunded amount
  on the books is what went back, every balance is announced, two payments of
  one order never both count, and an approval that reached the service is
  announced or in its log.
* *Promotional codes*: no use beyond the campaign's cap or the customer's
  limit, one use per order, a counter that equals the uses that stand.
* *Order placement*: one key, one order, and every answer names it; an order
  that was answered holds the stock of its lines; nothing stays reserved for a
  request that was refused; the total follows from lines, discount, fee and
  surcharge.
* *Checkout*: one order per session, charged what its lines earn, holding the
  code's use exactly while it stands.
* *Outbox*: what was committed is published, and not before its causes.
* *Accounts*: one live refresh token per login, dead ones stay dead; an
  account is locked exactly while its failures are at the limit; at most one
  default address.
* *Support*: an inquiry that counts as answered was answered; a reply is mailed
  about at most once unless a crash hid the first email, and none is forgotten;
  a question that shows an answer was told its author.
* *Alerts*: a chat that is due an alert gets it, the log says that the send
  failed, or the task's list lacked the chat (the Telegram client skips those
  and logs nothing); one that was taken off does not; the cached lists catch up.
* *Roll-outs*: a service that serves has a key on each table, wherever a start
  died; ids once given stay; no line of an order is lost.
* *Wallet*: a new account gets every code it was to have, once; what a manager
  withdrew stays withdrawn.

## 2. The modules

| Module | Models | Composition |
|---|---|---|
| `Inventory` | each database transaction of the inventory store as one action | abstract specification |
| `InventoryTx` | the same transactions taken apart into row locks and commit, product delete with its unlocked check | extends `Inventory`; `Abs == INSTANCE Inventory`, `ImplementsInventory == Abs!Spec` |
| `Catalog` | dictionaries, products, variants and the requests that write them, over the stock rows | extends `Inventory`: variant create and delete, product delete and the stock handlers are its actions |
| `OrderSaga` | order rows, requests in flight, workers, consumers, payments, events | extends `Inventory`: reserving and closing stock are its actions |
| `Payment` | the payment service: rows, requests, callbacks, refunds, the card processor | on its own; `OrderSaga` has the part orders see |
| `UseLedger` | uses of promotional codes as their callers see them | abstract specification |
| `PromotionLedger` | promotions and redemptions at the grain of row locks | `Ledger == INSTANCE UseLedger`, `ImplementsUseLedger == Ledger!LedgerSpec` |
| `PromotionRules` | conditions, benefits and tiers as operators over a cart and a catalog | used by `Checkout` |
| `Checkout` | checkout sessions, the complete request and its rollback | extends `UseLedger` (reserving and releasing are its actions) and `PromotionRules` |
| `Outbox` | the outbox table and its drains | extended by `Accounts` |
| `Accounts` | users and refresh tokens, deletion and its event, addresses in profile | extends `Outbox` |
| `SupportCalls` | requests, jobs and who serves what | extended by the next two |
| `Consultation` | conversations, inquiries, messages, the notice job | extends `SupportCalls` |
| `ProductQuestions` | questions about products | extends `SupportCalls` |
| `Support` | both side by side with the erasure that runs through both | extends `Consultation`, `ProductQuestions` |
| `PlaceOrder` | `CreateOrder` call by call | extends `Inventory`: reserving and releasing are its actions |
| `Alerts` | subscriptions, cached lists, `/start`, routing and sending | on its own |
| `Startup` | how a service starts: statements committed one by one, deaths, deploys | extended by the next two |
| `SkuRollout` | the roll-out of `sku_id` in product, order and cart, and its tool | extends `Startup` |
| `Wallet` | promotion definitions, entitlements and the three that grant them, the deploy that marks the sign-up campaign | extends `Startup` |
| `InventoryProofs`, `ProductStoreProofs` (`InventoryTx`, `Catalog`), `OrderProofs` (`OrderSaga`, `PlaceOrder`), `PaymentProofs`, `PromotionProofs` (`PromotionLedger`, `Wallet`, `SkuRollout`), `CheckoutProofs`, `AccountsProofs`, `TelegramProofs` (`Alerts`, `Support`) | theorems | extend the modules they are about; `ProductStoreProofs` and `OrderProofs` also `InventoryProofs` |
| `MC*` | values of the constants for TLC | `MCTelegram` extends `Support` and `Alerts`, `MCRollouts` `SkuRollout` and `Wallet`: two worlds that share nothing, of which a behaviour takes one |

Operators whose comment starts with "Slip" are wrong variants of the next
definition, a mistake that would be easy to make in the code; each shows what
one of the properties guards against.

### Inventory

`rows`, `quantity`, `reserved` are `stock_items`; `status`, `lines`, `seq` are
`reservations`, `reservation_items` and the `reservation` row of
`id_sequences`; `soldCount` is `products.sold_count`; `deleted` and `retired`
remember products and SKUs that are gone (a ULID is never used again).
`CreateVariant`, `SetQuantity`, `AdjustQuantity`, `CreateReservation`,
`FinalizeReservation` (commit and release), `DeleteVariant` and `DeleteProduct`
are the transactions that write them. A request is a function from SKU to
units, which is what the service makes of the request lines (it adds up
duplicates and drops nothing). `MaxInt` is the INTEGER column; `MaxReservations`
bounds the reservation sequence.

The insert branch of `EnsureItem` is not modelled: variants get their
stock row in the transaction that creates them, so it is not reached.

### InventoryTx

`Tx` are concurrent transactions: a reservation, the closing of one, or the
delete of a product. `LockRow` is one `SELECT ... FOR UPDATE` with the check
made on the row it returns, and remembers what it read (`seen`); the commit
writes what was read plus or minus the request, so a lost update is possible if
the lock were missing. `RejectRow` is the rollback on a short or missing row,
`Rollback` a canceled request, a dropped connection or a crash. A commit that
ships locks the products it raises `sold_count` of after its stock rows
(`LockProduct`), by one statement and in any order. `CheckProduct` is
`refuseReservedStock`; the store's delete that follows is `BeginDelete`, one
row lock per stock row in any order (`SkipRow` where the row is gone), the lock
on the product and `CommitDelete`. Transactions that wait for each other are
`Stuck`, and `AbortDeadlocked` is PostgreSQL ending one of them. Set, adjust,
variant create and variant delete are single steps that wait for the row they
write.

### Catalog

`dict` and `baseOf` are the six dictionary tables, `product` and `variant` the
two catalogue tables, `req[h]` the request a member of staff has under way with
what it read. A dictionary row is created or deleted by one statement that a
constraint may refuse. Everything else reads first (`Begin...`) and writes in a
later step: `InsertProduct`, `CheckVariant` and `InsertVariant` for each
variant, `SaveVariant` (an update or an uploaded image: the row as read, with
`Merge`), `SaveProduct`, `SaveColor`, `RemoveVariant`, `RemoveProduct`, and
`FindNothingToSell` for `draftIfNoActiveVariant`. `Crash` ends a request between
two of its steps. A variant is addressed by `SkuString`, the codes its human
sku is composed of; `Named` is the row that carries it now. `MayInsert` stands
for the lookups and, at the insert, for the foreign keys and the unique sku.
`OptionTaken` is the older constraint `UNIQUE (product_id, color, size)`
(`product_store.go:98`), which was never dropped: two variants that differ only
in their edition, as in `docs/product-sku-system.md:62-63`, pass every check
and are refused at the insert unless their display names differ. Left out:
names and prices, legacy rows without codes, migrations and backfills.

### OrderSaga

`call[p]` is one request, worker iteration or event handler: the step it is at,
its order, the row **as it read it**, the payment it is about and the
reservation it made (`hold`). Each call to another service and each database
statement is a step. `Db(p)` is the row now, `Read(p)` the row in memory, and
which of the two a write starts from is the point of the model: guarded
statements (`CancelIfPending`, `SavePaidIfPending`, `ConfirmIfPaid`,
`ShipIfConfirmed`, `CancelIfPaidForRefund`) test `Db(p)` and change some
columns; `SaveWithOutbox` and the last save of `CancelOrder` write `Read(p)`.

`events` is the set of events ever published: a handler may take any of them
at any time, again, or never, which is what core NATS, the outbox's retries and
the reconcile worker's republishing can do. `told` records the refunds the
`payment.canceled` consumer is done with. `use` is the order's use of its
promotional code.

Simplifications: money is whole (no partial refunds; the check of the paid
amount is left out); deadlines are nondeterminism (an expiry, a confirmation or
a fulfilment may come at any time its status allows); `CustomerCancel` and
`ApproveCancelRequest` end in `CancelOrder` and are its action; keys, prices
and an insert whose reply was lost are `PlaceOrder`'s. Failing calls: `Fail`
ends any request between two steps (a crash, a timeout, an error return),
`SaveFails` is a save that did not happen, where the code gives the stock back.

The payment service is one action per operation: `CreatePayment` (one open
payment per order), `PaymentFails`, `PaymentSucceeds` (also of a payment that
was canceled: the code only skips succeeded ones), `CancelPayment`, and the
refund a cancel asks for (`RefundCaptured`).

### PlaceOrder

What `OrderSaga` has as one step. `req[c]` is a request with the prices it has
read so far and the reservation it made; `LookUpKey`, `PriceLine` (one call per
line), `ReserveStock` (takes an order number first), `InsertOrderRow` (the
transaction of order, key and event; `MayInsert` is what the domain and the
unique keys let in), `GiveStockBack` and `ReloadByKey` are its calls in order.
`Replay` compares requests as `hashCreateOrderInput` does: `SameRequest` ignores the
order of lines but not an explicit default method. `Subtotal`,
`CardSurchargeWon` and `ValidOrder` are `NewOrder`, `ApplyPaymentMethod` and
`SetTier`. `Faults` names the kinds of failure: the process dies, the reply of
a reservation is lost, the insert fails, commits without a reply, or the release
fails. `answers` is what clients were answered. Addresses, inspection options and
the event's content are left out.

### Payment

`row` is `payments`, `outbox` the events in the order they were enqueued.
`call[h]` is a request with the copy of the row it read. Creating reads for a
payment of the order that can be reused (`FindPayment`), inserts under the two
partial unique indexes (`InsertPayment`, or `AbandonInsert`), replays an
idempotency key (`ReplayCreate`) and completes a bypass payment. A callback
(`BeginCallback`) reads the row without a lock, decides (`Verdict`) and later
saves the copy (`SaveCopy`), as `HandleNanoResult` and `CompletePayment` do; a
refund locks the row from `BeginCancel` over the processor's answer
(`RefundCard`, `RefuseRefund`) to `RecordRefund`. The processor is external:
`charged`, `declined` and `refunded` are what it did, and it tells its balance
or not. `LoseRequest` ends a request between two steps, also between the refund
and its record; `diverged` remembers the rows whose books such a loss, or a
save of an old copy, may have put wrong.

NANO may send an approval once, again or never: nothing in the code or its
documents has it repeated until it is handled, so nothing is assumed of it.
A refused approval (`RejectCallback`, and `RefuseSave` when the row cannot be
written) is put into the log (`logged`), and the alert is published at once,
which may fail (`Alert` leaves `alerted` as it is or adds to it); `lost` names
payments whose last approval died with its request. `ApprovalIsNotSilent` is
about approvals that arrived. A card charged without a callback (fifteen
payments, `docs/payment-nano-return-verification.md:82`) stays unknown to the
service, which does not ask the gateway, and no property is about it. Amounts
are in units of the refunds a run makes; kill switches and the reconcile
worker's lookup of the order are left out.

### UseLedger and PromotionLedger

`terms` and `use` are all a caller can see: whether a code is on offer, its cap
and each order's use. `PromotionLedger` has `promo` (`promotions` with
`redemption_count`), `use` (`promotion_redemptions`) and `tx`, the transactions
with what they read and locked. `BeginReserve`, `FindUse`, `LockPromotion`,
`LockUse`, `InsertUse` are `Reserve` statement by statement; `ConsumeRow`,
`FinishConsume` and `ReleaseRow`, `FinishRelease` the other two; `BeginUpdate`,
`SaveUpdate` a staff edit read and written apart. Locks follow from where a
transaction stands. `AbortDeadlocked` is PostgreSQL ending one of two that wait
for each other; `LoseTx` any other rollback. `reactivateReleased` ends in an error
whenever it is reached (its `SELECT count(*) ... FOR UPDATE` is refused by
PostgreSQL) and is modelled as that refusal. A release and a later consume
may exceed the cap (a late payment takes its use back), and `UseLedger` says so.

### PromotionRules and Checkout

`Evaluate` is `Promotion.Evaluate` on a cart and a book, a state of the
catalog; `BestTier` the automatic tier. Attribute types, which the service
checks when a rule is written, are a precondition. Without the catalog a line
has no category and is not on sale, as in `withCatalogAttributes`.

`session` is `checkout_sessions` with its items, `orders` the orders placed
from it, `call[h]` a request with the session **as it read it**. A session is
read in two statements outside a transaction (`ReadRow`, `ReadItems`), so a
request may hold the row of one save and the items of another, and save that.
Lines are priced one call at a time (`PriceLine`), with other requests and
`ChangeCatalog` in between: when items are set (`EditItems`, then `SaveItems`),
when a code is entered (`EnterCode`, then `ApplyPromotion`), when the session is
completed and again when the order is placed. `CompleteCheckout` is `JudgeCode`,
`JudgeTier`, `PlaceOrder`, `ClaimUse` and `CloseSession`, each a remote call or
a statement: product judges the prices it is sent (`Lines`) with the category
and markdown it reads at that moment, for the code, for the tier and once more
when the use is claimed. Only the close is guarded (`StillOpen`); `UndoOrder`
and `ReturnUse` are the rollback. `Refuse` ends a request that did nothing yet,
an error return, a failed call and a death alike. `CallFails`, `CloseReplyLost`
and `RequestDies` are the failures of one that placed an order; `stray` names
the orders they left behind, `reopened` counts completed rows overwritten by an
older copy, and `during`, in a request that judges, remembers the states the
catalog was in meanwhile.

Product's own evaluation is one step: its reads of the definition, the lines and
the customer's uses are not taken apart. The prices stored with a session's
items may be of any state of the catalog and are not kept in the model: they
bound the amount `ApplyPromotion` stores, which takes any mix of them. The
ledger is the abstract one, so the guarantee the ledger gives is used and not
re-checked. Stock and payment are left to `OrderSaga`, the call that places the
order, but for its prices, to `PlaceOrder`.

`ChargedDiscountEarned` says of which state: the order's discounts are those its
code and then the tier earn at quotes, and with markdowns, the catalog gave
while that request ran. That one single state of the catalog earns them does not
hold: TLC shows a price that changes between two of the calls, which
no transaction spans. `StoredDiscountFitsCart` speaks of open sessions: a copy
torn from two saves of an expired session can be saved back with an amount of
other items, which nobody can complete.

### Outbox and Accounts

`outbox` is the table by row number (BIGSERIAL: drawn before it is visible,
gaps when rolled back); `batch` the rows each drain listed and is not done
with, taken from the lowest number up, `sent` whether it has published the first
of them; `announced` the rows whose event reached the broker; `tried` those
with a failed attempt. Order, payment and auth share this code; the table here
is auth's.

`Accounts` composes it with the one writer that has no other event: deleting a
user. `user` is `users`, `live` the refresh tokens in Redis, `minted` what each
login was ever given, `book` is `customer_addresses`. Login reads the user,
clears a lapsed lock, counts a wrong password or resets the counter and only
then opens a session, each a step; `Rotate` is the Lua script; `DeleteRow`,
`CommitDelete`, `RollbackDelete` the transaction that also enqueues;
`DeleteUserData` profile's handler of the event, at any time, again or never.
Permissions, access tokens, service accounts and password hashes are left out.

### Support

`conversation` is `support_conversations` by chat (the email and the two time
stamps, 0 for NULL; `Coalesced` is the upsert), `inquiry` is
`support_inquiries`, `message` is `support_messages`. A shopper's message is
`BeginWrite`, `Touch`, `Seek`, `OpenInquiry`, `File` on the web and on Telegram
alike; a manager's work `BeginDesk`, `Assign`, `Compose`, `Reply`, `Answered`;
closing is `BeginClose` or `BeginSweep`, then `CloseInquiry`, row by row as
read; the notice job `ListDue`, `Look`, `Mail`, `RecordNotice`,
`SetNoticeStatus` with its failures; the erasure of a deleted customer
`BeginErase` to `ForgetEmail`, and on to the questions. `question` is
`support_product_questions`: everybody reads a row and upserts all of it.
`roster` is which kinds of request each of the two handlers serves, chosen at
the start, so that one run looks at several divisions of the work.
An author whose answer's email was attempted counts as told: a failed one is only
logged (`product_questions.go:344`) and not sent again. After a crash or a failed
record the notice job mails the same replies again, and `MailedOncePerReply`
leaves those out: it holds the job to settling all it listed.
Left out: the bot's menu and cards, the text of messages and its purge, system
lines, the send limiter, the live feed, one reply of several messages.

### Alerts

`row` is `telegram_subscriptions` by chat, `allowed[t]` the list of task `t`
(`TelegramAccess`), `refresh[t][by]` a rebuild of it, read (`ReadAccepted`) and
stored (`Store`) in two steps by a request or by the ticker. `Accept`, `Reject`,
`UpdateAlerts`, `Delete` and `CreateManual` are the managers' statements, after
which the task that served them rebuilds its list. A `/start` message goes
through `Receive`, `FindByChat`, `FindByUser`, `LookAgain` and `Insert`, which
the unique indexes may refuse. One alert is published (`PublishEvent`), taken by one task
(`RouteAlert`: the table now, or the environment's chats when it cannot be read)
and sent chat by chat (`Send`), past chats that task does not list.
`AcceptedChatWelcomed` is about chats accepted before their message; what two
racing inserts of a new user leave is up to the unique indexes. `Boot` and
`Stop` are a deploy. `site` is the installation, chosen at the start. Left out:
wording, languages, the other alert classes, Telegram's update loop.

### Startup, SkuRollout and Wallet

`at[s]` is the statement a starting process is at. `Run` carries it out,
`Refuse` is a statement the database refuses, which ends the process; `Crash`
and `Redeploy` put it back to its first statement.

`SkuRollout`: `variant` and `item[t]` are the tables with their `sku_id`,
`variantKey` and `itemKey[t]` their primary keys. Product backfills variants,
gives ids one by one and replaces its key (`BackfillVariants` to
`KeepSkuUnique`); order and cart look whether a table is promoted and replace
its key (`Look`, `Purge`, `DropKey`, `AddKey`), order only when no line lacks an
id; the tool lists skus, asks product and updates (`ListUnresolved`,
`LookUpSku`, `UpdateTable`). Variants, products and lines come and go
meanwhile.

`Wallet`: `def` is `promotions` (the fields that are judged together or that a
grant depends on), `ent` is `customer_promotions` by code, customer and trigger
key. `JudgePatch`, `LoadRow`, `WriteRow` are an update: judged on one read,
written whole from another. Granting is read, then insert, by a manager
(`IssueByHand`, under the key the caller gives or the usual one), by the subscriber to `user.registered` (`Deliver`, `TakeCode`)
or by the tool (`ToolFetch` to `ToolEnds`). `LookForColumn`, `AddColumn`,
`MarkCampaign` are `migrateAutoIssue`, which product and the tool both run when
they open the store, possibly side by side: nothing has the tool wait for
product. `early` remembers a start that had found no column and not marked yet
when the other one marked the campaign. The rest of product's migrations, which
the tool runs too, are not modelled.

## 3. The runs

| Run | States | What it shows |
|---|---|---|
| `catalog` (`MCCatalog.cfg`) | 538,482 | `CatalogConsistent`: references resolve and names are unique whatever is deleted between a request's checks and its writes; `DeletedVariantHeldNothing`: no restock or reservation is lost with a variant |
| `inventory_tx` (`MCInventoryTx.cfg`) | 114,382 | two transactions: stock accounting, no overselling and `sold_count` while rows are read and written under locks (`StockSafe`); serialisable (`ImplementsInventory`), nobody waits in a circle unless a product delete or two commits at products are in it (`NoLockCycle`), every request ends (`TxFinishes`) |
| `order_preship` (`OrderPreShip.cfg`) | 35,578 | `NoOrphanHold`: no hold outlives its order; `CapturedMoneySettles`, `UnpaidOrderCloses`; no failing calls |
| `order_crashes` (`OrderCrashes.cfg`) | 394,644 | `GoodsLeaveOnce`: no order has stock committed twice; `LiveOrderHoldsStock`, `CanceledMoneyReturned`; any call may fail |
| `order_shipping` (`OrderShipping.cfg`) | 42,854 | shipped stock was committed (`ShippedStockCommitted`), `DeliveredOrderCloses` |
| `payment` (`MCPayment.cfg`) | 343,830 | `CapturesAccounted`: told is captured, one succeeded payment of an order; `RefundsAccounted`: books match the processor, no invented refund, balances announced; `ApprovalIsNotSilent`: an approval that arrived is announced, in the log, or died with its request |
| `promotion_ledger` (`MCPromotionLedger.cfg`) | 90,587 | the row-lock ledger implements the abstract one (`ImplementsUseLedger`), `CountMatchesUses`, only reserve and release can deadlock (`OnlyReserveMeetsRelease`), every transaction ends (`LedgerRequestsEnd`) |
| `checkout` (`MCCheckout.cfg`) | 1,685,360 | `SessionHasItsOrder`: one order per session, which stands; `UseOfLiveOrder`: no use without an order; `DiscountsEarned`: what is let off is what the lines earned while the request ran |
| `accounts` (`MCAccounts.cfg`) | 260,319 | `LoginHoldsOneToken`: dead tokens stay dead; `AccountsSafe`: lock and addresses consistent; `EventsDelivered`: deletions announced, and in order |
| `place_order` (`MCPlaceOrder.cfg`) | 633,711 | `OneOrderPerKey`: one key, one order, answers that name it; `PlacedIsSound`: an answered order holds its stock, what nobody knows of is the trace of a fault, the total follows from its parts |
| `telegram` (`MCTelegram.cfg`) | 320,996 | support: `AnsweredWasTold`, `MailedOncePerReply`, `NoticeIsDecided`; alerts: `AlertReachesWhoIsDue`, `AcceptedChatWelcomed`, `ListsCatchUp` |
| `rollouts` (`MCRollouts.cfg`) | 1,424,573 | `sku_id`: `RolloutSafe`, `LinesKept`; wallet: `SignUpServed`, `WithdrawnStays` |

**Bounds.** *Catalog*: two members of staff, which is what a check that goes
stale needs, and three requests or dictionary edits, so that a third step can
undo what the first read (two deletes, or a delete and a create, while an update
is on its way). One style with one product row that may be deleted and created
again, two variants and the one a recreated product gets: the sku of the third
may be the name of the first. Two categories, one with a size list; two colors
(one variant has both), two sizes, an edition; one unit of one reservation.
The dictionaries start in every consistent state. *InventoryTx*: two transactions
over two rows; a lost update and a two-cycle need no more, and two reservations
let two of the three kinds of transaction overlap; two SKUs of one product and
requests for one or both of them. A cycle of two commits at `products` needs two
products of two SKUs each, which this run does not have: `NoLockCycle` allows it,
and `AbortDeadlocked` is how it would end. *Orders*: one order of one unit with
one payment, two units on the shelf and three reservations, so a reinstatement
finds stock once and runs out the next time. Three processes share the handlers:
the races the code defends against are between two requests and an event, and
each process starts a new request whenever it is idle, so longer histories are
covered too. The consumers belong to one process because the NATS subscription
runs its handler one message at a time and one replica runs. `mcPreShip` has
everything up to shipping, `mcShipping` everything from placement to closing
without refunds at the payment service's own consumer; between them every action
fires. Several orders only meet in the stock, which `inventory_tx` covers and the
theorems cover for any number.
*Payment*: one order, two payments and two requests, so that creations race,
a late approval meets a second payment, and a callback meets a refund; an
amount of two for partial refunds; two approvals per payment and one fault.
*PromotionLedger*: two orders of one customer and one of another under a limit
of one and caps of one and two, so the campaign, the customer and the order can
each be what refuses; two transactions, which is what a cycle needs; the code
may be deleted once (orders' uses then outlive it). *Checkout*: two requests
and two orders, so two completes of one session meet with an edit or an expiry
in between; two changes, one reopening, one fault; two catalogs that differ
in price, sale and availability, a code with a cart and a line condition, and a
tier of half the rest. The session starts with its first item set (`Opening`),
which leaves both changes to a code and an edit; a session is shown only once
its time is up, since showing an open one changes nothing. *Accounts*: two users, two handlers that share deletion
and refreshing, three tokens of one login (the third needs two rotations), two
drains of two rows each, the limit of addresses at one. *PlaceOrder*: two
clients that share one key, which is what a race needs; four bodies, two of them
the same request in another order, one with a discount, one naming a sku twice;
prices of nothing, less and more than the discount was computed from; two orders,
one change of price or stock, one fault. *Support*: two handlers; four rosters: a
shopper and a manager, two shoppers, two managers, and questions; three requests,
two inquiries (one closed while another is open), three messages, one failure of
the job. *Alerts*: two chats of one user, one of them the environment's; two
tasks during a deploy, two changes by managers, one alert, a read that fails; one
`/start` message beside two changes, or two beside one. *SkuRollout*: product
with order and the tool, or with cart, each from every old database of one
product, two names and one line per table; two ids, so a name comes back; one
death and one deploy. *Wallet*: one customer, one manager, the sign-up code and
one made later; two requests, so a patch meets a delete; two deliveries of one
registration, one day, one fault; the tool grants the sign-up code (`ToolCodes`),
and a manager uses the usual key or the registration's (`HandKeys`), so that two
grants meet at one key.

**Deadlock** is not reported in these runs: a closed order with no request
under way is where the system rests.

**Fairness.** `TxSpec`: strong fairness of each transaction's step, because
PostgreSQL queues row locks in the order of asking and ends one of a cycle of
waiting transactions. `FairSagaSpec`: weak
fairness of a request's next step (Go does not abandon a running handler; runs
with failing calls state no liveness); strong fairness of expiry, confirmation
and fulfilment for each order, because their workers tick every thirty seconds
for ever (`payment_consumer.go:37-152`) and in the code do not compete with
requests for a process as they do in the model; strong fairness of handling
`payment.succeeded`, because the reconcile worker publishes each succeeded
payment again every minute for two hours (`payment/pkg/service/service.go:397`):
`CapturedMoneySettles` says what holds if one of those is handled to its end.
Nothing is assumed fair about payments, managers or customers. `Payment`: a
request's own steps are weakly fair, and nothing is assumed of the processor,
which may send an approval once, again or never. `PromotionLedger`: strong
fairness of each transaction's step, since PostgreSQL queues row locks in order
and detects deadlocks. `Accounts`: the outbox worker ticks every two seconds
for ever (`shared/pkg/outbox/outbox.go:105`), so its begin, its mark and its
publish of each row are strongly fair; the drains after requests, and all
requests, are not. `Support`: weak fairness of the notice job, which ticks every
minute for ever; its failures are bounded by `MaxFaults`. `Alerts`: weak fairness
of each running task's rebuilds of its list, since a request finishes what it
began and the ticker fires for ever; nothing is fair about managers, messages or
deploys.

Where the code does otherwise than its documents say (next section), the
passing runs leave out what leads to it, by constants that are visible in their
configurations: `order_preship` and `order_crashes` give no process a full-row
handler but `CancelOrder`'s, `checkout` has `CatalogFails = FALSE`, and
`place_order` has no `"insert lost"` among its `Faults`.

## 4. Where the code departs from its documents

The models also state what the following texts say, and TLC refutes it when
the statement is added to the configuration named. They are kept beside the
properties so that a repair of the code can be checked.

| Statement | Configuration | Says | What happens |
|---|---|---|---|
| `DocumentedTransitions` | `OrderCrashes.cfg` with `Proc = {p1, p2}`, `Serves <- mcDelivering`, `CallsMayFail = FALSE` | `order/pkg/service/service.go:557-559`: nothing is left to race; `docs/api.md:1101-1113` lists the transitions | deliver, receipt, dispute and reject write the whole row as read (`order/pkg/infra/pg/repository.go:427`): a canceled, refunded order becomes delivered |
| `ChargedDiscountEarned` | `MCCheckout.cfg` with `CatalogFails = TRUE`, `Books <- mcSale` | `order/pkg/service/checkout.go:218`, `product/pkg/service/promotion_service.go:237-239`, `docs/product-promo-referral-code-plan.md:633-635`: a catalog outage hands out no discount | a negative condition (`line.on_sale = false`, recommended at line 297 of the plan) holds for a line nothing is known of |
| `AnsweredOrderHoldsStock` | `MCPlaceOrder.cfg` with `"insert lost"` among `Faults` | `docs/payment-service.md:111`: an order that was answered is pending with its stock reserved | an insert that committed without a reply is taken for one that failed: the stock is given back, and the lookup after it answers with the order |
| `OpenReservationsKeepRows` | `MCInventoryTx.cfg` | `docs/api.md:857`: product delete is refused while stock is reserved | check and delete are two transactions; a reservation in between loses its row |
| `ListedOnRequest` | `MCCatalog.cfg` | `docs/api.md:853`: a drafted product is made active again only by a request that says so | an update of another field that read the active row saves it back |
| `SizesFitCategory` | `MCCatalog.cfg` | `product/pkg/service/product_search_service.go:313`: a product moved to a sized category has only its sizes | a variant checked against the old category is inserted after the move |
| `ListingsParallel` | `MCCatalog.cfg` | `product/pkg/domain/products.go:46`: thumbs are parallel to the images | an image uploaded to a variant that was created with images of its own puts the first thumb beside another image |
| `ToldRefundStopsShipping` | `OrderPreShip.cfg` | `order/pkg/service/payment_consumer.go:184-190`: a refunded order stops looking shippable | `payment.canceled` is handled before `payment.succeeded` of the same payment: the pending order is skipped, later paid with money that went back, and not told again |
| `UseFollowsStock` | `OrderCrashes.cfg` | `order/pkg/service/service.go:1016`: stock and use go back together | the code is claimed and consumed in steps after the order can be canceled |
| `FullyRefundedIsCanceled` | `MCPayment.cfg` | the comment on `CanceledAmountWon`: once it equals the amount, the payment is canceled | a callback that comes again writes succeeded over canceled |
| `SessionStaysCompleted` | `MCCheckout.cfg` | `docs/checkout-session.md`: completed is final | an edit that read the session before saves its copy over it |
| `DeletedStaysDeleted` | `MCAccounts.cfg` | a deleted account is gone | a login or a staff change that read the user saves it back, `Save` being an upsert |
| `NoticeFollowsRead` | `MCTelegram.cfg` with `MaxRequests = 4` | `docs/support-web-chat.md:94`: the next notice can only follow a read | a read under way saves the notified mark it read earlier, and the mark goes back |
| `AnsweredIsLocked` | `MCTelegram.cfg` | `support/pkg/service/product_questions.go:29`: an answered question can no longer be changed by its author | an edit that read the question before the answer saves it unanswered |
| `AcknowledgedOnce` | `MCTelegram.cfg` | `notification/pkg/infra/telegram/processor.go:41`: the acknowledgement is sent once, when the row is created | `UpsertPending` hands out a row a concurrent message just made, and that is acknowledged too |
| `LabelOfItsChat` | `MCTelegram.cfg` | `notification/pkg/infra/telegram/processor.go:94`: the stored display fields are in step with the chat | a message in another chat of the same user finds the user's row and writes its own title there |
| `EnvChatsAlerted` | `MCTelegram.cfg` | `notification/pkg/service/telegram_subscriptions.go:183`: a failed read still alerts the environment's chats | when the read at the start failed too, the task's list is empty and every chat is passed over |
| `PromotionIsRestartable` | `MCRollouts.cfg` | `cart/pkg/infra/pg/repository.go:74`, `product/pkg/infra/pg/product_store.go:237`: safe to run on every startup | a start that died between dropping a key and adding the new one is refused by every later start |
| `BackfillCreatesVariants` | `MCRollouts.cfg` | `product/pkg/infra/pg/product_store.go:316`: one variant for each product that has none | once ids are required, a product without variants makes the backfill's insert, and so the start, fail |
| `DefinitionsValid` | `MCRollouts.cfg` with two managers and the patches `auto` to true and `scope` to multi | `product/pkg/service/promotion_service.go:86`: a patch that leaves the definition invalid is refused before it is written | two patches are judged on the same row and written one after the other |
| `OmittedKept` | `MCRollouts.cfg` with `MaxRequests = 3` | `product/pkg/infra/pg/promotion_scan.go:85`: omitted fields keep their value | an update writes every column of the row as read |
| `CampaignCarriedOver` | `MCRollouts.cfg` | `product/pkg/infra/pg/promotion_store.go:208`: an environment with the sign-up campaign is marked once | a start that died between adding the column and marking is not marked by the next |
| `ClearedStaysCleared` | `MCRollouts.cfg` | `product/pkg/infra/pg/promotion_store.go:209`: a manager who clears the flag does not see it come back | product and the tool start together and both find no column; product marks the campaign and serves, a manager clears the flag, and the tool's update sets it again |
| `BackfillAddsNothing` | `MCRollouts.cfg` | `product/cmd/backfill-welcome-promotion/main.go:63`: re-running issues nothing to accounts that have it | accounts that got it at registration have it under another trigger key |

## 5. The proofs

Eight modules, none with an assumption beyond those the modelled modules name
(every `ASSUME` is evaluated by TLC in a run). The hypotheses of a theorem that
go further stand in its statement and are explained here.

**`InventoryProofs`** (`SkuAssumption`, `ProductAssumption`, `InputAssumption`:
SKUs are a finite set of numbers, requests ask for something and stay in the
column's range).

* `TypeCorrect`: `Spec => []TypeOK`.
* `StockIsSafe`, and its parts `StockAccounted`, `NeverOversold`: from the
  inductive invariant `IInv`. `StockAccounting` alone is not inductive: a new
  stock row starts with `reserved = 0`, which is right only because a SKU that
  never had a row has no reservation lines (`FreshSkus`), which in turn rests on
  reservations naming only existing rows. Units are counted as the cardinality
  of a set with one element per unit, so no recursive sum is needed; `UnitsAdd`
  and `HeldChange` say what adding or closing a reservation does to the count.
* `SoldCountIsAccurate`: from `TypeOK` and the same counting lemmas.

**`ProductStoreProofs`**, of `InventoryTx` (also `PoolAssumption`), for any pool of
transactions.

* `TxTypeCorrect`, `TxImplementsInventory`: from `TxInv`. A commit writes what
  it read, so it is an atomic step only if the rows it holds are still as read
  (`ReadsCurrent`), which needs that no two transactions hold one row
  (`RowsExclude`), that reserving and closing take rows in the order of their
  numbers and never ask for one twice (`SkuOrder`), that one transaction at a
  time closes a reservation, which is still open (`ClosesOnce`), and room in the
  sequence for all that are reserving (`SeqHasRoom`). Every other step maps to a
  stutter.
* `TxStockSafe`: `IInv` carries over along the refinement.
* `RowsNeverDeadlock`: in a set of waiting transactions without a product delete
  and without a commit at products, whoever holds the row another waits for
  waits in turn for a greater row (`WaitsUpward`), and a finite set of rows has
  no such ascent.

**`ProductStoreProofs`**, of `Catalog` (`CatalogAssumption` and those of
`Inventory`), for any dictionaries, products, skus, staff and requests.

* `CatalogIsConsistent`: from `CatalogInv`. A request checks in one statement and
  writes in a later one, so nothing it looked up can be relied on: what keeps
  `CatalogConsistent` are the conditions of the writing statement, `MayInsert`
  for an insert and the references counted again by a delete. A row saved whole
  only has to be of a product and a shape the tables have (`Carries`).
* `DeletesLoseNothing`: the action property `DeletedVariantHeldNothing`, by the
  condition of the deleting transaction alone, whatever was looked up before.
* `CatalogStockSafe`: `CatalogSpec => Spec` of `Inventory`, so `StockSafe` holds
  while products come and go.

**`OrderProofs`**, of `OrderSaga` (also `OrderAssumption`, `PaymentAssumption`),
for any number of orders, payments and processes, any assignment of handlers to
processes, and with or without failing calls.

* `SagaTypeCorrect`, `ShippedWasCommitted`: from `SagaInv`.
  `ShippedStockCommitted` is about the database, but a request carries a row in
  memory and writes it later, so the invariant has to say the same of every row
  in flight (`RowOK`), that a row names a reservation of its own order (`Owns`),
  and that a request about to move the row to in_transit has committed stock
  (`CallOK`). Stock transactions only add to these facts (`StockKept`): nothing
  un-commits a reservation. So the proof splits a step into what it does to the
  stock, to one row, to one request and to the rest (`GoodStep`), shows once that
  such a step keeps `SagaInv`, and then has one lemma per action that it is one.
* `SagaStockSafe`: stock accounting and no overselling under the saga, from
  `IInv`: the saga changes stock only by the transactions of `Inventory`
  (`SagaUsesStock`, which holds by the shape of the module).
* `LiveOrdersHoldTheirStock`: an order that can still ship names a reservation
  nobody released. `LiveOrderHoldsStock` is not inductive: a request that lost a
  race releases the reservation in its memory, so the invariant `HoldInv` has to
  say that this one is nobody else's (`PrivateHold`), what the row must still
  be at each step between a check and a release (`HoldAt`), and that an order
  not placed has nothing (`Unborn`). Hypothesis `NoCancelRequests`: no process
  serves the requests to cancel or their rejection. Both save the whole row as
  read, and with them TLC finds a live order whose stock was released.
* `CanceledWasRefunded`: a canceled order's money went back. `MoneyInv` says it
  of every row, stored or in memory (`RowMoney`), of payments (`PaymentMoney`)
  and of each step of a cancel (`CallMoney`). Hypothesis `OnePaymentPerOrder`,
  as in the run. With two payments of one order TLC finds a canceled, refunded
  order that a second payment reinstates and a cancel does not refund.
* `NoStockIsOrphaned`: once the requests are done, no open reservation is left
  that no order can ship. From `OrphanInv`: an open reservation is held by an
  order that can still ship, or is in the hand of a request about to insert, save
  or release it (`OpenHeld`). For that, what a request read must still be true
  when it saves: a payment and the reservation it was made with do not change any
  more, a shipped row names committed stock (`RowFollows`), and nobody else pays
  what the consumer is reinstating (`Follows`). Hypotheses: `~CallsMayFail`, since
  nothing in the code looks for reservations that a failed release left behind;
  `OneConsumer`, since `payment.succeeded` is subscribed in a queue group whose
  callback takes one message after the other (`order/pkg/infra/nats/subscriber.go:46`)
  and one order service runs; `OnePaymentPerOrder` and `NoCancelRequests` as above.

* `GoodsAreSentOnce`: no two reservations of one order are ever committed. A
  ship commits stock before it moves the row, so an order may be canceled and
  refunded with its stock committed, and `payment.succeeded` comes again.
  `GoodsInv` says that committed stock is the stock of a row that names a
  payment (`CommittedPaid`), that a payment and its reservation do not change
  any more, also not by a row read earlier (`SameGoods`), and that what the
  consumer is paying nobody else pays (`GoodsAt`). Calls may fail. Hypotheses
  `OneConsumer`, `OnePaymentPerOrder` and `NoCancelRequests`; with two processes
  that take `payment.succeeded`, TLC finds a consumer that had read the order
  before reinstating it with new stock after its first stock was committed, so
  the queue group's one callback at a time is what keeps this.

**`OrderProofs`**, of `PlaceOrder` (`PlacingAssumption`, `BodyAssumption` and those
of `Inventory`), for any clients, keys, bodies, prices and kinds of fault.

* `PlaceTypeCorrect`, `OneKeyOneOrder`, `PlacedWithFaults`: from `PlaceInv`.
  `OneOrderPerKey` needs that the table of keys and the rows agree both ways
  (`RowInv`), and that a request about to insert has a number no row has and
  stock no row and no other request has (`Asked`, `Apart`). The trace a fault
  leaves is counted as `Lost`, which already has the stock of a request that
  failed to give it back and has not ended yet: only then does every step that
  adds to it suffer a fault.
* `PlacedOrdersAreSound`: with `PlacedHolds`: a request that gives stock back
  gives back no order's. Hypothesis `"insert lost" \notin Faults`, without which
  it is false (section 4).
* `BodyAssumption` says what sums are: units asked for and subtotals are numbers
  in range, and two bodies with the same lines ask for the same units. It needs
  induction over the lines; TLC evaluates it for the bodies of the run.

**`PaymentProofs`** (`OrdersAssumption`, `AmountAssumption`, `MethodAssumption`:
no method is the value that stands for none), for any number of orders,
payments, keys and handlers.

* `PaymentTypeCorrect`, `CapturesAreAccounted`, `RefundsAreAccounted`: from
  `PaymentInv`. A callback decides on a copy and saves it later, so what holds of
  a row must hold of each copy in flight as far as the locks let it go stale
  (`CopySound`), and a refund under way must account for the difference between
  row and processor (`RefundSound`), which is why at most one holds a row.

**`PromotionProofs`**, of `PromotionLedger`, for any codes, customers, orders and transactions.

* `LedgerTypeCorrect`, `CountNeverAhead`, `CountIsKept`: from `LedgerInv`: rows
  are held by one transaction at a time (`LocksExclude`), what one locked is as
  it read it (`ReadsHold`), uses name codes that were made (`UsesAreNamed`).
  `CountIsKept` assumes `MaxCreates = 1`: a code that is deleted and created
  again under the same name starts at zero while its old uses stand.
  `CountNeverAhead` says what holds without it: the counter never exceeds the
  uses, and is exact for a code that was created once.
* `DeadlocksAreOfOneCustomer`: each transaction that waits holds at most one
  kind of row and asks for the other; of those only a reserve that meets a
  release or a consume of the same customer and code can form a circle.
* `LedgerIsImplemented`: the check of the cap reads the counter and that of the
  limit counts rows, so under `LedgerInv` and an exact counter the insert is the
  abstract `Reserve`; also under `MaxCreates = 1`.

**`PromotionProofs`**, of `Wallet` (`WalletAssumption`: the server, the tool and
the managers are different issuers), for any users, campaigns and managers.

* `SignUpsAreServed`: from `WalletInv`. What a registration was to get is granted,
  put aside as failed or still to do, and an insert under way is for that very
  user (`SignUpUnderWay`); what it was to get is read from a column that is there
  and marked once (`CarriedOverOnce`: a start that serves, or a tool that passed
  its check, found the column).
* `WithdrawalsStay`: the action property `WithdrawnStays`: an entitlement's key
  never goes away, so an insert that meets a withdrawn one leaves it alone. Once
  the campaign is marked the column is there, so a start that looks after that
  never marks; only a manager turns a code's flag on, or the one start that had
  looked before (`early`). That this one exists is what refutes
  `ClearedStaysCleared` (section 4).

**`PromotionProofs`**, of `SkuRollout` (`RolloutAssumption`: the tables of order
and cart are three), for any products, skus and lines, and any number of deaths
and deploys.

* `RolloutIsSafe`: from `RolloutInv`. A start may die between any two statements,
  so how far a start got must say what it may rely on: no variant lacks an id once
  its ids are given and the key is only dropped then (`ProductStart`), a line
  table gives up its old key only when each line has an id (`TablesStart`), and a
  start of order leaves its first table before the second only with a key
  (`FirstTableKeyed`). Ids are handed out in order and never twice, and whoever
  has one, variant, line or answer, has it from there (`NamesGiven`).
* `LinesAreKept`: the action property `LinesKept`: an id once given stays, and the
  only lines that go are lines of carts, while cart serves or before they have an
  id.

**`CheckoutProofs`** (`SessionAssumption`, `PriceAssumption`, and those of
`UseLedger` and `PromotionRules`), for any sessions, carts, codes and handlers.

* `CheckoutTypeCorrect`, `SessionsHaveTheirOrder`, `UsesHaveLiveOrders`: from
  `CheckoutInv`. Only the close is guarded, so the invariant ties each order to
  the session row that names it (`Settled`: nobody works against it), to the one
  request that is placing or undoing it (`WorkedOnce`, `WorkSound`), or to
  `stray`. The orders a session keeps are then at most one more than the times
  an older copy reopened it.
* `DiscountsAreEarned`: `ChargedDiscountEarned` at the step that places an
  order, and `StoredDiscountFitsCart` always. The invariant says of each request
  that judges what its calls so far have seen: the quotes of its lines are
  prices of states in `during` (`QuotedIn`), which only grows, and the amount is
  what the code earned at them in one of these states (`CodeEarned`); a row, and
  each copy of an open session on its way back, fits its items (`Fits`), torn
  copies included, because whatever saves an open copy sets its amount anew.
  Hypothesis `~CatalogFails`, without which it is false (section 4).
* `PriceAssumption` says that a cart's subtotal is a number: it is a fold over
  the lines, and what a fold computes for every input needs induction over data.
  TLC evaluates it for the carts of the run.

**`AccountsProofs`** (`AccountsAssumption`, `OutboxAssumption`), for any users,
logins, addresses, requests at a time and drains, and any assignment of duties
to handlers.

* `AccountsAreSafe`: from `AccountsInv`, one part per table. A save writes back a
  row read earlier, so `UserInv` says of every copy in flight that it is locked
  exactly at the limit and that its account was registered once; `BookInv`
  counts the addresses requests are about to save with the saved ones
  (`Claimed`), since the count a request took may be stale when it saves. The
  type invariant of both modules is part of it.
* `LoginsHoldOneToken`: from `TokenInv`: tokens are numbered as they are minted,
  two live ones are never of one login, and what a refresh looked up was minted,
  so it can only be exchanged while it is the live one.
* `EarlierEventsFirst`: the safety half of `EventsDelivered`. What a row came
  after was visible when it was drawn and has a smaller number (`RowBefore`), so
  a drain that lists the row lists what is still pending of it too, and takes it
  first (`CausesFirst`).

**`TelegramProofs`**, of `Alerts` (its assumptions), for any chats, users, tasks
and messages.

* `AlertsReachWhoIsDue`: from `AlertsInv`. What routing reads is one state of the
  table between publish and delivery, so it lies between the chats that were
  always due and those that ever were (`RoutedRemembered`), and from there on a
  chat is still to be sent to, was sent to, or was passed over by a task that did
  not list it (`EverySent`). The cached lists may hold anything.
* `AcceptedChatsAreWelcomed`: a message whose chat was accepted before it came is
  found by the first lookup and never becomes a row of its own
  (`AcceptedIsFound`).

**`TelegramProofs`**, of `Support` (its assumptions), for any shoppers, handlers,
requests and rosters.

* `AnsweredMeansTold`: from `SupportInv`. Rows are saved whole as they were read,
  so the invariant says of every copy of an inquiry or question that it shows an
  answer only if a reply was delivered, or the author told (`DeskInv`,
  `QuestionInv`); messages are never taken back, so a copy cannot become wrong.
* `RepliesMailedOnce`: what the notice job holds is still pending, the replies of
  an email that was recorded are not, and an email that was sent but not yet
  recorded is the last one (`NoticeInv`). A crash is what allows a second email.

`IInv`, `TxInv`, `SagaInv`, `HoldInv`, `MoneyInv`, `OrphanInv`, `GoodsInv`, `PlaceInv`, `PlacedHolds`,
`PaymentInv`, `LedgerInv`, `CheckoutInv`, `AccountsInv`, `CatalogInv`,
`AlertsInv`, `SupportInv`, `WalletInv` and `RolloutInv` were checked by TLC on
small instances, type invariants included (`PlaceInv` also with `"insert lost"`
among the faults), before they were proved; the runs do not repeat them.

Only model-checked is everything under fairness (`TxFinishes`, `CapturedMoneySettles`,
`UnpaidOrderCloses`, `DeliveredOrderCloses`, `ApprovalIsNotSilent`,
`LedgerRequestsEnd`, the liveness half of `EventsDelivered`, `NoticeIsDecided`, `ListsCatchUp`),
which the prover does not handle. What the folds of `PlaceOrder` and
`PromotionRules` compute is checked on the inputs of the runs.

## 6. Not modelled, and the plan

Next, in this order:

1. Two payments of one order in `OrderSaga`, where what a canceled order owes
   is a sum over payments; a second consumer of `payment.succeeded`.
2. Cart and API keys.

Left out on purpose: search, reports, views and wishlist (reads and counters),
kill switches and rate limits (settings), the live order feed (a failure changes
no order), the other startup migrations (single statements), the HTTP client of
the card processor, the product service's in-memory stores (used by its tests
only), gateway and deployment.
