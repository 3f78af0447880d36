------------------------------ MODULE Checkout ------------------------------
(***************************************************************************)
(* Checkout sessions of the order service: a session row that requests     *)
(* read, change and save as a whole, and the complete request, which has   *)
(* each line priced, the code and then the customer's tier judged, places  *)
(* the order at prices it looks up again, claims the use of the code and   *)
(* only then closes the session with a guarded write.  Each read, remote   *)
(* call and write is a step, the lookup of each line's price and the two   *)
(* reads of a session included; what fails on the way is rolled back by    *)
(* canceling the order.  Product's evaluation of a cart is one step.       *)
(*                                                                         *)
(* The ledger of uses is the abstract one (UseLedger), which               *)
(* PromotionLedger implements; the judging of carts is PromotionRules.     *)
(* Stock and payment are left to OrderSaga: here an order is placed and    *)
(* stays pending until it is canceled.                                     *)
(***************************************************************************)
EXTENDS UseLedger, PromotionRules, TLC

CONSTANTS
  Sessions,
  SessionOf,     \* the session each order id would be placed from
  Rules,         \* the conditions and benefit of each code
  Tiers,         \* rules of the customer's automatic tiers
  Carts,         \* carts a request may set; a sku absent is not in the cart
  Opening,       \* carts the sessions hold once their first items are set
  Books,         \* states of the catalog
  Fee,           \* delivery fee quoted when a session opens
  Handlers,      \* requests and worker runs at a time
  MaxReopens,    \* times a completed session is overwritten by an older copy
  MaxChanges,    \* requests that change a session's items or code
  CatalogFails,  \* whether product's catalog lookups fail
  MaxFaults      \* calls that fail, requests that die

ASSUME SessionAssumption ==
  /\ SessionOf \in [Orders -> Sessions] /\ IsFiniteSet(Orders)
  /\ {Fee, MaxReopens, MaxChanges, MaxFaults} \subseteq Nat
  /\ CatalogFails \in BOOLEAN /\ NoCode \notin Codes
  /\ Opening \subseteq Carts

\* Quotes that lines looked up one after the other may get while the catalog
\* is in one of the states bs.
QuotesIn(bs, cart) ==
  {q \in [DOMAIN cart -> {[price |-> b[s].price] : b \in bs, s \in DOMAIN cart}] :
     \A s \in DOMAIN cart : \E b \in bs : q[s].price = b[s].price}

\* The lines as product judges them: it is sent the prices, and reads
\* category and markdown itself.
Lines(b, quotes) == [s \in DOMAIN quotes |-> [b[s] EXCEPT !.price = quotes[s].price]]

\* Amounts are won, and so is what a cart comes to.
ASSUME PriceAssumption ==
  /\ \A c \in Codes : {Rules[c].amount, Rules[c].max} \subseteq Nat
  /\ \A cart \in Carts, b \in Books : \A q \in QuotesIn(Books, cart) :
       {Subtotal(q, cart), Subtotal(Lines(b, q), cart)} \subseteq Nat

VARIABLES
  session,   \* table checkout_sessions with its items
  late,      \* sessions past expires_at
  book,      \* the catalog now
  orders,    \* table orders
  call,      \* what each request is doing
  stray,     \* history: orders whose request ended without closing or undoing them
  reopened,  \* history: times a completed row was overwritten, per session
  changes, faults

bounds       == <<changes, faults>>
checkoutVars == <<session, late, book, orders, call, stray, reopened, bounds>>
allVars == <<checkoutVars, ledgerVars>>

EmptyCart  == [s \in {} |-> 0]
NoOrder    == [status |-> "none"]
NewSession == [status |-> "open", cart |-> EmptyCart, code |-> NoCode, won |-> 0, order |-> {}]
Idle       == [at |-> "idle"]
NoVerdict  == [ok |-> TRUE, won |-> 0]
NoQuotes   == [s \in {} |-> [price |-> 0]]

Live(o)   == orders[o].status = "pending"
InHand(o) == \E h \in Handlers : call[h].at \in {"claim", "close", "undo"} /\ call[h].order = o

Continue(h, c) == call' = [call EXCEPT ![h] = c]
End(h)         == Continue(h, Idle)
GoOn(h, at)    == Continue(h, [at |-> at, order |-> call[h].order])
OnlyCall       == UNCHANGED <<session, late, book, orders, stray, reopened, ledgerVars>>

----------------------------------------------------------------------------
\* A session that was opened and given its first items.
Holding(cart) == [NewSession EXCEPT !.cart = cart]

CheckoutInit ==
  /\ session \in [Sessions -> {Holding(cart) : cart \in Opening}]
  /\ late = {}
  /\ book \in Books
  /\ orders = [o \in Orders |-> NoOrder]
  /\ call = [h \in Handlers |-> Idle]
  /\ stray = {}
  /\ reopened = [s \in Sessions |-> 0]
  /\ changes = 0 /\ faults = 0
  /\ use = [o \in Orders |-> NoUse]
  /\ terms \in [Codes -> [offered : {TRUE}, cap : Caps]]

Lapse(s) ==
  /\ s \notin late
  /\ late' = late \cup {s}
  /\ UNCHANGED <<session, book, orders, call, stray, reopened, bounds, ledgerVars>>

\* Stages of a request that judges discounts: it keeps, as history, the
\* states the catalog has been in since.
Judging == {"complete", "tier", "place"}

Since(c, b) == IF c.at \in Judging THEN [c EXCEPT !.during = @ \cup {b}] ELSE c

\* Staff change prices, put a sku on sale or take it off the shop.
ChangeCatalog(b) ==
  /\ b # book
  /\ book' = b
  /\ call' = [h \in Handlers |-> Since(call[h], b)]
  /\ UNCHANGED <<session, late, orders, stray, reopened, bounds, ledgerVars>>

----------------------------------------------------------------------------
(* Reading and saving the row *)

\* Whatever the change is, it is made to the copy when the copy is saved.
Requests == {"change", "complete", "show"}

Fresh(s)      == {o \in Orders : SessionOf[o] = s /\ orders[o] = NoOrder}
Completing(s) ==
  {h \in Handlers : /\ call[h].at \in {"items"} \cup Judging /\ call[h].session = s
                    /\ call[h].at = "items" => call[h].request = "complete"}

\* A session is read in two statements: the row first.  Showing one matters
\* when its time is up; that it runs out between the two statements is left to
\* the other requests, which do the same then.
ReadRow(h, s, request) ==
  /\ call[h].at = "idle"
  /\ request = "show" => s \in late /\ session[s].status # "completed"
  /\ request = "complete" => Cardinality(Completing(s)) < Cardinality(Fresh(s))
  /\ Continue(h, [at |-> "items", session |-> s, request |-> request,
                  copy |-> [session[s] EXCEPT !.cart = EmptyCart]])
  /\ request = "change" => changes < MaxChanges
  /\ changes' = IF request = "change" THEN changes + 1 ELSE changes
  /\ UNCHANGED faults
  /\ OnlyCall

\* EnsureOpen on what was read: an open one past its time becomes expired.
AsRead(row, s) ==
  LET copy == [row EXCEPT !.cart = session[s].cart]
  IN  IF copy.status = "open" /\ s \in late THEN [copy EXCEPT !.status = "expired"] ELSE copy

\* What an open session is read for.
Opened(request, s, copy) ==
  CASE request = "show"     -> Idle
    [] request = "change"   -> [at |-> "change", session |-> s, copy |-> copy]
    [] request = "complete" -> [at |-> "complete", session |-> s, copy |-> [copy EXCEPT !.won = 0],
                                seen |-> NoQuotes, during |-> {book}]

\* Then its items, as they are by now.  A session that is not open is
\* refused, and saved back with the error.
ReadItems(h) ==
  LET c == call[h]
      copy == AsRead(c.copy, c.session)
  IN
  /\ c.at = "items"
  /\ Continue(h, IF copy.status = "open" THEN Opened(c.request, c.session, copy)
                 ELSE [at |-> "save", session |-> c.session, copy |-> copy])
  /\ UNCHANGED bounds
  /\ OnlyCall

\* The row and its items are replaced by the copy, whatever they are by now.
SaveSession(h, copy) ==
  LET s == call[h].session
      undone == session[s].status = "completed" /\ copy.status # "completed"
  IN
  /\ undone => reopened[s] < MaxReopens
  /\ session' = [session EXCEPT ![s] = copy]
  /\ reopened' = [reopened EXCEPT ![s] = IF undone THEN @ + 1 ELSE @]
  /\ End(h)
  /\ UNCHANGED <<late, book, orders, stray, bounds, ledgerVars>>

SaveBack(h) == call[h].at = "save" /\ SaveSession(h, call[h].copy)

----------------------------------------------------------------------------
(* Pricing *)

Unpriced(c) == DOMAIN c.copy.cart \ DOMAIN c.seen

Quoted(seen, s) ==
  [x \in DOMAIN seen \cup {s} |-> IF x = s THEN [price |-> book[s].price] ELSE seen[x]]

\* Each line is looked up by a call of its own; it has to be sold.
PriceLine(h) ==
  LET c == call[h]
      s == CHOOSE x \in Unpriced(c) : TRUE
  IN
  /\ c.at \in {"edit", "apply", "complete", "place"}
  /\ Unpriced(c) # {} /\ book[s].sold
  /\ Continue(h, [c EXCEPT !.seen = Quoted(@, s)])
  /\ UNCHANGED bounds
  /\ OnlyCall

\* Ends before anything came of it: a wrong argument, a session past its time,
\* a line not sold, a code or a discount refused, no stock, a call that is not
\* answered, a save that fails, a process that dies.
Refuse(h) ==
  /\ call[h].at \in {"items", "change", "edit", "apply", "save"} \cup Judging
  /\ End(h)
  /\ UNCHANGED bounds
  /\ OnlyCall

----------------------------------------------------------------------------
(* Edits: what is changed is the copy, if its time is not up by then *)

InTime(h) == call[h].session \notin late

\* Editing zeroes the discount and keeps the code.
Edited(copy, cart) == [copy EXCEPT !.cart = cart, !.won = 0]

\* Setting items, adding one, removing one: what is new is priced first.
EditItems(h, new) ==
  LET c == call[h]
      old == c.copy.cart
      kept == {s \in DOMAIN new : s \in DOMAIN old /\ new[s] = old[s]}
  IN
  /\ c.at = "change"
  /\ Continue(h, [at |-> "edit", session |-> c.session, copy |-> Edited(c.copy, new),
                  seen |-> [s \in kept |-> [price |-> 0]]])
  /\ UNCHANGED bounds
  /\ OnlyCall

SaveItems(h) ==
  /\ call[h].at = "edit" /\ Unpriced(call[h]) = {} /\ InTime(h)
  /\ SaveSession(h, call[h].copy)

ClearPromotion(h) ==
  /\ call[h].at = "change" /\ InTime(h)
  /\ SaveSession(h, [call[h].copy EXCEPT !.code = NoCode, !.won = 0])

----------------------------------------------------------------------------
(* Judging a code and a tier *)

Answers == IF CatalogFails THEN BOOLEAN ELSE {TRUE}

Customer(s) == CustomerOf[CHOOSE o \in Orders : SessionOf[o] = s]

\* Product's verdict on code c for a cart at the prices it is sent: the
\* definition, the conditions and the benefit, then the uses the customer has.
Verdict(c, s, quotes, cart, answers) ==
  LET judged == Evaluate(Rules[c], Lines(book, quotes), cart, Fee, answers)
      spent == Cardinality(ActiveUses(c)) >= terms[c].cap
                 \/ Cardinality(UsesOf(c, Customer(s))) >= Limit
  IN  IF terms[c].offered /\ ~ spent THEN judged ELSE Refused

\* A code for the items as they were read; the lines are priced first.
EnterCode(h, c) ==
  LET r == call[h]
  IN
  /\ r.at = "change" /\ DOMAIN r.copy.cart # {}
  /\ Continue(h, [at |-> "apply", session |-> r.session, copy |-> [r.copy EXCEPT !.code = c, !.won = 0],
                  seen |-> NoQuotes])
  /\ UNCHANGED bounds
  /\ OnlyCall

\* The amount is stored, at most what the stored lines are worth, at the
\* prices they were stored with.
ApplyPromotion(h, answers, stored) ==
  LET c == call[h]
      verdict == Verdict(c.copy.code, c.session, c.seen, c.copy.cart, answers)
  IN
  /\ c.at = "apply" /\ Unpriced(c) = {} /\ InTime(h)
  /\ verdict.ok /\ stored \in QuotesIn(Books, c.copy.cart)
  /\ Continue(h, [at |-> "save", session |-> c.session,
       copy |-> [c.copy EXCEPT !.won = AtMost(verdict.won, Subtotal(stored, c.copy.cart))]])
  /\ UNCHANGED bounds
  /\ OnlyCall

----------------------------------------------------------------------------
(* Completing a session *)

\* Slip: the amount stored when the code was applied is charged.
CodeVerdictStored(h, answers) == [ok |-> TRUE, won |-> session[call[h].session].won]

\* The code is judged again, on the cart at the prices of now.
CodeVerdict(h, answers) ==
  LET c == call[h]
  IN  IF c.copy.code = NoCode THEN NoVerdict
      ELSE Verdict(c.copy.code, c.session, c.seen, c.copy.cart, answers)

JudgeCode(h, answers) ==
  LET c == call[h]
      verdict == CodeVerdict(h, answers)
  IN
  /\ c.at = "complete" /\ DOMAIN c.copy.cart # {} /\ Unpriced(c) = {}
  /\ verdict.ok
  /\ Continue(h, [c EXCEPT !.at = "tier", !.copy.won = verdict.won])
  /\ UNCHANGED bounds
  /\ OnlyCall

\* The tier comes under the code and takes at most what is left of the goods.
JudgeTier(h, answers) ==
  LET c == call[h]
      room == Subtotal(c.seen, c.copy.cart) - c.copy.won
  IN
  /\ c.at = "tier"
  /\ Continue(h, [at |-> "place", session |-> c.session, copy |-> c.copy, during |-> c.during,
                  tier |-> AtMost(BestTier(Tiers, Lines(book, c.seen), c.copy.cart, Fee, answers), room),
                  sent |-> c.seen, seen |-> NoQuotes])
  /\ UNCHANGED bounds
  /\ OnlyCall

\* NewOrder refuses a discount beyond the goods.
Accepts(goods, discount) == discount <= goods

\* CreateOrder has priced the lines once more.
PlaceOrder(h, o) ==
  LET c == call[h]
      copy == c.copy
  IN
  /\ c.at = "place" /\ Unpriced(c) = {}
  /\ o \in Fresh(c.session) /\ o = CHOOSE q \in Fresh(c.session) : TRUE
  /\ Accepts(Subtotal(c.seen, copy.cart), copy.won + c.tier)
  /\ orders' = [orders EXCEPT ![o] = [status |-> "pending", cart |-> copy.cart, code |-> copy.code,
                                      won |-> copy.won, tier |-> c.tier]]
  /\ Continue(h, [at |-> "claim", order |-> o, sent |-> c.sent])
  /\ UNCHANGED <<session, late, book, stray, reopened, bounds, ledgerVars>>

\* Product judges the cart once more, at the prices it was sent before, then
\* takes a use of the code.
ClaimUse(h, answers) ==
  LET c == call[h]
      code == orders[c.order].code
      judged == Evaluate(Rules[code], Lines(book, c.sent), orders[c.order].cart, Fee, answers)
  IN
  /\ c.at = "claim"
  /\ IF code = NoCode THEN GoOn(h, "close") /\ UNCHANGED ledgerVars
     ELSE IF judged.ok /\ UseLeft(c.order, code)
     THEN GoOn(h, "close") /\ ReserveUse(c.order, code)
     ELSE GoOn(h, "undo") /\ UNCHANGED ledgerVars
  /\ UNCHANGED <<session, late, book, orders, stray, reopened, bounds>>

\* Slip: the session is closed without WHERE status = 'open'.
StillOpenUnchecked(s) == TRUE

StillOpen(s) == session[s].status = "open"

Closed(row, o) == [row EXCEPT !.status = "completed", !.order = {o}]

CloseSession(h) ==
  LET s == SessionOf[call[h].order]
  IN
  /\ call[h].at = "close"
  /\ IF StillOpen(s)
     THEN /\ session' = [session EXCEPT ![s] = Closed(@, call[h].order)]
          /\ End(h)
     ELSE GoOn(h, "undo") /\ UNCHANGED session
  /\ UNCHANGED <<late, book, orders, stray, reopened, bounds, ledgerVars>>

----------------------------------------------------------------------------
(* Undoing an order, and the workers *)

\* Slip: the use is kept when the order goes.
UndoKeepsUse(h) ==
  LET o == call[h].order
  IN
  /\ call[h].at = "undo"
  /\ orders' = IF Live(o) THEN [orders EXCEPT ![o].status = "canceled"] ELSE orders
  /\ End(h)
  /\ UNCHANGED <<session, late, book, stray, reopened, bounds, ledgerVars>>

\* CancelOrder of the pending order; what it says is ignored.
UndoOrder(h) ==
  LET o == call[h].order
  IN
  /\ call[h].at = "undo"
  /\ IF Live(o)
     THEN /\ orders' = [orders EXCEPT ![o].status = "canceled"]
          /\ GoOn(h, "release")
     ELSE End(h) /\ UNCHANGED orders
  /\ UNCHANGED <<session, late, book, stray, reopened, bounds, ledgerVars>>

\* Releasing nothing, or twice, is harmless.
ReturnUse(h) ==
  LET o == call[h].order
  IN
  /\ call[h].at = "release"
  /\ IF IsActive(o) THEN ReleaseUse(o) ELSE UNCHANGED ledgerVars
  /\ End(h)
  /\ UNCHANGED <<session, late, book, orders, stray, reopened, bounds>>

\* An order nobody paid in time.  A request does not outlast that time.
ExpireOrder(h, o) ==
  /\ call[h].at = "idle"
  /\ Live(o) /\ ~ InHand(o)
  /\ orders' = [orders EXCEPT ![o].status = "lapsed"]
  /\ Continue(h, [at |-> "release", order |-> o])
  /\ UNCHANGED <<session, late, book, stray, reopened, bounds, ledgerVars>>

----------------------------------------------------------------------------
(* Failures *)

Fault == faults < MaxFaults /\ faults' = faults + 1 /\ UNCHANGED changes

\* A call that fails before it had an effect, or after: the order is undone.
CallFails(h) ==
  LET c == call[h]
  IN
  /\ Fault
  /\ \/ c.at = "claim" /\ UNCHANGED ledgerVars
     \/ c.at = "claim" /\ orders[c.order].code # NoCode
                       /\ ReserveUse(c.order, orders[c.order].code)
     \/ c.at = "close" /\ UNCHANGED ledgerVars
  /\ GoOn(h, "undo")
  /\ UNCHANGED <<session, late, book, orders, stray, reopened>>

\* The session was closed and the reply is lost: its order is undone too.
CloseReplyLost(h) ==
  LET o == call[h].order
      s == SessionOf[o]
  IN
  /\ call[h].at = "close" /\ StillOpen(s)
  /\ Fault
  /\ session' = [session EXCEPT ![s] = Closed(@, o)]
  /\ stray' = stray \cup {o}
  /\ GoOn(h, "undo")
  /\ UNCHANGED <<late, book, orders, reopened, ledgerVars>>

\* The process dies with an order in hand, or a cancel or release fails and
\* is only logged.
RequestDies(h) ==
  /\ call[h].at \in {"claim", "close", "undo", "release"}
  /\ Fault
  /\ stray' = stray \cup {call[h].order}
  /\ End(h)
  /\ UNCHANGED <<session, late, book, orders, reopened, ledgerVars>>

----------------------------------------------------------------------------
Proceed(h) ==
  \/ ReadItems(h)
  \/ SaveBack(h)
  \/ PriceLine(h)
  \/ \E cart \in Carts \cup {EmptyCart} : EditItems(h, cart)
  \/ SaveItems(h)
  \/ ClearPromotion(h)
  \/ \E c \in Codes : EnterCode(h, c)
  \/ \E cart \in Carts : \E answers \in Answers, stored \in QuotesIn(Books, cart) :
       ApplyPromotion(h, answers, stored)
  \/ \E answers \in Answers : JudgeCode(h, answers) \/ JudgeTier(h, answers) \/ ClaimUse(h, answers)
  \/ \E o \in Orders : PlaceOrder(h, o)
  \/ Refuse(h)
  \/ CloseSession(h)
  \/ UndoOrder(h)
  \/ ReturnUse(h)

Begin(h) ==
  \/ \E s \in Sessions, request \in Requests : ReadRow(h, s, request)
  \/ \E o \in Orders : ExpireOrder(h, o)

Break(h) == CallFails(h) \/ CloseReplyLost(h) \/ RequestDies(h)

CheckoutNext ==
  \/ \E s \in Sessions : Lapse(s)
  \/ \E b \in Books : ChangeCatalog(b)
  \/ \E h \in Handlers : Begin(h) \/ Proceed(h) \/ Break(h)

CheckoutSpec == CheckoutInit /\ [][CheckoutNext]_allVars

----------------------------------------------------------------------------
CheckoutTypeOK ==
  /\ \A s \in Sessions :
       /\ session[s].status \in {"open", "completed", "expired"}
       /\ session[s].cart \in Carts \cup {EmptyCart}
       /\ session[s].code \in Codes \cup {NoCode}
       /\ session[s].order \subseteq {o \in Orders : SessionOf[o] = s}
       /\ (session[s].status = "completed") = (session[s].order # {})
  /\ \A o \in Orders : orders[o].status \in {"none", "pending", "canceled", "lapsed"}
  /\ use \in [Orders -> [status : {"none", "reserved", "released"}, code : Codes \cup {NoCode}]]
  /\ reopened \in [Sessions -> 0..MaxReopens]

(* A session yields one order: of those placed from it, at most one stays  *)
(* once no request works on it, and one more for every time an older copy  *)
(* of the row was saved over the completed one; concurrent completes leave *)
(* one winner and the others cancel what they placed.                      *)
OneOrderPerSession ==
  \A s \in Sessions :
    Cardinality({o \in Orders : /\ SessionOf[o] = s
                                /\ Live(o) /\ ~ InHand(o)
                                /\ o \notin stray}) <= 1 + reopened[s]

(* A code is held by an order that stands, or by a request that is about   *)
(* to undo one: a use is never lost with a refused, losing or expired      *)
(* complete unless the release itself failed.                              *)
UseOfLiveOrder ==
  \A o \in Orders : IsActive(o) =>
    \/ Live(o)
    \/ o \in stray
    \/ \E h \in Handlers : call[h].at \in {"undo", "release"} /\ call[h].order = o

\* Discounts that a code and then a tier earn for a cart while the catalog is
\* in the states bs: lines priced one by one, and each evaluation with what it
\* then reads of them.
Earned(bs, code, cart, won, tier) ==
  \E q \in QuotesIn(bs, cart) : \E judged, tiered \in bs :
    LET verdict == IF code = NoCode THEN NoVerdict
                   ELSE Evaluate(Rules[code], Lines(judged, q), cart, Fee, TRUE)
    IN  /\ verdict.ok
        /\ won = verdict.won
        /\ tier = AtMost(BestTier(Tiers, Lines(tiered, q), cart, Fee, TRUE),
                         Subtotal(q, cart) - verdict.won)

(* An order is placed with the discounts that its code, and then the tier, *)
(* earn for exactly its lines: at prices the catalog gave out, and with    *)
(* the categories and markdowns it had, while that complete request was    *)
(* running, and together no more than the goods it is placed with.  A      *)
(* stored amount, another request's edit or an older price never gets in.  *)
ChargedDiscountEarned ==
  [][\A o \in Orders : orders[o] = NoOrder /\ orders'[o] # NoOrder =>
       LET r == orders'[o]
       IN  \E h \in Handlers :
             /\ call[h].at = "place" /\ call'[h] # call[h]
             /\ r.won + r.tier <= Subtotal(call[h].seen, r.cart)
             /\ Earned(call[h].during, r.code, r.cart, r.won, r.tier)]_allVars

(* The discount an open session shows was judged for the items it shows it *)
(* with, whichever requests saved it and in whatever order, torn reads     *)
(* included.                                                               *)
StoredDiscountFitsCart ==
  \A s \in Sessions : session[s].status = "open" /\ session[s].won > 0 =>
    /\ session[s].code # NoCode
    /\ \E b \in Books, q \in QuotesIn(Books, session[s].cart) :
         LET verdict == Evaluate(Rules[session[s].code], Lines(b, q), session[s].cart, Fee, TRUE)
         IN  verdict.ok /\ session[s].won <= verdict.won

(* No discount outlives what earned it, in a session or in an order.       *)
DiscountsEarned == []StoredDiscountFitsCart /\ ChargedDiscountEarned

(* A completed session names an order that stands, holding its code's use, *)
(* or one that nobody paid for in time.                                    *)
CompletedHasItsOrder ==
  \A s \in Sessions : \A o \in session[s].order : o \notin stray =>
    \/ orders[o].status = "lapsed"
    \/ Live(o) /\ (orders[o].code # NoCode => IsActive(o) /\ use[o].code = orders[o].code)

(* Both ends of complete: a session names its order, and has no other.     *)
SessionHasItsOrder == OneOrderPerSession /\ CompletedHasItsOrder

(* Completed is final: "Checkout finished; order_id is set"                *)
(* (docs/checkout-session.md).                                             *)
SessionStaysCompleted ==
  [][\A s \in Sessions : session[s].status = "completed" => session'[s].status = "completed"]_allVars
============================================================================
