--------------------------- MODULE CheckoutProofs ---------------------------
(* Proofs about Checkout: a session yields one order and names it, a use   *)
(* of a code belongs to an order that stands, and no discount outlives     *)
(* what earned it, for any number of sessions, orders, requests and        *)
(* catalogs, and whatever fails or dies on the way.                        *)
EXTENDS Checkout, FiniteSetTheorems, TLAPS

----------------------------------------------------------------------------
(* The inductive invariant.                                                *)

\* An open session shows a discount with a code and items that earn it.
Fits(row) ==
  row.status = "open" /\ row.won > 0 =>
    /\ row.code # NoCode
    /\ \E b \in Books, q \in QuotesIn(Books, row.cart) :
         LET verdict == Evaluate(Rules[row.code], Lines(b, q), row.cart, Fee, TRUE)
         IN  verdict.ok /\ row.won <= verdict.won

SessionRow == [status : {"open", "completed", "expired"}, cart : Carts \cup {EmptyCart},
               code : Codes \cup {NoCode}, won : Nat, order : SUBSET Orders]

\* What a row, or a copy of one, of session s may be, torn ones included.
RowSane(s, row) ==
  /\ row \in SessionRow
  /\ \A o \in row.order : SessionOf[o] = s
  /\ (row.status = "completed") = (row.order # {})

\* What is, or will be, in the table.
RowFor(s, row) == RowSane(s, row) /\ (~ CatalogFails => Fits(row))

\* Quotes some of the lines got while the catalog was in the states bs.
QuotedIn(bs, seen, cart) ==
  /\ seen = [s \in DOMAIN seen |-> seen[s]]
  /\ DOMAIN seen \subseteq DOMAIN cart
  /\ \A s \in DOMAIN seen : \E b \in bs : seen[s] = [price |-> b[s].price]

\* What the code alone earns at the quotes q.
CodeEarned(bs, code, cart, q, won) ==
  \E b \in bs :
    LET verdict == IF code = NoCode THEN NoVerdict
                   ELSE Evaluate(Rules[code], Lines(b, q), cart, Fee, TRUE)
    IN  verdict.ok /\ won = verdict.won

\* The call works on order o: nobody else does.
IsWork(c, o) == c.at \in {"claim", "close", "undo", "release"} /\ c.order = o

HoldsCode(o) == orders[o].code # NoCode => IsActive(o) /\ use[o].code = orders[o].code

\* What a request that works on an order knows of it.
WorkSound(c, o) ==
  /\ c.at \in {"claim", "close", "undo"} => Live(o)
  /\ c.at = "release" => orders[o].status \in {"canceled", "lapsed"}
  /\ c.at = "close" => HoldsCode(o)

Worked(o)     == \E h \in Handlers : IsWork(call[h], o)
WorkedOnce(o) == \A g, h \in Handlers : IsWork(call[g], o) /\ IsWork(call[h], o) => g = h

\* The order of a session that was completed: nobody works against it.
Settled(o) == \/ o \in stray
              \/ orders[o].status = "lapsed"
              \/ Live(o) /\ ~ Worked(o) /\ HoldsCode(o)

OrderRow(r) ==
  \/ r = NoOrder
  \/ /\ r = [status |-> r.status, cart |-> r.cart, code |-> r.code, won |-> r.won, tier |-> r.tier]
     /\ r.status \in {"pending", "canceled", "lapsed"}
     /\ r.code \in Codes \cup {NoCode}

UseSound(o) ==
  IsActive(o) => Live(o) \/ o \in stray
                   \/ \E h \in Handlers : call[h].at \in {"undo", "release"} /\ IsWork(call[h], o)

OrderSound(o) ==
  /\ OrderRow(orders[o])
  /\ use[o] \in [status : {"none", "reserved", "released"}, code : Codes \cup {NoCode}]
  /\ WorkedOnce(o)
  /\ \A h \in Handlers : IsWork(call[h], o) => WorkSound(call[h], o)
  /\ UseSound(o)

SettledAll(row) == \A o \in row.order : Settled(o)

\* What a request carries; for its order see WorkSound.
PricingShape(c) ==
  c = [at |-> c.at, session |-> c.session, copy |-> c.copy, seen |-> c.seen]
JudgingShape(c) ==
  c = [at |-> c.at, session |-> c.session, copy |-> c.copy, seen |-> c.seen, during |-> c.during]
PlacingShape(c) ==
  c = [at |-> c.at, session |-> c.session, copy |-> c.copy, during |-> c.during,
       tier |-> c.tier, sent |-> c.sent, seen |-> c.seen]

CallShape(c) ==
  \/ c = Idle
  \/ /\ c.at = "items" /\ c.session \in Sessions /\ c.request \in Requests
     /\ RowSane(c.session, c.copy)
  \/ /\ c.at = "change" /\ c.session \in Sessions
     /\ RowSane(c.session, c.copy) /\ c.copy.status = "open"
  \/ /\ c.at \in {"edit", "apply"} /\ c.session \in Sessions /\ PricingShape(c)
     /\ RowSane(c.session, c.copy) /\ c.copy.status = "open" /\ c.copy.won = 0
     /\ c.at = "apply" => /\ c.copy.code \in Codes /\ c.copy.cart \in Carts
                          /\ QuotedIn(Books, c.seen, c.copy.cart)
  \/ /\ c.at = "save" /\ c.session \in Sessions
     /\ RowFor(c.session, c.copy)
  \/ /\ c.at = "complete" /\ c.session \in Sessions /\ JudgingShape(c)
     /\ c.copy \in SessionRow /\ c.during \subseteq Books
     /\ QuotedIn(c.during, c.seen, c.copy.cart)
  \/ /\ c.at = "tier" /\ c.session \in Sessions /\ JudgingShape(c)
     /\ c.copy.code \in Codes \cup {NoCode} /\ c.during \subseteq Books
     /\ c.seen \in QuotesIn(c.during, c.copy.cart)
     /\ ~ CatalogFails => CodeEarned(c.during, c.copy.code, c.copy.cart, c.seen, c.copy.won)
  \/ /\ c.at = "place" /\ c.session \in Sessions /\ PlacingShape(c)
     /\ c.copy.code \in Codes \cup {NoCode} /\ c.during \subseteq Books
     /\ ~ CatalogFails => Earned(c.during, c.copy.code, c.copy.cart, c.copy.won, c.tier)
  \/ c.at \in {"claim", "close", "undo", "release"} /\ c.order \in Orders

CallSettled(c) == c.at \in {"items", "save"} => SettledAll(c.copy)

\* The history of a request that judges reaches to the present.
CallTimely(c) == c.at \in Judging => book \in c.during

CallSound(c) == CallShape(c) /\ CallSettled(c) /\ CallTimely(c)

SessionSound(s) == RowFor(s, session[s]) /\ SettledAll(session[s])

\* Orders that stay of one session.
Kept(s)    == {o \in Orders : SessionOf[o] = s /\ Live(o) /\ ~ InHand(o) /\ o \notin stray}
Allowed(s) == (IF session[s].status = "completed" THEN 1 ELSE 0) + reopened[s]
CountOK(s) == Cardinality(Kept(s)) <= Allowed(s)

Shapes ==
  /\ session = [s \in Sessions |-> session[s]]
  /\ orders = [o \in Orders |-> orders[o]]
  /\ use = [o \in Orders |-> use[o]]
  /\ call = [h \in Handlers |-> call[h]]
  /\ reopened \in [Sessions -> 0..MaxReopens]
  /\ book \in Books

CheckoutInv ==
  /\ Shapes
  /\ \A s \in Sessions : SessionSound(s) /\ CountOK(s)
  /\ \A o \in Orders : OrderSound(o)
  /\ \A h \in Handlers : CallSound(call[h])

----------------------------------------------------------------------------
(* One request moves on; what it does not touch stays as it is. *)

LEMMA Moved ==
  ASSUME Shapes, NEW h \in Handlers, NEW c, Continue(h, c)
  PROVE  /\ call' = [g \in Handlers |-> call'[g]]
         /\ call'[h] = c
         /\ \A g \in Handlers \ {h} : call'[g] = call[g]
BY DEF Shapes, Continue

\* An order that nobody takes up, touches or lays down.
LEMMA OrderAside ==
  ASSUME NEW o \in Orders,
         orders'[o] = orders[o], use'[o] = use[o], o \in stray' <=> o \in stray,
         \A g \in Handlers : IsWork(call[g], o)' <=> IsWork(call[g], o),
         \A g \in Handlers : IsWork(call[g], o) => call'[g] = call[g]
  PROVE  /\ OrderSound(o) => OrderSound(o)'
         /\ Settled(o) => Settled(o)'
         /\ Live(o)' <=> Live(o)
         /\ InHand(o)' <=> InHand(o)
<1>3. (Live(o)' <=> Live(o)) /\ (IsActive(o)' <=> IsActive(o)) /\ (HoldsCode(o)' <=> HoldsCode(o))
  BY DEF Live, IsActive, HoldsCode
<1>4. WorkedOnce(o)' <=> WorkedOnce(o)
  BY DEF WorkedOnce
<1>5. Worked(o)' <=> Worked(o)
  BY DEF Worked
<1>6. InHand(o)' <=> InHand(o)
  <2>1. \A g \in Handlers : (call[g].at \in {"claim", "close", "undo"} /\ call[g].order = o) => IsWork(call[g], o)
    BY DEF IsWork
  <2>2. \A g \in Handlers : (call'[g].at \in {"claim", "close", "undo"} /\ call'[g].order = o) => IsWork(call[g], o)'
    BY DEF IsWork
  <2> QED BY <2>1, <2>2 DEF InHand
<1>7. ASSUME NEW g \in Handlers, IsWork(call[g], o) PROVE WorkSound(call[g], o)' <=> WorkSound(call[g], o)
  BY <1>3, <1>7 DEF WorkSound
<1>8. UseSound(o) => UseSound(o)'
  BY <1>3 DEF UseSound
<1>9. Settled(o) => Settled(o)'
  BY <1>3, <1>5 DEF Settled
<1>10. OrderSound(o) => OrderSound(o)'
  BY <1>4, <1>7, <1>8 DEF OrderSound
<1> QED BY <1>3, <1>6, <1>9, <1>10

\* An order that request h neither works on nor touches.
LEMMA OrderBeside ==
  ASSUME NEW h \in Handlers, NEW o \in Orders,
         \A g \in Handlers \ {h} : call'[g] = call[g],
         orders'[o] = orders[o], use'[o] = use[o], o \in stray' <=> o \in stray,
         ~ IsWork(call[h], o), ~ IsWork(call'[h], o)
  PROVE  /\ OrderSound(o) => OrderSound(o)'
         /\ Settled(o) => Settled(o)'
         /\ Live(o)' <=> Live(o)
         /\ InHand(o)' <=> InHand(o)
<1>1. \A g \in Handlers : IsWork(call[g], o)' <=> IsWork(call[g], o)
  BY DEF IsWork
<1>2. \A g \in Handlers : IsWork(call[g], o) => call'[g] = call[g]
  OBVIOUS
<1> QED BY <1>1, <1>2, OrderAside

LEMMA SettledStays ==
  ASSUME NEW c, CallShape(c), CallSettled(c), \A o \in Orders : Settled(o) => Settled(o)'
  PROVE  CallSettled(c)'
<1>1. c.at \in {"items", "save"} => c.copy.order \subseteq Orders
  BY DEF CallShape, RowFor, RowSane, SessionRow, Idle
<1> QED BY <1>1 DEF CallSettled, SettledAll

LEMMA CallStays ==
  ASSUME NEW c, CallSound(c), UNCHANGED book, \A o \in Orders : Settled(o) => Settled(o)'
  PROVE  CallSound(c)'
BY SettledStays DEF CallSound, CallTimely

LEMMA SessionStays ==
  ASSUME NEW s \in Sessions, SessionSound(s), session'[s] = session[s],
         \A o \in Orders : Settled(o) => Settled(o)'
  PROVE  SessionSound(s)'
BY DEF SessionSound, SettledAll, RowFor, RowSane, SessionRow

LEMMA KeptIsFinite == \A s : IsFiniteSet(Kept(s)) /\ IsFiniteSet(Kept(s)') /\ Cardinality(Kept(s)) \in Nat
<1>1. \A s : Kept(s) \subseteq Orders /\ Kept(s)' \subseteq Orders
  BY DEF Kept
<1> QED BY <1>1, SessionAssumption, FS_Subset, FS_CardinalityType

LEMMA CountStays ==
  ASSUME NEW s \in Sessions, Kept(s)' \subseteq Kept(s),
         Allowed(s) \in Nat, Allowed(s)' \in Nat, Allowed(s) <= Allowed(s)', CountOK(s)
  PROVE  CountOK(s)'
<1>1. Cardinality(Kept(s)') <= Cardinality(Kept(s)) /\ Cardinality(Kept(s)') \in Nat
  BY KeptIsFinite, FS_Subset, FS_CardinalityType
<1> QED BY <1>1, KeptIsFinite DEF CountOK

LEMMA AllowedType == Shapes => \A s \in Sessions : Allowed(s) \in Nat
BY SessionAssumption DEF Shapes, Allowed

----------------------------------------------------------------------------
(* Steps that touch no order. *)

Working == {"claim", "close", "undo", "release"}

LEMMA PaperFrame ==
  ASSUME CheckoutInv, NEW h \in Handlers, NEW c, Continue(h, c),
         call[h].at \notin Working, c.at \notin Working,
         UNCHANGED <<book, orders, use, stray>>
  PROVE  /\ \A o \in Orders : OrderSound(o)' /\ (Settled(o) => Settled(o)')
         /\ \A s : Kept(s)' = Kept(s)
         /\ \A g \in Handlers \ {h} : CallSound(call[g])'
         /\ CallSound(c) => CallSound(call[h])'
         /\ call' = [g \in Handlers |-> call'[g]]
<1>1. /\ call' = [g \in Handlers |-> call'[g]]
      /\ call'[h] = c
      /\ \A g \in Handlers \ {h} : call'[g] = call[g]
  BY Moved DEF CheckoutInv
<1>2. ASSUME NEW o \in Orders
      PROVE  /\ OrderSound(o)' /\ (Settled(o) => Settled(o)')
             /\ Live(o)' <=> Live(o)
             /\ InHand(o)' <=> InHand(o)
  BY <1>1, OrderBeside DEF CheckoutInv, IsWork, Working
<1>3. \A s : Kept(s)' = Kept(s)
  BY <1>2 DEF Kept
<1>4. ASSUME NEW g \in Handlers \ {h} PROVE CallSound(call[g])'
  <2>1. PICK d : d = call[g]
    OBVIOUS
  <2>2. CallSound(d)'
    BY <1>2, <2>1, CallStays DEF CheckoutInv
  <2> QED BY <1>1, <2>1, <2>2
<1>5. ASSUME CallSound(c) PROVE CallSound(call[h])'
  <2>1. CallSound(c)'
    BY <1>2, <1>5, CallStays
  <2> QED BY <1>1, <2>1
<1> QED BY <1>1, <1>2, <1>3, <1>4, <1>5

LEMMA PaperStep ==
  ASSUME CheckoutInv, NEW h \in Handlers, NEW c, Continue(h, c),
         call[h].at \notin Working, c.at \notin Working, CallSound(c),
         UNCHANGED <<session, book, orders, use, stray, reopened>>
  PROVE  CheckoutInv'
<1>1. /\ \A o \in Orders : OrderSound(o)' /\ (Settled(o) => Settled(o)')
      /\ \A s : Kept(s)' = Kept(s)
      /\ \A g \in Handlers : CallSound(call[g])'
      /\ call' = [g \in Handlers |-> call'[g]]
  BY PaperFrame
<1>2. \A s \in Sessions : SessionSound(s)'
  BY <1>1, SessionStays DEF CheckoutInv
<1>3. \A s \in Sessions : CountOK(s)'
  BY <1>1 DEF CheckoutInv, CountOK, Allowed
<1> QED BY <1>1, <1>2, <1>3 DEF CheckoutInv, Shapes

\* The row is replaced by a copy.
LEMMA SaveStep ==
  ASSUME CheckoutInv, NEW h \in Handlers, NEW row, SaveSession(h, row),
         call[h].at \notin Working, call[h].session \in Sessions,
         RowFor(call[h].session, row), SettledAll(row)
  PROVE  CheckoutInv'
<1> DEFINE s == call[h].session
           undone == session[s].status = "completed" /\ row.status # "completed"
<1>1. PICK r \in Sessions : r = s
  OBVIOUS
<1>2. /\ session' = [session EXCEPT ![r] = row]
      /\ reopened' = [reopened EXCEPT ![r] = IF undone THEN @ + 1 ELSE @]
      /\ undone => reopened[r] < MaxReopens
      /\ Continue(h, Idle)
      /\ UNCHANGED <<book, orders, use, stray>>
  BY <1>1 DEF SaveSession, End, ledgerVars
<1>3. CallSound(Idle) /\ Idle.at \notin Working
  BY DEF CallSound, CallShape, CallSettled, CallTimely, Judging, Idle, Working
<1>4. /\ \A o \in Orders : OrderSound(o)' /\ (Settled(o) => Settled(o)')
      /\ \A q : Kept(q)' = Kept(q)
      /\ \A g \in Handlers : CallSound(call[g])'
      /\ call' = [g \in Handlers |-> call'[g]]
  BY <1>2, <1>3, PaperFrame
<1>5. Shapes'
  BY <1>1, <1>2, <1>4, SessionAssumption DEF CheckoutInv, Shapes
<1>6. session'[r] = row /\ \A q \in Sessions \ {r} : session'[q] = session[q]
  BY <1>2 DEF CheckoutInv, Shapes
<1>7. SessionSound(r)'
  BY <1>1, <1>4, <1>6 DEF SessionSound, SettledAll, RowFor, RowSane, SessionRow
<1>8. \A q \in Sessions : SessionSound(q)'
  BY <1>4, <1>6, <1>7, SessionStays DEF CheckoutInv
<1>9. ASSUME NEW q \in Sessions PROVE CountOK(q)'
  <2>1. Allowed(q) <= Allowed(q)'
    <3>1. CASE q = r
      BY <1>1, <1>2, <1>6, <3>1, SessionAssumption DEF Allowed, CheckoutInv, Shapes
    <3>2. CASE q # r
      BY <1>2, <1>6, <3>2, SessionAssumption DEF Allowed, CheckoutInv, Shapes
    <3> QED BY <3>1, <3>2
  <2>2. Allowed(q) \in Nat /\ Allowed(q)' \in Nat
    BY <1>5, AllowedType DEF CheckoutInv, Shapes, Allowed
  <2> QED BY <1>4, <2>1, <2>2, CountStays DEF CheckoutInv
<1> QED BY <1>4, <1>5, <1>8, <1>9 DEF CheckoutInv

----------------------------------------------------------------------------
(* Rows and copies. *)

\* The columns a copy is given, and those it keeps.
Columns(row, status, cart, code, won, order) ==
  /\ row \in SessionRow
  /\ row.status = status /\ row.cart = cart /\ row.code = code
  /\ row.won = won /\ row.order = order

LEMMA CopyColumns ==
  ASSUME NEW row \in SessionRow, NEW cart \in Carts \cup {EmptyCart},
         NEW c \in Codes, NEW n \in Nat, NEW o \in Orders
  PROVE  /\ Columns([row EXCEPT !.cart = cart], row.status, cart, row.code, row.won, row.order)
         /\ Columns([row EXCEPT !.status = "expired"], "expired", row.cart, row.code, row.won, row.order)
         /\ Columns([row EXCEPT !.won = 0], row.status, row.cart, row.code, 0, row.order)
         /\ Columns(Edited(row, cart), row.status, cart, row.code, 0, row.order)
         /\ Columns([row EXCEPT !.code = NoCode, !.won = 0], row.status, row.cart, NoCode, 0, row.order)
         /\ Columns([row EXCEPT !.code = c, !.won = 0], row.status, row.cart, c, 0, row.order)
         /\ Columns([row EXCEPT !.won = n], row.status, row.cart, row.code, n, row.order)
         /\ Columns(Closed(row, o), "completed", row.cart, row.code, row.won, {o})
BY DEF SessionRow, Columns, Edited, Closed

\* A copy without a discount, in a session that is not completed.
LEMMA PlainRow ==
  ASSUME NEW s, NEW status \in {"open", "expired"}, NEW cart \in Carts \cup {EmptyCart},
         NEW code \in Codes \cup {NoCode}, NEW row, Columns(row, status, cart, code, 0, {})
  PROVE  RowFor(s, row)
BY DEF RowFor, RowSane, Columns, Fits

LEMMA AtMostBound ==
  ASSUME NEW n \in Nat, NEW m \in Nat
  PROVE  AtMost(n, m) \in Nat /\ AtMost(n, m) <= n /\ AtMost(n, m) <= m
BY DEF AtMost

\* A code that is accepted earns an amount.
LEMMA EvaluateType ==
  ASSUME NEW code \in Codes, NEW b \in Books, NEW cart \in Carts, NEW q \in QuotesIn(Books, cart),
         NEW answers
  PROVE  Evaluate(Rules[code], Lines(b, q), cart, Fee, answers).won \in Nat
<1> DEFINE rule == Rules[code]
           base == Subtotal(Lines(b, q), cart)
           earned == IF rule.type = "fixed" THEN rule.amount ELSE (base * rule.amount) \div 100
<1>1. base \in Nat /\ rule.amount \in Nat /\ rule.max \in Nat
  BY PriceAssumption
<1>2. base * rule.amount \in Nat
  <2> HIDE DEF base, rule
  <2>1. \A m, n \in Nat : m * n \in Nat
    OBVIOUS
  <2> QED BY <1>1, <2>1
<1>3. (base * rule.amount) \div 100 \in Nat
  <2> HIDE DEF base, rule
  <2>1. \A n \in Nat : n \div 100 \in Nat
    OBVIOUS
  <2> QED BY <1>2, <2>1
<1>4. earned \in Nat
  BY <1>1, <1>3
<1>5. Discount(rule, base) = AtMost(AtMost(earned, rule.max), base)
  BY DEF Discount
<1>6. Discount(rule, base) \in Nat
  <2> HIDE DEF earned, rule, base
  <2>1. AtMost(earned, rule.max) \in Nat
    BY <1>1, <1>4, AtMostBound
  <2> QED BY <1>1, <1>5, <2>1, AtMostBound
<1> QED BY <1>6 DEF Evaluate, Refused

\* A verdict that accepts is what the rule says of the cart.
LEMMA VerdictEarned ==
  ASSUME NEW c, NEW s, NEW q, NEW cart, NEW answers \in Answers, Verdict(c, s, q, cart, answers).ok
  PROVE  /\ Verdict(c, s, q, cart, answers) = Evaluate(Rules[c], Lines(book, q), cart, Fee, answers)
         /\ ~ CatalogFails => answers = TRUE
<1>1. ~ Refused.ok
  BY DEF Refused
<1>2. ~ CatalogFails => answers = TRUE
  BY DEF Answers
<1> QED BY <1>1, <1>2 DEF Verdict

----------------------------------------------------------------------------
(* Quotes. *)

LEMMA NothingQuoted == ASSUME NEW bs, NEW cart PROVE QuotedIn(bs, NoQuotes, cart)
BY DEF QuotedIn, NoQuotes

\* One more line is looked up.
LEMMA LineQuoted ==
  ASSUME NEW bs, NEW cart, NEW seen, QuotedIn(bs, seen, cart), book \in bs, NEW s \in DOMAIN cart
  PROVE  QuotedIn(bs, Quoted(seen, s), cart)
<1>1. PICK new : new = Quoted(seen, s)
  OBVIOUS
<1>2. /\ new = [x \in DOMAIN new |-> new[x]] /\ DOMAIN new = DOMAIN seen \cup {s}
      /\ new[s] = [price |-> book[s].price]
      /\ \A x \in DOMAIN seen \ {s} : new[x] = seen[x]
  BY <1>1 DEF Quoted
<1>3. DOMAIN new \subseteq DOMAIN cart
  BY <1>2 DEF QuotedIn
<1>4. ASSUME NEW x \in DOMAIN new PROVE \E b \in bs : new[x] = [price |-> b[x].price]
  <2>1. CASE x = s
    BY <1>2, <2>1
  <2>2. CASE x # s
    <3>1. x \in DOMAIN seen /\ new[x] = seen[x]
      BY <1>2, <1>4, <2>2
    <3> QED BY <3>1 DEF QuotedIn
  <2> QED BY <2>1, <2>2
<1> QED BY <1>1, <1>2, <1>3, <1>4 DEF QuotedIn

\* Every line has been.
LEMMA AllQuoted ==
  ASSUME NEW bs, NEW cart, NEW seen, QuotedIn(bs, seen, cart), DOMAIN cart \ DOMAIN seen = {}
  PROVE  seen \in QuotesIn(bs, cart)
<1>1. DOMAIN seen = DOMAIN cart /\ seen = [s \in DOMAIN cart |-> seen[s]]
  BY DEF QuotedIn
<1>2. ASSUME NEW s \in DOMAIN cart
      PROVE  /\ seen[s] \in {[price |-> b[x].price] : b \in bs, x \in DOMAIN cart}
             /\ \E b \in bs : seen[s].price = b[s].price
  <2>1. PICK b \in bs : seen[s] = [price |-> b[s].price]
    BY <1>1 DEF QuotedIn
  <2> QED BY <2>1
<1>3. seen \in [DOMAIN cart -> {[price |-> b[s].price] : b \in bs, s \in DOMAIN cart}]
  BY <1>1, <1>2
<1> QED BY <1>2, <1>3 DEF QuotesIn

LEMMA QuotesMore ==
  ASSUME NEW bs, NEW cs, bs \subseteq cs, NEW cart
  PROVE  QuotesIn(bs, cart) \subseteq QuotesIn(cs, cart)
<1> SUFFICES ASSUME NEW q \in QuotesIn(bs, cart) PROVE q \in QuotesIn(cs, cart)
  OBVIOUS
<1>1. {[price |-> b[s].price] : b \in bs, s \in DOMAIN cart}
        \subseteq {[price |-> b[s].price] : b \in cs, s \in DOMAIN cart}
  OBVIOUS
<1>2. q \in [DOMAIN cart -> {[price |-> b[s].price] : b \in cs, s \in DOMAIN cart}]
  <2>1. q \in [DOMAIN cart -> {[price |-> b[s].price] : b \in bs, s \in DOMAIN cart}]
    BY DEF QuotesIn
  <2> QED BY <1>1, <2>1
<1>3. \A s \in DOMAIN cart : \E b \in cs : q[s].price = b[s].price
  BY DEF QuotesIn
<1> QED BY <1>2, <1>3 DEF QuotesIn

\* What was quoted or earned while the catalog was in some states was so
\* while it was in those and another.
LEMMA MoreStates ==
  ASSUME NEW bs, NEW cs, bs \subseteq cs, NEW cart, NEW seen, NEW code, NEW won, NEW tier
  PROVE  /\ QuotedIn(bs, seen, cart) => QuotedIn(cs, seen, cart)
         /\ CodeEarned(bs, code, cart, seen, won) => CodeEarned(cs, code, cart, seen, won)
         /\ Earned(bs, code, cart, won, tier) => Earned(cs, code, cart, won, tier)
<1>1. QuotedIn(bs, seen, cart) => QuotedIn(cs, seen, cart)
  BY DEF QuotedIn
<1>2. CodeEarned(bs, code, cart, seen, won) => CodeEarned(cs, code, cart, seen, won)
  BY DEF CodeEarned
<1>3. ASSUME Earned(bs, code, cart, won, tier) PROVE Earned(cs, code, cart, won, tier)
  <2>1. QuotesIn(bs, cart) \subseteq QuotesIn(cs, cart)
    BY QuotesMore
  <2> QED BY <1>3, <2>1 DEF Earned
<1> QED BY <1>1, <1>2, <1>3

\* What a read makes of a row.
LEMMA AsReadRow ==
  ASSUME CheckoutInv, NEW s \in Sessions, NEW row, RowSane(s, row), SettledAll(row),
         NEW copy, copy = AsRead(row, s)
  PROVE  /\ RowSane(s, copy) /\ SettledAll(copy)
         /\ copy.status # "open" => RowFor(s, copy)
<1>1. PICK r : r = [row EXCEPT !.cart = session[s].cart]
  OBVIOUS
<1>2. session[s].cart \in Carts \cup {EmptyCart}
  BY DEF CheckoutInv, SessionSound, RowFor, RowSane, SessionRow
<1>3. Columns(r, row.status, session[s].cart, row.code, row.won, row.order)
  BY <1>1, <1>2 DEF RowSane, SessionRow, Columns
<1>4. RowSane(s, r)
  BY <1>3 DEF RowSane, Columns
<1>5. \/ copy = r
      \/ r.status = "open" /\ copy = [r EXCEPT !.status = "expired"]
  BY <1>1 DEF AsRead
<1>6. RowSane(s, copy) /\ copy.order = row.order
  <2>1. CASE copy = r
    BY <1>3, <1>4, <2>1 DEF Columns
  <2>2. CASE r.status = "open" /\ copy = [r EXCEPT !.status = "expired"]
    <3>1. Columns(copy, "expired", r.cart, r.code, r.won, r.order)
      BY <1>4, <2>2 DEF RowSane, SessionRow, Columns
    <3> QED BY <1>3, <1>4, <2>2, <3>1 DEF RowSane, Columns
  <2> QED BY <1>5, <2>1, <2>2
<1>7. copy.status # "open" => Fits(copy)
  BY DEF Fits
<1> QED BY <1>6, <1>7 DEF RowFor, SettledAll

----------------------------------------------------------------------------
(* The steps that touch no order, one by one. *)

LEMMA ReadRowKeeps ==
  ASSUME CheckoutInv, NEW h \in Handlers, NEW s \in Sessions, NEW request \in Requests,
         ReadRow(h, s, request)
  PROVE  CheckoutInv'
<1>1. PICK copy : copy = [session[s] EXCEPT !.cart = EmptyCart]
  OBVIOUS
<1>2. RowSane(s, session[s]) /\ SettledAll(session[s])
  BY DEF CheckoutInv, SessionSound, RowFor
<1>3. Columns(copy, session[s].status, EmptyCart, session[s].code, session[s].won, session[s].order)
  BY <1>1, <1>2 DEF RowSane, SessionRow, Columns
<1>4. RowSane(s, copy) /\ SettledAll(copy)
  BY <1>2, <1>3 DEF RowSane, Columns, SettledAll
<1>5. PICK c : c = [at |-> "items", session |-> s, request |-> request, copy |-> copy]
  OBVIOUS
<1>6. /\ Continue(h, c) /\ call[h].at = "idle"
      /\ UNCHANGED <<session, book, orders, use, stray, reopened>>
  BY <1>1, <1>5 DEF ReadRow, OnlyCall, ledgerVars
<1>7. CallSound(c) /\ c.at \notin Working
  BY <1>4, <1>5 DEF CallSound, CallShape, CallSettled, CallTimely, Judging, Working
<1> QED BY <1>6, <1>7, PaperStep DEF Working

LEMMA ReadItemsKeeps ==
  ASSUME CheckoutInv, NEW h \in Handlers, ReadItems(h)
  PROVE  CheckoutInv'
<1>1. PICK r : r = call[h]
  OBVIOUS
<1>2. r.at = "items" /\ r.session \in Sessions /\ r.request \in Requests
      /\ RowSane(r.session, r.copy) /\ SettledAll(r.copy)
  BY <1>1 DEF ReadItems, CheckoutInv, CallSound, CallShape, CallSettled, Idle
<1>3. PICK copy : copy = AsRead(r.copy, r.session)
  OBVIOUS
<1>4. /\ RowSane(r.session, copy) /\ SettledAll(copy)
      /\ copy.status # "open" => RowFor(r.session, copy)
  BY <1>2, <1>3, AsReadRow
<1>5. PICK c : c = IF copy.status = "open" THEN Opened(r.request, r.session, copy)
                   ELSE [at |-> "save", session |-> r.session, copy |-> copy]
  OBVIOUS
<1>6. /\ Continue(h, c)
      /\ UNCHANGED <<session, book, orders, use, stray, reopened>>
  BY <1>1, <1>3, <1>5 DEF ReadItems, OnlyCall, ledgerVars
<1>7. CallSound(c) /\ c.at \notin Working
  <2>1. CASE copy.status # "open"
    BY <1>2, <1>4, <1>5, <2>1 DEF CallSound, CallShape, CallSettled, CallTimely, Judging, Working
  <2>2. CASE copy.status = "open" /\ r.request = "show"
    <3>1. c = Idle
      BY <1>5, <2>2 DEF Opened
    <3> QED BY <3>1 DEF CallSound, CallShape, CallSettled, CallTimely, Judging, Working, Idle
  <2>3. CASE copy.status = "open" /\ r.request = "change"
    <3>1. c = [at |-> "change", session |-> r.session, copy |-> copy]
      BY <1>5, <2>3 DEF Opened
    <3> QED BY <1>2, <1>4, <2>3, <3>1 DEF CallSound, CallShape, CallSettled, CallTimely, Judging, Working
  <2>4. CASE copy.status = "open" /\ r.request = "complete"
    <3>1. PICK plain : plain = [copy EXCEPT !.won = 0]
      OBVIOUS
    <3>2. plain \in SessionRow
      BY <1>4, <3>1 DEF RowSane, SessionRow
    <3>3. c = [at |-> "complete", session |-> r.session, copy |-> plain,
               seen |-> NoQuotes, during |-> {book}]
      BY <1>5, <2>4, <3>1 DEF Opened
    <3>4. JudgingShape(c) /\ c.at = "complete" /\ c.session = r.session /\ c.copy = plain
          /\ c.during = {book} /\ c.seen = NoQuotes
      BY <3>3 DEF JudgingShape
    <3>5. book \in Books
      BY DEF CheckoutInv, Shapes
    <3> QED BY <1>2, <3>2, <3>4, <3>5, NothingQuoted
            DEF CallSound, CallShape, CallSettled, CallTimely, Judging, Working
  <2> QED BY <1>2, <2>1, <2>2, <2>3, <2>4 DEF Requests
<1> QED BY <1>1, <1>2, <1>6, <1>7, PaperStep DEF Working

LEMMA EndPaper ==
  ASSUME CheckoutInv, NEW h \in Handlers, call[h].at \notin Working, End(h), OnlyCall
  PROVE  CheckoutInv'
<1>1. CallSound(Idle) /\ Idle.at \notin Working
  BY DEF CallSound, CallShape, CallSettled, CallTimely, Judging, Idle, Working
<1> QED BY <1>1, PaperStep DEF End, OnlyCall, ledgerVars

LEMMA SaveBackKeeps ==
  ASSUME CheckoutInv, NEW h \in Handlers, SaveBack(h)
  PROVE  CheckoutInv'
<1>1. call[h].at = "save" /\ CallSound(call[h])
  BY DEF SaveBack, CheckoutInv
<1>2. call[h].session \in Sessions /\ RowFor(call[h].session, call[h].copy) /\ SettledAll(call[h].copy)
  BY <1>1 DEF CallSound, CallShape, CallSettled, CallTimely, Judging, Idle
<1> QED BY <1>1, <1>2, SaveStep DEF SaveBack, Working

\* A request is given a quote.
LEMMA SeenSet ==
  ASSUME NEW c, NEW q, PricingShape(c) \/ JudgingShape(c) \/ PlacingShape(c),
         NEW d, d = [c EXCEPT !.seen = q]
  PROVE  /\ d.at = c.at /\ d.session = c.session /\ d.copy = c.copy /\ d.seen = q
         /\ PricingShape(c) => PricingShape(d)
         /\ JudgingShape(c) => JudgingShape(d) /\ d.during = c.during
         /\ PlacingShape(c) => PlacingShape(d) /\ d.during = c.during /\ d.tier = c.tier
<1>1. CASE PricingShape(c)
  <2>1. d = [at |-> c.at, session |-> c.session, copy |-> c.copy, seen |-> q]
    BY <1>1 DEF PricingShape
  <2>2. ~ JudgingShape(c) /\ ~ PlacingShape(c)
    <3>1. DOMAIN c = {"at", "session", "copy", "seen"}
      BY <1>1 DEF PricingShape
    <3>2. JudgingShape(c) => "during" \in DOMAIN c
      BY DEF JudgingShape
    <3>3. PlacingShape(c) => "during" \in DOMAIN c
      BY DEF PlacingShape
    <3> QED BY <3>1, <3>2, <3>3
  <2> QED BY <2>1, <2>2 DEF PricingShape
<1>2. CASE JudgingShape(c)
  <2>1. d = [at |-> c.at, session |-> c.session, copy |-> c.copy, seen |-> q, during |-> c.during]
    BY <1>2 DEF JudgingShape
  <2>2. ~ PricingShape(c) /\ ~ PlacingShape(c)
    <3>1. DOMAIN c = {"at", "session", "copy", "seen", "during"}
      BY <1>2 DEF JudgingShape
    <3>2. PricingShape(c) => "during" \notin DOMAIN c
      BY DEF PricingShape
    <3>3. PlacingShape(c) => "tier" \in DOMAIN c
      BY DEF PlacingShape
    <3> QED BY <3>1, <3>2, <3>3
  <2> QED BY <2>1, <2>2 DEF JudgingShape
<1>3. CASE PlacingShape(c)
  <2>1. d = [at |-> c.at, session |-> c.session, copy |-> c.copy, during |-> c.during,
             tier |-> c.tier, sent |-> c.sent, seen |-> q]
    BY <1>3 DEF PlacingShape
  <2>2. ~ PricingShape(c) /\ ~ JudgingShape(c)
    <3>1. "tier" \in DOMAIN c
      BY <1>3 DEF PlacingShape
    <3>2. PricingShape(c) => "tier" \notin DOMAIN c
      BY DEF PricingShape
    <3>3. JudgingShape(c) => "tier" \notin DOMAIN c
      BY DEF JudgingShape
    <3> QED BY <3>1, <3>2, <3>3
  <2> QED BY <2>1, <2>2 DEF PlacingShape
<1> QED BY <1>1, <1>2, <1>3

LEMMA PriceLineKeeps ==
  ASSUME CheckoutInv, NEW h \in Handlers, PriceLine(h)
  PROVE  CheckoutInv'
<1>1. PICK c : c = call[h]
  OBVIOUS
<1>2. PICK s : s = CHOOSE x \in Unpriced(c) : TRUE
  OBVIOUS
<1>3. /\ c.at \in {"edit", "apply", "complete", "place"} /\ Unpriced(c) # {}
      /\ OnlyCall
  BY <1>1 DEF PriceLine
<1>4. s \in DOMAIN c.copy.cart
  BY <1>2, <1>3 DEF Unpriced
<1>5. PICK q : q = Quoted(c.seen, s)
  OBVIOUS
<1>6. PICK d : d = [c EXCEPT !.seen = q]
  OBVIOUS
<1>7. Continue(h, d)
  BY <1>1, <1>2, <1>5, <1>6 DEF PriceLine
<1>8. CallShape(c) /\ CallTimely(c)
  BY <1>1 DEF CheckoutInv, CallSound
<1>9. book \in Books
  BY DEF CheckoutInv, Shapes
<1>10. CallSound(d) /\ d.at = c.at
  <2>1. CASE c.at \in {"edit", "apply"}
    <3>1. /\ c.session \in Sessions /\ PricingShape(c)
          /\ RowSane(c.session, c.copy) /\ c.copy.status = "open" /\ c.copy.won = 0
          /\ c.at = "apply" => /\ c.copy.code \in Codes /\ c.copy.cart \in Carts
                               /\ QuotedIn(Books, c.seen, c.copy.cart)
      BY <1>8, <2>1 DEF CallShape, Idle
    <3>2. d.at = c.at /\ d.session = c.session /\ d.copy = c.copy /\ d.seen = q /\ PricingShape(d)
      BY <1>6, <3>1, SeenSet
    <3>3. c.at = "apply" => QuotedIn(Books, q, c.copy.cart)
      BY <1>4, <1>5, <1>9, <3>1, LineQuoted
    <3> QED BY <2>1, <3>1, <3>2, <3>3 DEF CallSound, CallShape, CallSettled, CallTimely, Judging
  <2>2. CASE c.at = "complete"
    <3>1. /\ c.session \in Sessions /\ JudgingShape(c)
          /\ c.copy \in SessionRow /\ c.during \subseteq Books
          /\ QuotedIn(c.during, c.seen, c.copy.cart)
      BY <1>8, <2>2 DEF CallShape, Idle
    <3>2. book \in c.during
      BY <1>8, <2>2 DEF CallTimely, Judging
    <3>3. d.at = c.at /\ d.session = c.session /\ d.copy = c.copy /\ d.seen = q /\ JudgingShape(d)
          /\ d.during = c.during
      BY <1>6, <3>1, SeenSet
    <3>4. QuotedIn(c.during, q, c.copy.cart)
      BY <1>4, <1>5, <3>1, <3>2, LineQuoted
    <3> QED BY <2>2, <3>1, <3>2, <3>3, <3>4 DEF CallSound, CallShape, CallSettled, CallTimely, Judging
  <2>3. CASE c.at = "place"
    <3>1. /\ c.session \in Sessions /\ PlacingShape(c)
          /\ c.copy.code \in Codes \cup {NoCode} /\ c.during \subseteq Books
          /\ ~ CatalogFails => Earned(c.during, c.copy.code, c.copy.cart, c.copy.won, c.tier)
      BY <1>8, <2>3 DEF CallShape, Idle
    <3>2. book \in c.during
      BY <1>8, <2>3 DEF CallTimely, Judging
    <3>3. d.at = c.at /\ d.session = c.session /\ d.copy = c.copy /\ PlacingShape(d)
          /\ d.during = c.during /\ d.tier = c.tier
      BY <1>6, <3>1, SeenSet
    <3> QED BY <2>3, <3>1, <3>2, <3>3 DEF CallSound, CallShape, CallSettled, CallTimely, Judging
  <2> QED BY <1>3, <2>1, <2>2, <2>3
<1> QED BY <1>1, <1>3, <1>7, <1>10, PaperStep DEF Working, OnlyCall, ledgerVars

\* A copy in a request that changes it.
LEMMA ChangedCopy ==
  ASSUME CheckoutInv, NEW h \in Handlers, call[h].at \in {"change", "edit", "apply"}
  PROVE  /\ call[h].session \in Sessions
         /\ RowSane(call[h].session, call[h].copy)
         /\ call[h].copy \in SessionRow
         /\ call[h].copy.status = "open" /\ call[h].copy.order = {}
         /\ call[h].copy.cart \in Carts \cup {EmptyCart}
         /\ call[h].copy.code \in Codes \cup {NoCode}
         /\ call[h].at \in {"edit", "apply"} => call[h].copy.won = 0
BY DEF CheckoutInv, CallSound, CallShape, RowSane, SessionRow, Idle

LEMMA EditItemsKeeps ==
  ASSUME CheckoutInv, NEW h \in Handlers, NEW cart \in Carts \cup {EmptyCart}, EditItems(h, cart)
  PROVE  CheckoutInv'
<1>1. PICK row : row = Edited(call[h].copy, cart)
  OBVIOUS
<1>2. PICK kept : kept = {s \in DOMAIN cart : s \in DOMAIN call[h].copy.cart /\ cart[s] = call[h].copy.cart[s]}
  OBVIOUS
<1>3. PICK c : c = [at |-> "edit", session |-> call[h].session, copy |-> row,
                    seen |-> [s \in kept |-> [price |-> 0]]]
  OBVIOUS
<1>4. call[h].at = "change" /\ Continue(h, c) /\ OnlyCall
  BY <1>1, <1>2, <1>3 DEF EditItems
<1>5. Columns(row, "open", cart, call[h].copy.code, 0, {})
  BY <1>1, <1>4, ChangedCopy DEF Edited, SessionRow, Columns
<1>6. RowSane(call[h].session, row) /\ row.status = "open" /\ row.won = 0
  BY <1>5 DEF Columns, RowSane
<1>7. PricingShape(c) /\ c.at = "edit" /\ c.session = call[h].session /\ c.copy = row
  BY <1>3 DEF PricingShape
<1>8. CallSound(c) /\ c.at \notin Working
  BY <1>4, <1>6, <1>7, ChangedCopy DEF CallSound, CallShape, CallSettled, CallTimely, Judging, Working
<1> QED BY <1>4, <1>8, PaperStep DEF Working, OnlyCall, ledgerVars

LEMMA SaveItemsKeeps ==
  ASSUME CheckoutInv, NEW h \in Handlers, SaveItems(h)
  PROVE  CheckoutInv'
<1>1. call[h].at = "edit" /\ SaveSession(h, call[h].copy)
  BY DEF SaveItems
<1>2. PICK row : row = call[h].copy
  OBVIOUS
<1>3. RowSane(call[h].session, row) /\ row.won = 0 /\ row.order = {}
  BY <1>1, <1>2, ChangedCopy
<1>4. ~ (row.won > 0)
  BY <1>3
<1>5. RowFor(call[h].session, row) /\ SettledAll(row)
  BY <1>3, <1>4 DEF RowFor, Fits, SettledAll
<1> QED BY <1>1, <1>2, <1>5, ChangedCopy, SaveStep DEF Working

LEMMA ClearPromotionKeeps ==
  ASSUME CheckoutInv, NEW h \in Handlers, ClearPromotion(h)
  PROVE  CheckoutInv'
<1>1. PICK row : row = [call[h].copy EXCEPT !.code = NoCode, !.won = 0]
  OBVIOUS
<1>2. call[h].at = "change" /\ SaveSession(h, row)
  BY <1>1 DEF ClearPromotion
<1>3. Columns(row, "open", call[h].copy.cart, NoCode, 0, {})
  BY <1>1, <1>2, ChangedCopy DEF SessionRow, Columns
<1>4. RowFor(call[h].session, row) /\ SettledAll(row)
  BY <1>2, <1>3, ChangedCopy, PlainRow DEF Columns, SettledAll
<1> QED BY <1>2, <1>4, ChangedCopy, SaveStep DEF Working

LEMMA EnterCodeKeeps ==
  ASSUME CheckoutInv, NEW h \in Handlers, NEW code \in Codes, EnterCode(h, code)
  PROVE  CheckoutInv'
<1>1. PICK row : row = [call[h].copy EXCEPT !.code = code, !.won = 0]
  OBVIOUS
<1>2. PICK c : c = [at |-> "apply", session |-> call[h].session, copy |-> row, seen |-> NoQuotes]
  OBVIOUS
<1>3. call[h].at = "change" /\ DOMAIN call[h].copy.cart # {} /\ Continue(h, c) /\ OnlyCall
  BY <1>1, <1>2 DEF EnterCode
<1>4. Columns(row, "open", call[h].copy.cart, code, 0, {})
  BY <1>1, <1>3, ChangedCopy DEF SessionRow, Columns
<1>5. RowSane(call[h].session, row) /\ row.status = "open" /\ row.won = 0 /\ row.code \in Codes
  BY <1>4 DEF Columns, RowSane
<1>6. row.cart \in Carts
  BY <1>3, <1>4, ChangedCopy DEF EmptyCart, Columns
<1>7. PricingShape(c) /\ c.at = "apply" /\ c.session = call[h].session /\ c.copy = row /\ c.seen = NoQuotes
  BY <1>2 DEF PricingShape
<1>8. CallSound(c) /\ c.at \notin Working
  BY <1>3, <1>5, <1>6, <1>7, ChangedCopy, NothingQuoted
     DEF CallSound, CallShape, CallSettled, CallTimely, Judging, Working
<1> QED BY <1>3, <1>8, PaperStep DEF Working, OnlyCall, ledgerVars

LEMMA ApplyPromotionKeeps ==
  ASSUME CheckoutInv, NEW h \in Handlers, NEW answers \in Answers, NEW stored,
         ApplyPromotion(h, answers, stored)
  PROVE  CheckoutInv'
<1> DEFINE copy == call[h].copy
           s == call[h].session
           q == call[h].seen
           worth == Subtotal(stored, copy.cart)
<1>1. PICK verdict : verdict = Verdict(copy.code, s, q, copy.cart, answers)
  OBVIOUS
<1>2. PICK n : n = AtMost(verdict.won, worth)
  OBVIOUS
<1>3. PICK row : row = [copy EXCEPT !.won = n]
  OBVIOUS
<1>4. /\ call[h].at = "apply" /\ Unpriced(call[h]) = {} /\ verdict.ok
      /\ stored \in QuotesIn(Books, copy.cart)
      /\ Continue(h, [at |-> "save", session |-> s, copy |-> row])
      /\ OnlyCall
  BY <1>1, <1>2, <1>3 DEF ApplyPromotion
<1>5. copy.code \in Codes /\ copy.cart \in Carts /\ QuotedIn(Books, q, copy.cart)
  BY <1>4 DEF CheckoutInv, CallSound, CallShape, Idle
<1>6. q \in QuotesIn(Books, copy.cart)
  BY <1>4, <1>5, AllQuoted DEF Unpriced
<1>7. verdict = Evaluate(Rules[copy.code], Lines(book, q), copy.cart, Fee, answers)
      /\ (~ CatalogFails => answers = TRUE)
  BY <1>1, <1>4, VerdictEarned
<1>8. book \in Books
  BY DEF CheckoutInv, Shapes
<1>9. verdict.won \in Nat /\ worth \in Nat
  <2>1. verdict.won \in Nat
    BY <1>5, <1>6, <1>7, <1>8, EvaluateType
  <2>2. worth \in Nat
    BY <1>4, <1>5, <1>8, PriceAssumption
  <2> QED BY <2>1, <2>2
<1>10. n \in Nat /\ n <= verdict.won
  BY <1>2, <1>9, AtMostBound
<1>11. Columns(row, "open", copy.cart, copy.code, n, {})
  BY <1>3, <1>4, <1>10, ChangedCopy DEF SessionRow, Columns
<1>12. ~ CatalogFails => Fits(row)
  <2>1. copy.code # NoCode
    BY <1>5, SessionAssumption
  <2> QED BY <1>4, <1>6, <1>7, <1>8, <1>10, <1>11, <2>1 DEF Columns, Fits
<1>13. RowFor(s, row) /\ SettledAll(row)
  BY <1>11, <1>12 DEF Columns, RowFor, RowSane, SettledAll
<1>14. PICK d : d = [at |-> "save", session |-> s, copy |-> row]
  OBVIOUS
<1>15. CallSound(d) /\ d.at \notin Working
  BY <1>4, <1>13, <1>14, ChangedCopy DEF CallSound, CallShape, CallSettled, CallTimely, Judging, Working
<1> QED BY <1>4, <1>14, <1>15, PaperStep DEF Working, OnlyCall, ledgerVars

LEMMA JudgeCodeKeeps ==
  ASSUME CheckoutInv, NEW h \in Handlers, NEW answers \in Answers, JudgeCode(h, answers)
  PROVE  CheckoutInv'
<1>1. PICK c : c = call[h]
  OBVIOUS
<1>2. PICK verdict : verdict = CodeVerdict(h, answers)
  OBVIOUS
<1>3. PICK row : row = [c.copy EXCEPT !.won = verdict.won]
  OBVIOUS
<1>4. PICK d : d = [at |-> "tier", session |-> c.session, copy |-> row, seen |-> c.seen, during |-> c.during]
  OBVIOUS
<1>5. c.at = "complete" /\ Unpriced(c) = {} /\ verdict.ok /\ OnlyCall
  BY <1>1, <1>2 DEF JudgeCode
<1>6. /\ c.session \in Sessions /\ JudgingShape(c)
      /\ c.copy \in SessionRow /\ c.during \subseteq Books
      /\ QuotedIn(c.during, c.seen, c.copy.cart)
      /\ book \in c.during
  BY <1>1, <1>5 DEF CheckoutInv, CallSound, CallShape, CallTimely, Judging, Idle
<1>7. Continue(h, d)
  <2>1. [c EXCEPT !.at = "tier", !.copy.won = verdict.won] = d
    <3>1. [c EXCEPT !.at = "tier", !.copy.won = verdict.won] = [c EXCEPT !.at = "tier", !.copy = row]
      BY <1>3, <1>6 DEF JudgingShape
    <3>2. [c EXCEPT !.at = "tier", !.copy = row] = d
      <4>1. PICK e : e = [c EXCEPT !.at = "tier"]
        OBVIOUS
      <4>2. e = [at |-> "tier", session |-> c.session, copy |-> c.copy, seen |-> c.seen, during |-> c.during]
        BY <1>6, <4>1 DEF JudgingShape
      <4>3. [e EXCEPT !.copy = row]
              = [at |-> "tier", session |-> c.session, copy |-> row, seen |-> c.seen, during |-> c.during]
        BY <4>2
      <4>4. [c EXCEPT !.at = "tier", !.copy = row] = [e EXCEPT !.copy = row]
        BY <4>1
      <4> QED BY <1>4, <4>3, <4>4
    <3> QED BY <3>1, <3>2
  <2>2. Continue(h, [c EXCEPT !.at = "tier", !.copy.won = verdict.won])
    BY <1>1, <1>2 DEF JudgeCode
  <2> QED BY <2>1, <2>2
<1>8. row.code = c.copy.code /\ row.cart = c.copy.cart /\ row.won = verdict.won
      /\ row.code \in Codes \cup {NoCode}
  BY <1>3, <1>6 DEF SessionRow
<1>9. c.seen \in QuotesIn(c.during, c.copy.cart)
  BY <1>5, <1>6, AllQuoted DEF Unpriced
<1>10. ~ CatalogFails => CodeEarned(c.during, c.copy.code, c.copy.cart, c.seen, verdict.won)
  <2>1. ~ CatalogFails => answers = TRUE
    BY DEF Answers
  <2>2. /\ c.copy.code = NoCode => verdict = NoVerdict
        /\ c.copy.code # NoCode =>
             verdict = Evaluate(Rules[c.copy.code], Lines(book, c.seen), c.copy.cart, Fee, answers)
    <3>1. CASE c.copy.code = NoCode
      BY <1>1, <1>2, <3>1 DEF CodeVerdict
    <3>2. CASE c.copy.code # NoCode
      <4>1. verdict = Verdict(c.copy.code, c.session, c.seen, c.copy.cart, answers)
        BY <1>1, <1>2, <3>2 DEF CodeVerdict
      <4>2. Verdict(c.copy.code, c.session, c.seen, c.copy.cart, answers).ok
        BY <1>5, <4>1
      <4>3. Verdict(c.copy.code, c.session, c.seen, c.copy.cart, answers)
              = Evaluate(Rules[c.copy.code], Lines(book, c.seen), c.copy.cart, Fee, answers)
        BY <4>2, VerdictEarned
      <4> QED BY <3>2, <4>1, <4>3
    <3> QED BY <3>1, <3>2
  <2> QED BY <1>5, <1>6, <2>1, <2>2 DEF CodeEarned
<1>11. d.at = "tier" /\ d.session = c.session /\ d.copy = row /\ d.seen = c.seen /\ d.during = c.during
       /\ JudgingShape(d)
  BY <1>4 DEF JudgingShape
<1>12. CallSound(d) /\ d.at \notin Working
  BY <1>6, <1>8, <1>9, <1>10, <1>11 DEF CallSound, CallShape, CallSettled, CallTimely, Judging, Working
<1> QED BY <1>1, <1>5, <1>7, <1>12, PaperStep DEF Working, OnlyCall, ledgerVars

LEMMA JudgeTierKeeps ==
  ASSUME CheckoutInv, NEW h \in Handlers, NEW answers \in Answers, JudgeTier(h, answers)
  PROVE  CheckoutInv'
<1>1. PICK c : c = call[h]
  OBVIOUS
<1>2. PICK tier : tier = AtMost(BestTier(Tiers, Lines(book, c.seen), c.copy.cart, Fee, answers),
                                Subtotal(c.seen, c.copy.cart) - c.copy.won)
  OBVIOUS
<1>3. PICK d : d = [at |-> "place", session |-> c.session, copy |-> c.copy, during |-> c.during,
                    tier |-> tier, sent |-> c.seen, seen |-> NoQuotes]
  OBVIOUS
<1>4. c.at = "tier" /\ Continue(h, d) /\ OnlyCall
  BY <1>1, <1>2, <1>3 DEF JudgeTier
<1>5. /\ c.session \in Sessions
      /\ c.copy.code \in Codes \cup {NoCode} /\ c.during \subseteq Books
      /\ c.seen \in QuotesIn(c.during, c.copy.cart)
      /\ ~ CatalogFails => CodeEarned(c.during, c.copy.code, c.copy.cart, c.seen, c.copy.won)
      /\ book \in c.during
  BY <1>1, <1>4 DEF CheckoutInv, CallSound, CallShape, CallTimely, Judging, Idle
<1>6. ASSUME ~ CatalogFails PROVE Earned(c.during, c.copy.code, c.copy.cart, c.copy.won, tier)
  <2>1. answers = TRUE
    BY <1>6 DEF Answers
  <2>2. PICK b \in c.during :
          LET verdict == IF c.copy.code = NoCode THEN NoVerdict
                         ELSE Evaluate(Rules[c.copy.code], Lines(b, c.seen), c.copy.cart, Fee, TRUE)
          IN  verdict.ok /\ c.copy.won = verdict.won
    BY <1>5, <1>6 DEF CodeEarned
  <2>3. PICK verdict : verdict = IF c.copy.code = NoCode THEN NoVerdict
                                 ELSE Evaluate(Rules[c.copy.code], Lines(b, c.seen), c.copy.cart, Fee, TRUE)
    OBVIOUS
  <2>4. verdict.ok /\ c.copy.won = verdict.won
    BY <2>2, <2>3
  <2>5. tier = AtMost(BestTier(Tiers, Lines(book, c.seen), c.copy.cart, Fee, TRUE),
                      Subtotal(c.seen, c.copy.cart) - verdict.won)
    BY <1>2, <2>1, <2>4
  <2> QED BY <1>5, <2>3, <2>4, <2>5 DEF Earned
<1>7. d.at = "place" /\ d.session = c.session /\ d.copy = c.copy /\ d.during = c.during /\ d.tier = tier
      /\ PlacingShape(d)
  BY <1>3 DEF PlacingShape
<1>8. CallSound(d) /\ d.at \notin Working
  BY <1>5, <1>6, <1>7 DEF CallSound, CallShape, CallSettled, CallTimely, Judging, Working
<1> QED BY <1>1, <1>4, <1>8, PaperStep DEF Working, OnlyCall, ledgerVars

\* The catalog changes under the requests.
LEMMA SinceSound ==
  ASSUME NEW c, CallShape(c), CallTimely(c), NEW b \in Books, book' = b, NEW d, d = Since(c, b)
  PROVE  /\ CallShape(d) /\ CallTimely(d)'
         /\ c.at \notin Judging => d = c
         /\ d.at = c.at
<1>1. CASE c.at \notin Judging
  BY <1>1 DEF Since, CallTimely
<1>2. CASE c.at \in {"complete", "tier"}
  <2>1. /\ c.session \in Sessions /\ JudgingShape(c) /\ c.during \subseteq Books
    BY <1>2 DEF CallShape, Idle
  <2>2. d = [at |-> c.at, session |-> c.session, copy |-> c.copy, seen |-> c.seen,
             during |-> c.during \cup {b}]
    <3>1. d = [c EXCEPT !.during = c.during \cup {b}]
      BY <1>2 DEF Since, Judging
    <3> QED BY <2>1, <3>1 DEF JudgingShape
  <2>3. /\ d.at = c.at /\ d.session = c.session /\ d.copy = c.copy /\ d.seen = c.seen
        /\ d.during = c.during \cup {b} /\ JudgingShape(d)
    BY <2>2 DEF JudgingShape
  <2>4. c.during \subseteq d.during /\ d.during \subseteq Books
    BY <2>1, <2>3
  <2>5. QuotesIn(c.during, c.copy.cart) \subseteq QuotesIn(d.during, c.copy.cart)
    BY <2>4, QuotesMore
  <2>6. /\ QuotedIn(c.during, c.seen, c.copy.cart) => QuotedIn(d.during, c.seen, c.copy.cart)
        /\ CodeEarned(c.during, c.copy.code, c.copy.cart, c.seen, c.copy.won)
             => CodeEarned(d.during, c.copy.code, c.copy.cart, c.seen, c.copy.won)
    BY <2>4, MoreStates
  <2>7. CallShape(d)
    <3>1. CASE c.at = "complete"
      BY <2>1, <2>3, <2>4, <2>6, <3>1 DEF CallShape, Idle
    <3>2. CASE c.at = "tier"
      BY <2>1, <2>3, <2>4, <2>5, <2>6, <3>2 DEF CallShape, Idle
    <3> QED BY <1>2, <3>1, <3>2
  <2>8. CallTimely(d)'
    BY <2>3 DEF CallTimely
  <2> QED BY <1>2, <2>3, <2>7, <2>8 DEF Judging
<1>3. CASE c.at = "place"
  <2>1. /\ c.session \in Sessions /\ PlacingShape(c) /\ c.during \subseteq Books
        /\ c.copy.code \in Codes \cup {NoCode}
        /\ ~ CatalogFails => Earned(c.during, c.copy.code, c.copy.cart, c.copy.won, c.tier)
    BY <1>3 DEF CallShape, Idle
  <2>2. d = [at |-> c.at, session |-> c.session, copy |-> c.copy, during |-> c.during \cup {b},
             tier |-> c.tier, sent |-> c.sent, seen |-> c.seen]
    <3>1. d = [c EXCEPT !.during = c.during \cup {b}]
      BY <1>3 DEF Since, Judging
    <3> QED BY <2>1, <3>1 DEF PlacingShape
  <2>3. /\ d.at = c.at /\ d.session = c.session /\ d.copy = c.copy /\ d.tier = c.tier
        /\ d.during = c.during \cup {b} /\ PlacingShape(d)
    BY <2>2 DEF PlacingShape
  <2>4. c.during \subseteq d.during /\ d.during \subseteq Books
    BY <2>1, <2>3
  <2>5. Earned(c.during, c.copy.code, c.copy.cart, c.copy.won, c.tier)
          => Earned(d.during, c.copy.code, c.copy.cart, c.copy.won, c.tier)
    BY <2>4, MoreStates
  <2>6. CallShape(d)
    BY <1>3, <2>1, <2>3, <2>4, <2>5 DEF CallShape
  <2>7. CallTimely(d)'
    BY <2>3 DEF CallTimely
  <2> QED BY <1>3, <2>3, <2>6, <2>7 DEF Judging
<1> QED BY <1>1, <1>2, <1>3 DEF Judging

LEMMA ChangeCatalogKeeps ==
  ASSUME CheckoutInv, NEW b \in Books, ChangeCatalog(b)
  PROVE  CheckoutInv'
<1>1. /\ book' = b /\ call' = [h \in Handlers |-> Since(call[h], b)]
      /\ UNCHANGED <<session, orders, stray, reopened, use>>
  BY DEF ChangeCatalog, ledgerVars
<1>2. ASSUME NEW h \in Handlers
      PROVE  /\ CallShape(call'[h]) /\ CallTimely(call[h])'
             /\ call[h].at \notin Judging => call'[h] = call[h]
             /\ call'[h].at = call[h].at
  <2>1. PICK c : c = call[h]
    OBVIOUS
  <2>2. PICK d : d = Since(c, b)
    OBVIOUS
  <2>3. CallShape(c) /\ CallTimely(c)
    BY <2>1 DEF CheckoutInv, CallSound
  <2>4. /\ CallShape(d) /\ CallTimely(d)'
        /\ c.at \notin Judging => d = c
        /\ d.at = c.at
    BY <1>1, <2>2, <2>3, SinceSound
  <2>5. call'[h] = d
    BY <1>1, <2>1, <2>2
  <2> QED BY <2>1, <2>4, <2>5 DEF CallTimely
<1>3. ASSUME NEW o \in Orders
      PROVE  /\ OrderSound(o)' /\ (Settled(o) => Settled(o)')
             /\ Live(o)' <=> Live(o)
             /\ InHand(o)' <=> InHand(o)
  <2>1. ASSUME NEW g \in Handlers
        PROVE  /\ IsWork(call[g], o)' <=> IsWork(call[g], o)
               /\ IsWork(call[g], o) => call'[g] = call[g]
    <3>1. CASE call[g].at \in Judging
      BY <1>2, <3>1 DEF IsWork, Judging
    <3>2. CASE call[g].at \notin Judging
      BY <1>2, <3>2 DEF IsWork
    <3> QED BY <3>1, <3>2
  <2> QED BY <1>1, <2>1, OrderAside DEF CheckoutInv
<1>4. \A s : Kept(s)' = Kept(s)
  BY <1>1, <1>3 DEF Kept
<1>5. ASSUME NEW h \in Handlers PROVE CallSound(call[h])'
  <2>1. CASE call[h].at \in Judging
    BY <1>2, <2>1 DEF CallSound, CallSettled, Judging
  <2>2. CASE call[h].at \notin Judging
    <3>1. PICK c : c = call[h]
      OBVIOUS
    <3>2. CallSettled(c)'
      BY <1>3, <3>1, SettledStays DEF CheckoutInv, CallSound
    <3> QED BY <1>2, <2>2, <3>1, <3>2 DEF CallSound, CallSettled
  <2> QED BY <2>1, <2>2
<1>6. \A s \in Sessions : SessionSound(s)' /\ CountOK(s)'
  BY <1>1, <1>3, <1>4, SessionStays DEF CheckoutInv, CountOK, Allowed
<1> QED BY <1>1, <1>3, <1>5, <1>6 DEF CheckoutInv, Shapes

LEMMA PlainSteps ==
  ASSUME CheckoutInv
  PROVE  /\ \A h \in Handlers : Refuse(h) => CheckoutInv'
         /\ \A s \in Sessions : Lapse(s) => CheckoutInv'
         /\ UNCHANGED <<session, book, orders, call, stray, reopened, use>> => CheckoutInv'
<1>1. ASSUME NEW h \in Handlers, Refuse(h) PROVE CheckoutInv'
  BY <1>1, EndPaper DEF Refuse, Working, Judging
<1>2. ASSUME UNCHANGED <<session, book, orders, call, stray, reopened, use>> PROVE CheckoutInv'
  <2>1. \A o \in Orders : OrderSound(o)' /\ (Settled(o) => Settled(o)')
    BY <1>2 DEF CheckoutInv, OrderSound, WorkedOnce, WorkSound, UseSound, Settled, Worked,
                Live, HoldsCode, IsActive
  <2>2. \A s : Kept(s)' = Kept(s)
    BY <1>2 DEF Kept, Live, InHand
  <2>3. \A h \in Handlers : CallSound(call[h])'
    <3>1. ASSUME NEW c PROVE CallSound(c) => CallSound(c)'
      BY <1>2, <2>1, CallStays
    <3> QED BY <1>2, <3>1 DEF CheckoutInv
  <2>4. \A s \in Sessions : SessionSound(s)' /\ CountOK(s)'
    BY <1>2, <2>1, <2>2, SessionStays DEF CheckoutInv, CountOK, Allowed
  <2> QED BY <1>2, <2>1, <2>3, <2>4 DEF CheckoutInv, Shapes
<1>3. ASSUME NEW s \in Sessions, Lapse(s) PROVE CheckoutInv'
  BY <1>2, <1>3 DEF Lapse, ledgerVars
<1> QED BY <1>1, <1>2, <1>3

----------------------------------------------------------------------------
(* Steps of a request that works on an order. *)

UseRow == [status : {"none", "reserved", "released"}, code : Codes \cup {NoCode}]

\* What such a step has to show of its order, the rest follows.
OrderStep(h, c, o) ==
  /\ Continue(h, c)
  /\ orders' = [q \in Orders |-> orders'[q]] /\ use' = [q \in Orders |-> use'[q]]
  /\ \A q \in Orders \ {o} : orders'[q] = orders[q] /\ use'[q] = use[q] /\ (q \in stray' <=> q \in stray)
  /\ \A q \in Orders \ {o} : ~ IsWork(call[h], q) /\ ~ IsWork(c, q)
  /\ IsWork(call[h], o) \/ ~ Worked(o)
  /\ CallShape(c) /\ c.at \in Working \cup {"idle"}
  /\ OrderRow(orders'[o]) /\ use'[o] \in UseRow
  /\ IsWork(c, o) => WorkSound(c, o)'
  /\ IsActive(o)' => \/ Live(o)'
                     \/ o \in stray'
                     \/ c.at \in {"undo", "release"} /\ IsWork(c, o)
  /\ Settled(o) => Settled(o)'
  /\ UNCHANGED book

LEMMA OrderFrame ==
  ASSUME CheckoutInv, NEW h \in Handlers, NEW c, NEW o \in Orders, OrderStep(h, c, o)
  PROVE  /\ \A q \in Orders : OrderSound(q)' /\ (Settled(q) => Settled(q)')
         /\ \A g \in Handlers : CallSound(call[g])'
         /\ call' = [g \in Handlers |-> call'[g]]
         /\ call'[h] = c
         /\ \A g \in Handlers : IsWork(call'[g], o) => g = h
         /\ \A q \in Orders \ {o} : (Live(q)' <=> Live(q)) /\ (InHand(q)' <=> InHand(q))
<1>1. /\ call' = [g \in Handlers |-> call'[g]]
      /\ call'[h] = c
      /\ \A g \in Handlers \ {h} : call'[g] = call[g]
  BY Moved DEF CheckoutInv, OrderStep
<1>2. ASSUME NEW q \in Orders \ {o}
      PROVE  /\ OrderSound(q)' /\ (Settled(q) => Settled(q)')
             /\ Live(q)' <=> Live(q)
             /\ InHand(q)' <=> InHand(q)
  BY <1>1, OrderBeside DEF CheckoutInv, OrderStep
<1>3. \A g \in Handlers : IsWork(call'[g], o) => g = h
  <2>1. ASSUME NEW g \in Handlers, g # h PROVE ~ IsWork(call[g], o)
    BY <2>1 DEF CheckoutInv, OrderSound, WorkedOnce, OrderStep, Worked
  <2> QED BY <1>1, <2>1
<1>4. OrderSound(o)'
  <2>1. WorkedOnce(o)'
    BY <1>3 DEF WorkedOnce
  <2>2. ASSUME NEW g \in Handlers, IsWork(call'[g], o) PROVE WorkSound(call[g], o)'
    <3>1. g = h /\ call'[g] = c
      BY <1>1, <1>3, <2>2
    <3>2. WorkSound(c, o)'
      BY <2>2, <3>1 DEF OrderStep
    <3> QED BY <3>1, <3>2 DEF WorkSound
  <2>3. UseSound(o)'
    BY <1>1 DEF UseSound, OrderStep
  <2>4. OrderRow(orders'[o]) /\ use'[o] \in UseRow
    BY DEF OrderStep
  <2> QED BY <2>1, <2>2, <2>3, <2>4 DEF OrderSound, UseRow
<1>5. Settled(o) => Settled(o)'
  BY DEF OrderStep
<1>6. \A q \in Orders : Settled(q) => Settled(q)'
  BY <1>2, <1>5
<1>7. ASSUME NEW g \in Handlers PROVE CallSound(call[g])'
  <2>1. CASE g = h
    <3>1. CallShape(c) /\ c.at \in Working \cup {"idle"}
      BY DEF OrderStep
    <3> QED BY <1>1, <2>1, <3>1 DEF CallSound, CallSettled, CallTimely, Judging, Working
  <2>2. CASE g # h
    <3>1. PICK d : d = call[g]
      OBVIOUS
    <3>2. CallSound(d)'
      BY <1>6, <3>1, CallStays DEF CheckoutInv, OrderStep
    <3> QED BY <1>1, <2>2, <3>1, <3>2
  <2> QED BY <2>1, <2>2
<1> QED BY <1>1, <1>2, <1>3, <1>4, <1>6, <1>7

\* The session's row is left alone, and the order does not stay yet.
LEMMA OrderStepKeeps ==
  ASSUME CheckoutInv, NEW h \in Handlers, NEW c, NEW o \in Orders, OrderStep(h, c, o),
         ~ Live(o)' \/ InHand(o)' \/ o \in stray',
         UNCHANGED <<session, reopened>>
  PROVE  CheckoutInv'
<1>1. /\ \A q \in Orders : OrderSound(q)' /\ (Settled(q) => Settled(q)')
      /\ \A g \in Handlers : CallSound(call[g])'
      /\ call' = [g \in Handlers |-> call'[g]]
      /\ \A q \in Orders \ {o} : (Live(q)' <=> Live(q)) /\ (InHand(q)' <=> InHand(q))
  BY OrderFrame
<1>2. ASSUME NEW s \in Sessions PROVE Kept(s)' \subseteq Kept(s)
  BY <1>1 DEF Kept, OrderStep
<1>3. Shapes'
  BY <1>1 DEF CheckoutInv, Shapes, OrderStep
<1>4. ASSUME NEW s \in Sessions PROVE SessionSound(s)' /\ CountOK(s)'
  <2>1. SessionSound(s)'
    BY <1>1, SessionStays DEF CheckoutInv
  <2>2. Allowed(s) \in Nat /\ Allowed(s)' = Allowed(s)
    BY AllowedType DEF CheckoutInv, Allowed
  <2>3. Allowed(s)' \in Nat /\ Allowed(s) <= Allowed(s)'
    BY <2>2
  <2> QED BY <1>2, <2>1, <2>2, <2>3, CountStays DEF CheckoutInv
<1> QED BY <1>1, <1>3, <1>4 DEF CheckoutInv

\* What is known of an order a request works on.
LEMMA WorkCall ==
  ASSUME CheckoutInv, NEW h \in Handlers, call[h].at \in Working
  PROVE  /\ call[h].order \in Orders
         /\ IsWork(call[h], call[h].order)
         /\ WorkSound(call[h], call[h].order)
         /\ OrderSound(call[h].order)
         /\ \A q \in Orders \ {call[h].order} : ~ IsWork(call[h], q)
         /\ Settled(call[h].order) => \/ call[h].order \in stray
                                      \/ orders[call[h].order].status = "lapsed"
<1>1. call[h].order \in Orders /\ IsWork(call[h], call[h].order)
  BY DEF CheckoutInv, CallSound, CallShape, Working, IsWork, Idle
<1> QED BY <1>1 DEF CheckoutInv, OrderSound, IsWork, Settled, Worked

LEMMA PlaceOrderKeeps ==
  ASSUME CheckoutInv, NEW h \in Handlers, NEW o \in Orders, PlaceOrder(h, o)
  PROVE  CheckoutInv'
<1>1. PICK c : c = call[h]
  OBVIOUS
<1>3. PICK row : row = [status |-> "pending", cart |-> c.copy.cart, code |-> c.copy.code,
                        won |-> c.copy.won, tier |-> c.tier]
  OBVIOUS
<1>4. PICK d : d = [at |-> "claim", order |-> o, sent |-> c.sent]
  OBVIOUS
<1>5. /\ c.at = "place" /\ orders[o] = NoOrder
      /\ orders' = [orders EXCEPT ![o] = row]
      /\ Continue(h, d)
      /\ UNCHANGED <<session, book, stray, reopened, use>>
  BY <1>1, <1>3, <1>4 DEF PlaceOrder, Fresh, ledgerVars
<1>6. c.copy.code \in Codes \cup {NoCode}
  BY <1>1, <1>5 DEF CheckoutInv, CallSound, CallShape, Idle
<1>7. OrderRow(row)
  BY <1>3, <1>6 DEF OrderRow
<1>8. ~ Worked(o)
  <2>1. orders[o].status = "none"
    BY <1>5 DEF NoOrder
  <2>2. ASSUME NEW g \in Handlers, IsWork(call[g], o) PROVE FALSE
    BY <2>1, <2>2 DEF CheckoutInv, OrderSound, WorkSound, Live, IsWork
  <2> QED BY <2>2 DEF Worked
<1>9. orders'[o] = row /\ \A q \in Orders \ {o} : orders'[q] = orders[q]
  BY <1>5 DEF CheckoutInv, Shapes
<1>10. Live(o)'
  BY <1>3, <1>9 DEF Live
<1>11. Settled(o) => Settled(o)'
  BY <1>5 DEF Settled, Live, NoOrder
<1>12. \A q \in Orders : ~ IsWork(call[h], q)
  BY <1>1, <1>5 DEF IsWork
<1>13. OrderStep(h, d, o)
  <2>1. CallShape(d) /\ d.at \in Working \cup {"idle"} /\ (WorkSound(d, o)' <=> Live(o)')
    BY <1>4 DEF CallShape, WorkSound, Working
  <2>2. orders' = [q \in Orders |-> orders'[q]] /\ use' = [q \in Orders |-> use'[q]]
    BY <1>5 DEF CheckoutInv, Shapes
  <2>3. use'[o] \in UseRow
    BY <1>5 DEF CheckoutInv, OrderSound, UseRow
  <2>4. \A q \in Orders \ {o} : ~ IsWork(d, q)
    BY <1>4 DEF IsWork
  <2> QED BY <1>5, <1>7, <1>8, <1>9, <1>10, <1>11, <1>12, <2>1, <2>2, <2>3, <2>4 DEF OrderStep
<1>14. InHand(o)'
  <2>1. call'[h] = d
    BY <1>13, OrderFrame
  <2> QED BY <1>4, <2>1 DEF InHand
<1> QED BY <1>5, <1>13, <1>14, OrderStepKeeps

\* The request goes on with its order; what it may find there is given.
LEMMA WorkGoesOn ==
  ASSUME CheckoutInv, NEW h \in Handlers, NEW at \in Working, call[h].at \in Working,
         GoOn(h, at),
         NEW o \in Orders, o = call[h].order,
         orders' = [q \in Orders |-> orders'[q]], use' = [q \in Orders |-> use'[q]],
         \A q \in Orders \ {o} :
           orders'[q] = orders[q] /\ use'[q] = use[q] /\ (q \in stray' <=> q \in stray),
         OrderRow(orders'[o]), use'[o] \in UseRow,
         o \in stray => o \in stray',
         orders[o].status = "lapsed" => orders'[o].status = "lapsed",
         at \in {"claim", "close", "undo"} => Live(o)',
         at = "release" => orders'[o].status \in {"canceled", "lapsed"},
         at = "close" => HoldsCode(o)',
         UNCHANGED book
  PROVE  \E c : OrderStep(h, c, o) /\ c = [at |-> at, order |-> o]
<1>1. PICK c : c = [at |-> at, order |-> o]
  OBVIOUS
<1>2. Continue(h, c)
  BY <1>1 DEF GoOn
<1>3. CallShape(c) /\ c.at \in Working \cup {"idle"} /\ IsWork(c, o) /\ \A q \in Orders \ {o} : ~ IsWork(c, q)
  BY <1>1 DEF CallShape, IsWork, Working
<1>4. WorkSound(c, o)'
  BY <1>1 DEF WorkSound
<1>5. /\ IsWork(call[h], o)
      /\ \A q \in Orders \ {o} : ~ IsWork(call[h], q)
      /\ Settled(o) => (o \in stray \/ orders[o].status = "lapsed")
  BY WorkCall
<1>6. Settled(o) => Settled(o)'
  BY <1>5 DEF Settled
<1>7. IsActive(o)' => \/ Live(o)'
                      \/ o \in stray'
                      \/ c.at \in {"undo", "release"} /\ IsWork(c, o)
  BY <1>1, <1>3 DEF Working
<1>8. OrderStep(h, c, o)
  BY <1>2, <1>3, <1>4, <1>5, <1>6, <1>7 DEF OrderStep
<1> QED BY <1>1, <1>8

LEMMA StateOf ==
  ASSUME CheckoutInv, NEW o \in Orders
  PROVE  /\ orders = [q \in Orders |-> orders[q]] /\ use = [q \in Orders |-> use[q]]
         /\ OrderRow(orders[o]) /\ use[o] \in UseRow
         /\ Live(o) => orders[o].code \in Codes \cup {NoCode}
BY DEF CheckoutInv, Shapes, OrderSound, UseRow, OrderRow, Live, NoOrder

\* A request that goes on, in whatever it is told of the use of its code.
LEMMA GoesOnKeeps ==
  ASSUME CheckoutInv, NEW h \in Handlers, NEW at \in {"close", "undo"},
         call[h].at \in {"claim", "close"}, GoOn(h, at),
         NEW o \in Orders, o = call[h].order,
         UNCHANGED <<session, book, orders, stray, reopened>>,
         \/ UNCHANGED use
         \/ \E code \in Codes : code = orders[o].code /\ ReserveUse(o, code),
         at = "close" => HoldsCode(o)'
  PROVE  CheckoutInv'
<1>1. call[h].at \in Working /\ at \in Working
  BY DEF Working
<1>2. Live(o)
  BY <1>1, WorkCall DEF WorkSound
<1>3. use' = [q \in Orders |-> use'[q]] /\ use'[o] \in UseRow /\ \A q \in Orders \ {o} : use'[q] = use[q]
  <2>1. CASE UNCHANGED use
    BY <2>1, StateOf
  <2>2. ASSUME NEW code \in Codes, ReserveUse(o, code)
        PROVE  /\ use' = [q \in Orders |-> use'[q]] /\ use'[o] \in UseRow
               /\ \A q \in Orders \ {o} : use'[q] = use[q]
    BY <2>2, StateOf DEF ReserveUse, UseRow
  <2> QED BY <2>1, <2>2
<1>4. /\ orders' = [q \in Orders |-> orders'[q]] /\ OrderRow(orders'[o]) /\ Live(o)'
      /\ \A q \in Orders \ {o} : orders'[q] = orders[q] /\ (q \in stray' <=> q \in stray)
  BY <1>2, StateOf DEF Live
<1>5. PICK c : OrderStep(h, c, o) /\ c = [at |-> at, order |-> o]
  BY <1>1, <1>3, <1>4, WorkGoesOn
<1>6. InHand(o)'
  <2>1. call'[h] = c
    BY <1>5, OrderFrame
  <2> QED BY <1>5, <2>1 DEF InHand
<1> QED BY <1>5, <1>6, OrderStepKeeps

LEMMA ClaimUseKeeps ==
  ASSUME CheckoutInv, NEW h \in Handlers, NEW answers \in Answers, ClaimUse(h, answers)
  PROVE  CheckoutInv'
<1>1. PICK o : o = call[h].order
  OBVIOUS
<1>2. call[h].at = "claim" /\ UNCHANGED <<session, book, orders, stray, reopened>>
  BY DEF ClaimUse
<1>3. o \in Orders /\ Live(o) /\ orders[o].code \in Codes \cup {NoCode}
  BY <1>1, <1>2, WorkCall, StateOf DEF WorkSound, Working
<1>4. CASE orders[o].code = NoCode
  <2>1. GoOn(h, "close") /\ UNCHANGED use
    BY <1>1, <1>4 DEF ClaimUse, ledgerVars
  <2>2. HoldsCode(o)'
    BY <1>2, <1>4 DEF HoldsCode
  <2> QED BY <1>1, <1>2, <1>3, <2>1, <2>2, GoesOnKeeps
<1>5. CASE orders[o].code # NoCode /\ GoOn(h, "close") /\ ReserveUse(o, orders[o].code)
  <2>1. HoldsCode(o)'
    <3>1. use'[o] = [status |-> "reserved", code |-> orders[o].code]
      BY <1>3, <1>5, StateOf DEF ReserveUse
    <3> QED BY <1>2, <3>1 DEF HoldsCode, IsActive
  <2> QED BY <1>1, <1>2, <1>3, <1>5, <2>1, GoesOnKeeps
<1>6. CASE GoOn(h, "undo") /\ UNCHANGED ledgerVars
  BY <1>1, <1>2, <1>3, <1>6, GoesOnKeeps DEF ledgerVars
<1> QED BY <1>1, <1>4, <1>5, <1>6 DEF ClaimUse

LEMMA CallFailsKeeps ==
  ASSUME CheckoutInv, NEW h \in Handlers, CallFails(h)
  PROVE  CheckoutInv'
<1>1. PICK o : o = call[h].order
  OBVIOUS
<1>2. /\ call[h].at \in {"claim", "close"} /\ GoOn(h, "undo")
      /\ UNCHANGED <<session, book, orders, stray, reopened>>
  BY DEF CallFails
<1>3. o \in Orders /\ Live(o) /\ orders[o].code \in Codes \cup {NoCode}
  BY <1>1, <1>2, WorkCall, StateOf DEF WorkSound, Working
<1>4. CASE UNCHANGED ledgerVars
  BY <1>1, <1>2, <1>3, <1>4, GoesOnKeeps DEF ledgerVars
<1>5. CASE orders[o].code # NoCode /\ ReserveUse(o, orders[o].code)
  BY <1>1, <1>2, <1>3, <1>5, GoesOnKeeps
<1> QED BY <1>1, <1>4, <1>5 DEF CallFails

\* An order that changes its status and keeps what was asked for.
LEMMA StatusSet ==
  ASSUME CheckoutInv, NEW o \in Orders, Live(o), NEW st \in {"canceled", "lapsed"},
         orders' = [orders EXCEPT ![o].status = st]
  PROVE  /\ orders' = [q \in Orders |-> orders'[q]]
         /\ OrderRow(orders'[o])
         /\ orders'[o].status = st
         /\ \A q \in Orders \ {o} : orders'[q] = orders[q]
<1>1. PICK r : r = orders[o]
  OBVIOUS
<1>2. OrderRow(r) /\ r # NoOrder
  BY <1>1, StateOf DEF Live, NoOrder
<1>3. PICK new : new = [r EXCEPT !.status = st]
  OBVIOUS
<1>4. /\ new = [status |-> st, cart |-> r.cart, code |-> r.code, won |-> r.won, tier |-> r.tier]
      /\ new.status = st /\ new.cart = r.cart /\ new.code = r.code
      /\ new.won = r.won /\ new.tier = r.tier
  <2>1. r \in [status : {r.status}, cart : {r.cart}, code : {r.code},
               won : {r.won}, tier : {r.tier}]
    BY <1>2 DEF OrderRow
  <2> QED BY <1>3, <2>1
<1>5. OrderRow(new)
  BY <1>2, <1>4 DEF OrderRow
<1>6. orders' = [q \in Orders |-> orders'[q]] /\ orders'[o] = new
      /\ \A q \in Orders \ {o} : orders'[q] = orders[q]
  BY <1>1, <1>3, StateOf
<1> QED BY <1>4, <1>5, <1>6

LEMMA UndoOrderKeeps ==
  ASSUME CheckoutInv, NEW h \in Handlers, UndoOrder(h)
  PROVE  CheckoutInv'
<1>1. PICK o : o = call[h].order
  OBVIOUS
<1>2. /\ call[h].at = "undo"
      /\ UNCHANGED <<session, book, stray, reopened, use>>
  BY DEF UndoOrder, ledgerVars
<1>3. o \in Orders /\ Live(o)
  BY <1>1, <1>2, WorkCall DEF WorkSound, Working
<1>4. orders' = [orders EXCEPT ![o].status = "canceled"] /\ GoOn(h, "release")
  BY <1>1, <1>3 DEF UndoOrder
<1>5. /\ orders' = [q \in Orders |-> orders'[q]]
      /\ OrderRow(orders'[o]) /\ orders'[o].status = "canceled"
      /\ \A q \in Orders \ {o} : orders'[q] = orders[q]
  BY <1>3, <1>4, StatusSet
<1>6. orders[o].status # "lapsed"
  BY <1>3 DEF Live
<1>7. use' = [q \in Orders |-> use'[q]] /\ use'[o] \in UseRow
  BY <1>2, <1>3, StateOf
<1>8. PICK c : OrderStep(h, c, o)
  <2>1. "release" \in Working /\ call[h].at \in Working
    BY <1>2 DEF Working
  <2> QED BY <1>1, <1>2, <1>3, <1>4, <1>5, <1>6, <1>7, <2>1, WorkGoesOn
<1>9. ~ Live(o)'
  BY <1>5 DEF Live
<1> QED BY <1>2, <1>3, <1>8, <1>9, OrderStepKeeps

\* The request ends and leaves its order.
LEMMA WorkEnds ==
  ASSUME CheckoutInv, NEW h \in Handlers, call[h].at \in Working, End(h),
         NEW o \in Orders, o = call[h].order,
         UNCHANGED <<book, orders>>,
         use' = [q \in Orders |-> use'[q]], use'[o] \in UseRow,
         \A q \in Orders \ {o} : use'[q] = use[q] /\ (q \in stray' <=> q \in stray),
         o \in stray => o \in stray',
         IsActive(o)' => (Live(o)' \/ o \in stray')
  PROVE  OrderStep(h, Idle, o)
<1>1. CallShape(Idle) /\ Idle.at \in Working \cup {"idle"} /\ \A q \in Orders : ~ IsWork(Idle, q)
  BY DEF CallShape, IsWork, Idle
<1>2. Settled(o) => Settled(o)'
  BY WorkCall DEF Settled
<1>3. orders' = [q \in Orders |-> orders'[q]] /\ OrderRow(orders'[o])
  BY StateOf
<1> QED BY <1>1, <1>2, <1>3, WorkCall DEF OrderStep, End

LEMMA ReturnUseKeeps ==
  ASSUME CheckoutInv, NEW h \in Handlers, ReturnUse(h)
  PROVE  CheckoutInv'
<1>1. PICK o : o = call[h].order
  OBVIOUS
<1>2. /\ call[h].at = "release" /\ call[h].at \in Working /\ End(h)
      /\ UNCHANGED <<session, book, orders, stray, reopened>>
      /\ IF IsActive(o) THEN ReleaseUse(o) ELSE UNCHANGED use
  BY <1>1 DEF ReturnUse, ledgerVars, Working
<1>3. o \in Orders /\ orders[o].status \in {"canceled", "lapsed"}
  BY <1>1, <1>2, WorkCall DEF WorkSound
<1>4. /\ use' = [q \in Orders |-> use'[q]] /\ use'[o] \in UseRow
      /\ \A q \in Orders \ {o} : use'[q] = use[q]
      /\ ~ IsActive(o)'
  <2>1. CASE IsActive(o)
    BY <1>2, <1>3, <2>1, StateOf DEF ReleaseUse, UseRow, IsActive
  <2>2. CASE ~ IsActive(o)
    BY <1>2, <1>3, <2>2, StateOf DEF IsActive
  <2> QED BY <2>1, <2>2
<1>5. OrderStep(h, Idle, o)
  BY <1>1, <1>2, <1>3, <1>4, WorkEnds
<1>6. ~ Live(o)'
  BY <1>2, <1>3 DEF Live
<1> QED BY <1>2, <1>3, <1>5, <1>6, OrderStepKeeps

LEMMA RequestDiesKeeps ==
  ASSUME CheckoutInv, NEW h \in Handlers, RequestDies(h)
  PROVE  CheckoutInv'
<1>1. PICK o : o = call[h].order
  OBVIOUS
<1>2. /\ End(h) /\ call[h].at \in Working /\ stray' = stray \cup {o}
      /\ UNCHANGED <<session, book, orders, reopened, use>>
  BY <1>1 DEF RequestDies, ledgerVars, Working
<1>3. o \in Orders
  BY <1>1, <1>2, WorkCall
<1>4. use' = [q \in Orders |-> use'[q]] /\ use'[o] \in UseRow
  BY <1>2, <1>3, StateOf
<1>5. OrderStep(h, Idle, o)
  BY <1>1, <1>2, <1>3, <1>4, WorkEnds
<1> QED BY <1>2, <1>3, <1>5, OrderStepKeeps

LEMMA ExpireOrderKeeps ==
  ASSUME CheckoutInv, NEW h \in Handlers, NEW o \in Orders, ExpireOrder(h, o)
  PROVE  CheckoutInv'
<1>1. PICK c : c = [at |-> "release", order |-> o]
  OBVIOUS
<1>2. /\ call[h].at = "idle" /\ Live(o) /\ ~ InHand(o)
      /\ orders' = [orders EXCEPT ![o].status = "lapsed"]
      /\ Continue(h, c)
      /\ UNCHANGED <<session, book, stray, reopened, use>>
  BY <1>1 DEF ExpireOrder, ledgerVars
<1>3. /\ orders' = [q \in Orders |-> orders'[q]]
      /\ OrderRow(orders'[o]) /\ orders'[o].status = "lapsed"
      /\ \A q \in Orders \ {o} : orders'[q] = orders[q]
  BY <1>2, StatusSet
<1>4. ~ Worked(o)
  <2>1. ASSUME NEW g \in Handlers, IsWork(call[g], o) PROVE FALSE
    <3>1. WorkSound(call[g], o)
      BY <2>1 DEF CheckoutInv, OrderSound
    <3> QED BY <1>2, <2>1, <3>1 DEF WorkSound, IsWork, InHand, Live
  <2> QED BY <2>1 DEF Worked
<1>5. CallShape(c) /\ c.at \in Working \cup {"idle"} /\ IsWork(c, o) /\ \A q \in Orders \ {o} : ~ IsWork(c, q)
  BY <1>1 DEF CallShape, IsWork, Working
<1>6. WorkSound(c, o)' /\ c.at = "release"
  BY <1>1, <1>3 DEF WorkSound
<1>7. OrderStep(h, c, o)
  <2>1. use' = [q \in Orders |-> use'[q]] /\ use'[o] \in UseRow
    BY <1>2, StateOf
  <2>2. Settled(o)'
    BY <1>3 DEF Settled
  <2>3. \A q \in Orders : ~ IsWork(call[h], q)
    BY <1>2 DEF IsWork
  <2> QED BY <1>2, <1>3, <1>4, <1>5, <1>6, <2>1, <2>2, <2>3 DEF OrderStep
<1>8. ~ Live(o)'
  BY <1>3 DEF Live
<1> QED BY <1>2, <1>7, <1>8, OrderStepKeeps

\* The open session is closed with order o, which stays.
LEMMA CloseStep ==
  ASSUME CheckoutInv, NEW h \in Handlers, NEW c, NEW o \in Orders, OrderStep(h, c, o),
         NEW s \in Sessions, s = SessionOf[o], StillOpen(s), Settled(o)',
         session' = [session EXCEPT ![s] = Closed(@, o)],
         UNCHANGED reopened
  PROVE  CheckoutInv'
<1>1. /\ \A q \in Orders : OrderSound(q)' /\ (Settled(q) => Settled(q)')
      /\ \A g \in Handlers : CallSound(call[g])'
      /\ call' = [g \in Handlers |-> call'[g]]
      /\ \A q \in Orders \ {o} : (Live(q)' <=> Live(q)) /\ (InHand(q)' <=> InHand(q))
  BY OrderFrame
<1>2. PICK row : row = Closed(session[s], o)
  OBVIOUS
<1>3. /\ session' = [q \in Sessions |-> session'[q]] /\ session'[s] = row
      /\ \A q \in Sessions \ {s} : session'[q] = session[q]
  BY <1>2 DEF CheckoutInv, Shapes
<1>4. RowFor(s, session[s]) /\ session[s].status = "open"
  BY DEF CheckoutInv, SessionSound, StillOpen
<1>5. Columns(row, "completed", session[s].cart, session[s].code, session[s].won, {o})
  BY <1>2, <1>4 DEF RowFor, RowSane, SessionRow, Columns, Closed
<1>6. RowFor(s, row)
  BY <1>4, <1>5 DEF RowFor, RowSane, Columns, Fits
<1>7. SessionSound(s)'
  <2>1. SettledAll(session[s])'
    BY <1>3, <1>5 DEF SettledAll, Columns
  <2> QED BY <1>3, <1>6, <2>1 DEF SessionSound
<1>8. \A q \in Sessions : SessionSound(q)'
  BY <1>1, <1>3, <1>7, SessionStays DEF CheckoutInv
<1>9. Shapes'
  BY <1>1, <1>3 DEF CheckoutInv, Shapes, OrderStep
<1>10. \A q : Kept(q)' \subseteq Kept(q) \cup {o}
  BY <1>1 DEF Kept, OrderStep
<1>11. \A q \in Sessions \ {s} : Kept(q)' \subseteq Kept(q)
  BY <1>10 DEF Kept
<1>12. CountOK(s)'
  <2>1. IsFiniteSet(Kept(s) \cup {o}) /\ Cardinality(Kept(s) \cup {o}) <= Cardinality(Kept(s)) + 1
    <3>1. PICK K : K = Kept(s)
      OBVIOUS
    <3>2. IsFiniteSet(K) /\ Cardinality(K) \in Nat
      BY <3>1, KeptIsFinite
    <3>3. IsFiniteSet(K \cup {o}) /\ Cardinality(K \cup {o}) <= Cardinality(K) + 1
      <4>1. CASE o \in K
        <5>1. K \cup {o} = K
          BY <4>1
        <5>2. Cardinality(K) <= Cardinality(K) + 1
          BY <3>2
        <5> QED BY ONLY <3>2, <5>1, <5>2
      <4>2. CASE o \notin K
        <5>1. Cardinality(K \cup {o}) = Cardinality(K) + 1 /\ IsFiniteSet(K \cup {o})
          BY <3>2, <4>2, FS_AddElement
        <5> QED BY <3>2, <5>1
      <4> QED BY <4>1, <4>2
    <3> QED BY <3>1, <3>3
  <2>2. Cardinality(Kept(s)') <= Cardinality(Kept(s) \cup {o})
    BY <1>10, <2>1, FS_Subset
  <2>3. Cardinality(Kept(s)') \in Nat /\ Cardinality(Kept(s)) \in Nat /\ Cardinality(Kept(s) \cup {o}) \in Nat
    BY <2>1, KeptIsFinite, FS_CardinalityType
  <2>4. Allowed(s) \in Nat /\ Allowed(s)' = Allowed(s) + 1
    BY <1>3, <1>4, <1>5, SessionAssumption DEF Allowed, Columns, CheckoutInv, Shapes
  <2>5. Cardinality(Kept(s)) <= Allowed(s)
    BY DEF CheckoutInv, CountOK
  <2> HIDE DEF Allowed
  <2> QED BY <2>1, <2>2, <2>3, <2>4, <2>5 DEF CountOK
<1>13. ASSUME NEW q \in Sessions, q # s PROVE CountOK(q)'
  <2>1. Allowed(q) \in Nat /\ Allowed(q)' = Allowed(q)
    BY <1>3, <1>13, AllowedType DEF CheckoutInv, Allowed
  <2>2. Allowed(q)' \in Nat /\ Allowed(q) <= Allowed(q)'
    BY <2>1
  <2> QED BY <1>11, <1>13, <2>1, <2>2, CountStays DEF CheckoutInv
<1> QED BY <1>1, <1>8, <1>9, <1>12, <1>13 DEF CheckoutInv

LEMMA CloseSessionKeeps ==
  ASSUME CheckoutInv, NEW h \in Handlers, CloseSession(h)
  PROVE  CheckoutInv'
<1>1. PICK o : o = call[h].order
  OBVIOUS
<1>2. PICK s : s = SessionOf[o]
  OBVIOUS
<1>3. /\ call[h].at = "close" /\ call[h].at \in Working
      /\ UNCHANGED <<book, orders, stray, reopened, use>>
  BY DEF CloseSession, ledgerVars, Working
<1>4. /\ o \in Orders /\ Live(o) /\ HoldsCode(o) /\ s \in Sessions
  BY <1>1, <1>2, <1>3, WorkCall, SessionAssumption DEF WorkSound
<1>5. CASE ~ StillOpen(s)
  <2>1. GoOn(h, "undo") /\ UNCHANGED session
    BY <1>1, <1>2, <1>5 DEF CloseSession
  <2> QED BY <1>1, <1>3, <1>4, <2>1, GoesOnKeeps
<1>6. CASE StillOpen(s)
  <2>1. session' = [session EXCEPT ![s] = Closed(@, o)] /\ End(h)
    BY <1>1, <1>2, <1>6 DEF CloseSession
  <2>2. use' = [q \in Orders |-> use'[q]] /\ use'[o] \in UseRow /\ Live(o)'
    BY <1>3, <1>4, StateOf DEF Live
  <2>3. OrderStep(h, Idle, o)
    BY <1>1, <1>3, <1>4, <2>1, <2>2, WorkEnds
  <2>4. ~ Worked(o)'
    <3>1. call'[h] = Idle /\ \A g \in Handlers : IsWork(call'[g], o) => g = h
      BY <1>4, <2>3, OrderFrame
    <3>2. ~ IsWork(Idle, o)
      BY DEF IsWork, Idle
    <3> QED BY <3>1, <3>2 DEF Worked
  <2>5. HoldsCode(o)'
    BY <1>3, <1>4 DEF HoldsCode, IsActive
  <2>6. Settled(o)'
    BY <2>2, <2>4, <2>5 DEF Settled
  <2> QED BY <1>2, <1>3, <1>4, <1>6, <2>1, <2>3, <2>6, CloseStep
<1> QED BY <1>5, <1>6

LEMMA CloseReplyLostKeeps ==
  ASSUME CheckoutInv, NEW h \in Handlers, CloseReplyLost(h)
  PROVE  CheckoutInv'
<1>1. PICK o : o = call[h].order
  OBVIOUS
<1>2. PICK s : s = SessionOf[o]
  OBVIOUS
<1>3. /\ call[h].at \in Working /\ StillOpen(s) /\ call[h].at = "close"
      /\ session' = [session EXCEPT ![s] = Closed(@, o)]
      /\ stray' = stray \cup {o} /\ GoOn(h, "undo")
      /\ UNCHANGED <<book, orders, reopened, use>>
  BY <1>1, <1>2 DEF CloseReplyLost, ledgerVars, Working
<1>4. o \in Orders /\ Live(o) /\ s \in Sessions
  BY <1>1, <1>2, <1>3, WorkCall, SessionAssumption DEF WorkSound
<1>5. /\ orders' = [q \in Orders |-> orders'[q]] /\ OrderRow(orders'[o]) /\ Live(o)'
      /\ use' = [q \in Orders |-> use'[q]] /\ use'[o] \in UseRow
      /\ \A q \in Orders \ {o} :
           orders'[q] = orders[q] /\ use'[q] = use[q] /\ (q \in stray' <=> q \in stray)
  BY <1>3, <1>4, StateOf DEF Live
<1>6. PICK c : OrderStep(h, c, o)
  <2>1. "undo" \in Working
    BY DEF Working
  <2> QED BY <1>1, <1>3, <1>4, <1>5, <2>1, WorkGoesOn
<1>7. Settled(o)'
  BY <1>3 DEF Settled
<1> QED BY <1>2, <1>3, <1>4, <1>6, <1>7, CloseStep

----------------------------------------------------------------------------
(* The invariant, and what it says. *)

LEMMA CheckoutInvInit == CheckoutInit => CheckoutInv
<1> SUFFICES ASSUME CheckoutInit PROVE CheckoutInv
  OBVIOUS
<1>1. Shapes
  BY SessionAssumption DEF CheckoutInit, Shapes
<1>2. ASSUME NEW s \in Sessions PROVE SessionSound(s) /\ CountOK(s)
  <2>1. PICK cart \in Carts : session[s] = Holding(cart)
    BY SessionAssumption DEF CheckoutInit
  <2>2. RowFor(s, session[s]) /\ session[s].order = {} /\ session[s].status = "open"
    <3>1. session[s] = [status |-> "open", cart |-> cart, code |-> NoCode, won |-> 0, order |-> {}]
      BY <2>1 DEF Holding, NewSession
    <3> QED BY <3>1 DEF RowFor, RowSane, SessionRow, Fits
  <2>3. Kept(s) = {}
    BY DEF CheckoutInit, Kept, Live, NoOrder
  <2>4. Cardinality(Kept(s)) = 0
    BY <2>3, FS_EmptySet
  <2>5. Allowed(s) = 0
    BY <2>1, <2>2 DEF CheckoutInit, Allowed
  <2> QED BY <2>1, <2>2, <2>4, <2>5 DEF SessionSound, SettledAll, CountOK
<1>3. ASSUME NEW h \in Handlers PROVE CallSound(call[h]) /\ \A o \in Orders : ~ IsWork(call[h], o)
  BY DEF CheckoutInit, CallSound, CallShape, CallSettled, CallTimely, Judging, IsWork, Idle
<1>4. ASSUME NEW o \in Orders PROVE OrderSound(o)
  <2>1. orders[o] = NoOrder /\ use[o] = NoUse
    BY DEF CheckoutInit
  <2> QED BY <1>3, <2>1 DEF OrderSound, OrderRow, WorkedOnce, UseSound, IsActive, NoUse
<1> QED BY <1>1, <1>2, <1>3, <1>4 DEF CheckoutInv

LEMMA CheckoutInvStep == CheckoutInv /\ [CheckoutNext]_allVars => CheckoutInv'
<1> SUFFICES ASSUME CheckoutInv, [CheckoutNext]_allVars PROVE CheckoutInv'
  OBVIOUS
<1>1. CASE UNCHANGED allVars
  <2>1. UNCHANGED <<session, book, orders, call, stray, reopened, use>>
    BY <1>1 DEF allVars, checkoutVars, ledgerVars
  <2> QED BY <2>1, PlainSteps DEF CheckoutInv, Shapes
<1>2. ASSUME NEW h \in Handlers, Begin(h) PROVE CheckoutInv'
  BY <1>2, ReadRowKeeps, ExpireOrderKeeps DEF Begin
<1>3. ASSUME NEW h \in Handlers, Proceed(h) PROVE CheckoutInv'
  BY <1>3, ReadItemsKeeps, SaveBackKeeps, PriceLineKeeps, EditItemsKeeps, SaveItemsKeeps,
     ClearPromotionKeeps, EnterCodeKeeps, ApplyPromotionKeeps, JudgeCodeKeeps, JudgeTierKeeps,
     ClaimUseKeeps, PlaceOrderKeeps, PlainSteps, CloseSessionKeeps, UndoOrderKeeps,
     ReturnUseKeeps DEF Proceed
<1>4. ASSUME NEW h \in Handlers, Break(h) PROVE CheckoutInv'
  BY <1>4, CallFailsKeeps, CloseReplyLostKeeps, RequestDiesKeeps DEF Break
<1> QED BY <1>1, <1>2, <1>3, <1>4, PlainSteps, ChangeCatalogKeeps DEF CheckoutNext

LEMMA CheckoutInvHolds == CheckoutSpec => []CheckoutInv
BY CheckoutInvInit, CheckoutInvStep, PTL DEF CheckoutSpec

(* Rows, orders and uses stay well formed, and a session is completed      *)
(* exactly when it names an order placed from it (SaveCheckoutSession,     *)
(* the guarded close).                                                     *)
THEOREM CheckoutTypeCorrect == CheckoutSpec => []CheckoutTypeOK
<1>1. CheckoutInv => CheckoutTypeOK
  <2> SUFFICES ASSUME CheckoutInv PROVE CheckoutTypeOK
    OBVIOUS
  <2>1. \A s \in Sessions : RowFor(s, session[s])
    BY DEF CheckoutInv, SessionSound
  <2>2. \A o \in Orders : orders[o].status \in {"none", "pending", "canceled", "lapsed"}
    <3>1. NoOrder.status = "none"
      BY DEF NoOrder
    <3> QED BY <3>1 DEF CheckoutInv, OrderSound, OrderRow
  <2>3. use \in [Orders -> [status : {"none", "reserved", "released"}, code : Codes \cup {NoCode}]]
    BY DEF CheckoutInv, OrderSound, Shapes
  <2> QED BY <2>1, <2>2, <2>3 DEF CheckoutTypeOK, CheckoutInv, Shapes, RowFor, RowSane, SessionRow
<1> QED BY <1>1, CheckoutInvHolds, PTL

(* However many requests complete a session at once, one order stays, the  *)
(* session names it and it holds the use of its code; an older copy of the *)
(* row saved over the completed one accounts for every further order.      *)
THEOREM SessionsHaveTheirOrder == CheckoutSpec => []SessionHasItsOrder
<1>1. CheckoutInv => SessionHasItsOrder
  <2> SUFFICES ASSUME CheckoutInv PROVE SessionHasItsOrder
    OBVIOUS
  <2>1. ASSUME NEW s \in Sessions
        PROVE  Cardinality({o \in Orders : /\ SessionOf[o] = s
                                           /\ Live(o) /\ ~ InHand(o)
                                           /\ o \notin stray}) <= 1 + reopened[s]
    <3>1. Cardinality(Kept(s)) <= Allowed(s) /\ Cardinality(Kept(s)) \in Nat
      BY KeptIsFinite DEF CheckoutInv, CountOK
    <3>2. Allowed(s) \in Nat /\ Allowed(s) <= 1 + reopened[s] /\ reopened[s] \in Nat
      BY SessionAssumption DEF CheckoutInv, Shapes, Allowed
    <3>3. Cardinality(Kept(s)) <= 1 + reopened[s]
      BY <3>1, <3>2
    <3> QED BY <3>3 DEF Kept
  <2>2. ASSUME NEW s \in Sessions, NEW o \in session[s].order, o \notin stray
        PROVE  \/ orders[o].status = "lapsed"
               \/ Live(o) /\ (orders[o].code # NoCode => (IsActive(o) /\ use[o].code = orders[o].code))
    BY <2>2 DEF CheckoutInv, SessionSound, SettledAll, Settled, HoldsCode
  <2> QED BY <2>1, <2>2 DEF SessionHasItsOrder, OneOrderPerSession, CompletedHasItsOrder
<1> QED BY <1>1, CheckoutInvHolds, PTL

(* A use of a code is held by an order that stands or is being undone: a   *)
(* refused, losing or expired complete loses none unless its own release   *)
(* failed (completePlacedOrder, UndoOrder, the expiry worker).             *)
THEOREM UsesHaveLiveOrders == CheckoutSpec => []UseOfLiveOrder
<1>1. CheckoutInv => UseOfLiveOrder
  BY DEF CheckoutInv, OrderSound, UseSound, UseOfLiveOrder, IsWork
<1> QED BY <1>1, CheckoutInvHolds, PTL

\* Only a request that places it makes an order.
LEMMA OrdersArePlaced ==
  ASSUME CheckoutInv, [CheckoutNext]_allVars, NEW o \in Orders, orders[o] = NoOrder, orders'[o] # NoOrder
  PROVE  \E h \in Handlers, p \in Orders : PlaceOrder(h, p)
<1>1. ~ UNCHANGED orders
  OBVIOUS
<1>2. \A p \in Orders : Live(p) => p # o
  BY DEF Live, NoOrder
<1>3. ASSUME NEW p \in Orders, Live(p), NEW st, orders' = [orders EXCEPT ![p].status = st] PROVE FALSE
  BY <1>2, <1>3 DEF CheckoutInv, Shapes
<1>4. ASSUME NEW h \in Handlers, UndoOrder(h) PROVE FALSE
  <2>1. PICK p : p = call[h].order
    OBVIOUS
  <2>2. p \in Orders
    BY <1>4, <2>1, WorkCall DEF UndoOrder, Working
  <2> QED BY <1>1, <1>3, <1>4, <2>1, <2>2 DEF UndoOrder
<1>5. ASSUME NEW h \in Handlers, NEW p \in Orders, ExpireOrder(h, p) PROVE FALSE
  BY <1>3, <1>5 DEF ExpireOrder
<1>6. ASSUME NEW h \in Handlers, Begin(h) PROVE FALSE
  BY <1>1, <1>5, <1>6 DEF Begin, ReadRow, OnlyCall
<1>7. ASSUME NEW h \in Handlers, Break(h) PROVE FALSE
  BY <1>1, <1>7 DEF Break, CallFails, CloseReplyLost, RequestDies
<1>8. ASSUME NEW h \in Handlers, Proceed(h) PROVE \E p \in Orders : PlaceOrder(h, p)
  <2>1. ~ SaveBack(h) /\ ~ SaveItems(h) /\ ~ ClearPromotion(h)
    BY <1>1 DEF SaveBack, SaveItems, ClearPromotion, SaveSession
  <2>2. ~ OnlyCall
    BY <1>1 DEF OnlyCall
  <2>3. ~ ReadItems(h) /\ ~ PriceLine(h) /\ ~ Refuse(h)
        /\ (\A cart : ~ EditItems(h, cart)) /\ (\A c : ~ EnterCode(h, c))
        /\ (\A answers, stored : ~ ApplyPromotion(h, answers, stored))
        /\ (\A answers : ~ JudgeCode(h, answers) /\ ~ JudgeTier(h, answers))
    BY <2>2 DEF ReadItems, PriceLine, Refuse, EditItems, EnterCode, ApplyPromotion, JudgeCode, JudgeTier
  <2>4. (\A answers : ~ ClaimUse(h, answers)) /\ ~ CloseSession(h) /\ ~ ReturnUse(h)
    BY <1>1 DEF ClaimUse, CloseSession, ReturnUse
  <2> QED BY <1>4, <1>8, <2>1, <2>3, <2>4 DEF Proceed
<1>9. (\A s : ~ Lapse(s)) /\ (\A b : ~ ChangeCatalog(b))
  BY <1>1 DEF Lapse, ChangeCatalog
<1>10. ~ UNCHANGED allVars
  BY <1>1 DEF allVars, checkoutVars
<1> QED BY <1>6, <1>7, <1>8, <1>9, <1>10 DEF CheckoutNext

(* While the catalog answers, an order is placed with what its code and    *)
(* tier earn for its lines, at prices given out and with categories and    *)
(* markdowns that held while its complete request ran, and an open session *)
(* shows no discount its items do not earn: whatever was edited, repriced  *)
(* or read torn in between.                                                *)
THEOREM DiscountsAreEarned ==
  ASSUME ~ CatalogFails
  PROVE  CheckoutSpec => DiscountsEarned
<1>1. CheckoutInv => StoredDiscountFitsCart
  BY DEF CheckoutInv, SessionSound, RowFor, Fits, StoredDiscountFitsCart
<1> DEFINE Charged ==
      \A o \in Orders : orders[o] = NoOrder /\ orders'[o] # NoOrder =>
        LET r == orders'[o]
        IN  \E h \in Handlers :
              /\ call[h].at = "place" /\ call'[h] # call[h]
              /\ r.won + r.tier <= Subtotal(call[h].seen, r.cart)
              /\ Earned(call[h].during, r.code, r.cart, r.won, r.tier)
<1>2. CheckoutInv /\ [CheckoutNext]_allVars => [Charged]_allVars
  <2> SUFFICES ASSUME CheckoutInv, [CheckoutNext]_allVars,
                      NEW o \in Orders, orders[o] = NoOrder, orders'[o] # NoOrder
               PROVE  LET r == orders'[o]
                      IN  \E h \in Handlers :
                            /\ call[h].at = "place" /\ call'[h] # call[h]
                            /\ r.won + r.tier <= Subtotal(call[h].seen, r.cart)
                            /\ Earned(call[h].during, r.code, r.cart, r.won, r.tier)
    OBVIOUS
  <2>1. PICK h \in Handlers, p \in Orders : PlaceOrder(h, p)
    BY OrdersArePlaced
  <2>2. PICK c : c = call[h]
    OBVIOUS
  <2>3. PICK row : row = [status |-> "pending", cart |-> c.copy.cart, code |-> c.copy.code,
                          won |-> c.copy.won, tier |-> c.tier]
    OBVIOUS
  <2>4. PICK d : d = [at |-> "claim", order |-> p, sent |-> c.sent]
    OBVIOUS
  <2>5. /\ c.at = "place" /\ orders' = [orders EXCEPT ![p] = row] /\ Continue(h, d)
        /\ c.copy.won + c.tier <= Subtotal(c.seen, c.copy.cart)
    BY <2>1, <2>2, <2>3, <2>4 DEF PlaceOrder, Accepts
  <2>6. o = p /\ orders'[o] = row
    BY <2>5 DEF CheckoutInv, Shapes
  <2>7. Earned(c.during, c.copy.code, c.copy.cart, c.copy.won, c.tier)
    BY <2>2, <2>5 DEF CheckoutInv, CallSound, CallShape, Idle
  <2>8. call'[h] = d /\ d.at # c.at
    BY <2>4, <2>5, Moved DEF CheckoutInv
  <2>9. row.cart = c.copy.cart /\ row.code = c.copy.code /\ row.won = c.copy.won /\ row.tier = c.tier
    BY <2>3
  <2> QED BY <2>2, <2>5, <2>6, <2>7, <2>8, <2>9
<1>3. CheckoutSpec => []StoredDiscountFitsCart
  BY <1>1, CheckoutInvHolds, PTL
<1>4. CheckoutSpec => [][Charged]_allVars
  BY <1>2, CheckoutInvHolds, PTL DEF CheckoutSpec
<1> QED BY <1>3, <1>4 DEF DiscountsEarned, ChargedDiscountEarned
============================================================================
