------------------------------ MODULE Accounts ------------------------------
(***************************************************************************)
(* A customer's account across the auth and the profile service: the row   *)
(* in users, the refresh tokens in Redis, the deletion that reaches the    *)
(* profile service through auth's outbox, and the saved addresses there.   *)
(*                                                                         *)
(* Auth reads a user, decides, and saves every column (Save is an upsert); *)
(* a refresh looks its token up first and exchanges it later in one Lua    *)
(* script; an address request counts or reads, clears the default and      *)
(* saves. Each of these is a step, and requests interleave at will. The    *)
(* access tokens that let a customer use the profile service outlive the   *)
(* account, so profile takes requests of users that are gone.              *)
(***************************************************************************)
EXTENDS Outbox

CONSTANTS
  Handlers,       \* requests at a time
  Duties,         \* the kinds of request each one serves
  OldUsers,       \* users who may have an account and a session at the start
  MaxTries,       \* maxFailedAttempts (5)
  MaxAddresses,   \* MaxAddressesPerUser (10)
  MaxLogins,      \* bound: logins
  MaxTokens,      \* bound: tokens of one login
  MaxAddressIds,  \* bound: address ids ever drawn
  MaxRequests     \* bound: requests

Kinds == {"login", "refresh", "amend", "delete", "address"}

ASSUME AccountsAssumption ==
  /\ IsFiniteSet(Handlers) /\ Duties \in [Handlers -> SUBSET Kinds]
  /\ OldUsers \subseteq Topics
  /\ {MaxTries, MaxAddresses, MaxLogins, MaxTokens, MaxAddressIds, MaxRequests} \subseteq Nat \ {0}

VARIABLES
  user,     \* table users
  ids,      \* history: ids of users ever registered
  live,     \* refresh tokens in Redis
  minted,   \* tokens minted for each login
  book,     \* table customer_addresses, by address id
  call,     \* what each request is doing
  served    \* requests begun

accountVars == <<user, ids, live, minted, book, call, served>>
vars == <<outboxVars, accountVars>>

Users   == Topics
NoUser  == [here |-> FALSE]
Row     == [here : {TRUE}, active : BOOLEAN, tries : 0 .. MaxTries, locked : BOOLEAN]
NewUser == [here |-> TRUE, active |-> TRUE, tries |-> 0, locked |-> FALSE]
Idle    == [at |-> "idle"]

Tokens     == [login : 1 .. MaxLogins, nth : 1 .. MaxTokens, user : Users]
NoAddress  == [here |-> FALSE]
Address    == [here : {TRUE}, user : Users, default : BOOLEAN]
AddressIds == 1 .. MaxAddressIds

Serves(h, kind) ==
  /\ call[h].at = "idle" /\ kind \in Duties[h]
  /\ served < MaxRequests /\ served' = served + 1

Continue(h, c) == call' = [call EXCEPT ![h] = c]
GoOn(h, c)     == Continue(h, c) /\ UNCHANGED served
Done(h)        == GoOn(h, Idle)
Unlocked(row)   == [row EXCEPT !.tries = 0, !.locked = FALSE]

\* Empty tables, or a customer who is logged in and whose password was tried
\* in vain since.
AccountsInit ==
  /\ OutboxInit
  /\ \/ user = [u \in Users |-> NoUser] /\ ids = {} /\ live = {} /\ minted = <<>> /\ served = 0
     \/ \E u \in OldUsers :
          /\ ids = {u} /\ live = {[login |-> 1, nth |-> 1, user |-> u]} /\ minted = <<1>>
          /\ served = 1
          /\ user = [v \in Users |-> IF v = u THEN [NewUser EXCEPT !.tries = MaxTries - 1] ELSE NoUser]
  /\ book = <<>>
  /\ call = [h \in Handlers |-> Idle]

----------------------------------------------------------------------------
(* Users: read, change, save the whole row *)

\* The id is new; user.registered is published at best effort.
Register(u) ==
  /\ u \notin ids
  /\ ids' = ids \cup {u}
  /\ user' = [user EXCEPT ![u] = NewUser]
  /\ UNCHANGED <<live, minted, book, call, served, outboxVars>>

\* The upsert: a row deleted since it was read comes back.
Save(u, row) == user' = [user EXCEPT ![u] = row]

\* A locked account is refused until the lock is fifteen minutes old, which
\* it may be at any time; then it is unlocked and saved first.
BeginLogin(h, u) ==
  /\ Serves(h, "login") /\ user[u].here
  /\ Continue(h, [at |-> IF user[u].locked THEN "unlock" ELSE "password", user |-> u,
               row |-> Unlocked(user[u]), tries |-> user[u].tries])
  /\ UNCHANGED <<user, ids, live, minted, book, outboxVars>>

Unlock(h) ==
  /\ call[h].at = "unlock"
  /\ Save(call[h].user, call[h].row)
  /\ GoOn(h, [call[h] EXCEPT !.at = "password", !.tries = 0])
  /\ UNCHANGED <<ids, live, minted, book, outboxVars>>

RefuseInactive(h) ==
  /\ call[h].at = "password" /\ ~ call[h].row.active
  /\ Done(h)
  /\ UNCHANGED <<user, ids, live, minted, book, outboxVars>>

\* The counter is the one that was read, plus one.
WrongPassword(h) ==
  LET tries == call[h].tries + 1
  IN
  /\ call[h].at = "password" /\ call[h].row.active
  /\ Save(call[h].user, [call[h].row EXCEPT !.tries = tries, !.locked = (tries >= MaxTries)])
  /\ Done(h)
  /\ UNCHANGED <<ids, live, minted, book, outboxVars>>

RightPassword(h) ==
  /\ call[h].at = "password" /\ call[h].row.active
  /\ IF call[h].tries > 0 THEN Save(call[h].user, call[h].row) ELSE UNCHANGED user
  /\ GoOn(h, [at |-> "session", user |-> call[h].user])
  /\ UNCHANGED <<ids, live, minted, book, outboxVars>>

\* SetUserStatus, and with active unchanged SetUserPermissions and
\* UpdateUserPassword.
BeginAmend(h, u, active) ==
  /\ Serves(h, "amend") /\ user[u].here
  /\ Continue(h, [at |-> "amend", user |-> u, row |-> [user[u] EXCEPT !.active = active]])
  /\ UNCHANGED <<user, ids, live, minted, book, outboxVars>>

SaveAmended(h) ==
  /\ call[h].at = "amend"
  /\ Save(call[h].user, call[h].row)
  /\ Done(h)
  /\ UNCHANGED <<ids, live, minted, book, outboxVars>>

----------------------------------------------------------------------------
(* Sessions *)

TokensOf(l, tokens) == {t \in tokens : t.login = l}

OpenSession(h) ==
  /\ call[h].at = "session" /\ Len(minted) < MaxLogins
  /\ minted' = Append(minted, 1)
  /\ live' = live \cup {[login |-> Len(minted) + 1, nth |-> 1, user |-> call[h].user]}
  /\ Done(h)
  /\ UNCHANGED <<user, ids, book, outboxVars>>

\* Logout, or the token's time is up.
Logout(t) ==
  /\ t \in live
  /\ live' = live \ {t}
  /\ UNCHANGED <<user, ids, minted, book, call, served, outboxVars>>

BeginRefresh(h, t) ==
  /\ Serves(h, "refresh") /\ t \in live
  /\ Continue(h, [at |-> "owner", token |-> t])
  /\ UNCHANGED <<user, ids, live, minted, book, outboxVars>>

\* The user is read after the token; a refused refresh keeps its token.
CheckOwner(h) ==
  LET u == user[call[h].token.user]
  IN
  /\ call[h].at = "owner"
  /\ IF u.here /\ u.active /\ ~ u.locked THEN GoOn(h, [call[h] EXCEPT !.at = "rotate"])
                                         ELSE Done(h)
  /\ UNCHANGED <<user, ids, live, minted, book, outboxVars>>

\* A lock older than fifteen minutes no longer counts.
CheckLapsedOwner(h) ==
  LET u == user[call[h].token.user]
  IN
  /\ call[h].at = "owner" /\ u.here /\ u.active /\ u.locked
  /\ GoOn(h, [call[h] EXCEPT !.at = "rotate"])
  /\ UNCHANGED <<user, ids, live, minted, book, outboxVars>>

\* Slip: the token was looked up before, so it is only replaced.
RotateUnchecked(h) ==
  LET t == call[h].token
  IN
  /\ call[h].at = "rotate" /\ minted[t.login] < MaxTokens
  /\ minted' = [minted EXCEPT ![t.login] = @ + 1]
  /\ live' = (live \ {t}) \cup {[t EXCEPT !.nth = minted[t.login] + 1]}
  /\ Done(h)
  /\ UNCHANGED <<user, ids, book, outboxVars>>

\* A new token is minted; the script exchanges the old one for it if it is
\* still there.
Rotate(h) ==
  LET t == call[h].token
  IN
  /\ call[h].at = "rotate" /\ minted[t.login] < MaxTokens
  /\ minted' = [minted EXCEPT ![t.login] = @ + 1]
  /\ live' = IF t \in live THEN (live \ {t}) \cup {[t EXCEPT !.nth = minted[t.login] + 1]}
                           ELSE live
  /\ Done(h)
  /\ UNCHANGED <<user, ids, book, outboxVars>>

----------------------------------------------------------------------------
(* Deleting a user *)

BeginDelete(h, u) ==
  /\ Serves(h, "delete") /\ user[u].here
  /\ Continue(h, [at |-> "delete", user |-> u])
  /\ UNCHANGED <<user, ids, live, minted, book, outboxVars>>

\* DELETE FROM users takes the row's lock, then the outbox row is drawn. A
\* second delete waits and finds nothing.
DeleteRow(h) ==
  LET u == call[h].user
  IN
  /\ call[h].at = "delete"
  /\ \A g \in Handlers : ~ (call[g].at = "commit" /\ call[g].user = u)
  /\ IF user[u].here THEN /\ Draw(u)
                          /\ GoOn(h, [at |-> "commit", user |-> u, row |-> Len(outbox) + 1])
                     ELSE Done(h) /\ UNCHANGED outboxVars
  /\ UNCHANGED <<user, ids, live, minted, book>>

CommitDelete(h) ==
  /\ call[h].at = "commit"
  /\ Settle(call[h].row, "pending")
  /\ user' = [user EXCEPT ![call[h].user] = NoUser]
  /\ Done(h)
  /\ UNCHANGED <<ids, live, minted, book>>

RollbackDelete(h) ==
  /\ call[h].at = "commit"
  /\ Settle(call[h].row, "void")
  /\ Done(h)
  /\ UNCHANGED <<user, ids, live, minted, book>>

\* HandleUserDeleted in the profile service, one transaction. The message may
\* be late, come again with a second publish, or be lost.
DeleteUserData(i) ==
  /\ i \in announced
  /\ book' = [a \in DOMAIN book |->
                IF book[a].here /\ book[a].user = outbox[i].about THEN NoAddress ELSE book[a]]
  /\ UNCHANGED <<user, ids, live, minted, call, served, outboxVars>>

----------------------------------------------------------------------------
(* Addresses *)

AddressesOf(u) == {a \in DOMAIN book : book[a].here /\ book[a].user = u}
DefaultsOf(u)  == {a \in AddressesOf(u) : book[a].default}

\* Slip: the limit is one past the end.
MayAddLoosely(u) == Cardinality(AddressesOf(u)) <= MaxAddresses

MayAdd(u) == Cardinality(AddressesOf(u)) < MaxAddresses

\* The first address is the default unless the request says it is not.
CreateAddress(h, u, default) ==
  /\ Serves(h, "address") /\ u \in ids
  /\ MayAdd(u) /\ Len(book) < MaxAddressIds
  /\ book' = Append(book, NoAddress)
  /\ Continue(h, [at |-> IF default THEN "clear" ELSE "save", id |-> Len(book) + 1,
               address |-> [here |-> TRUE, user |-> u, default |-> default]])
  /\ UNCHANGED <<user, ids, live, minted, outboxVars>>

\* PatchAddress; SetDefaultAddress is one that says default.
PatchAddress(h, a, says) ==
  /\ Serves(h, "address") /\ a \in DOMAIN book /\ book[a].here
  /\ Continue(h, [at |-> IF says THEN "clear" ELSE "save", id |-> a,
               address |-> [book[a] EXCEPT !.default = @ \/ says]])
  /\ UNCHANGED <<user, ids, live, minted, book, outboxVars>>

ClearDefault(h) ==
  /\ call[h].at = "clear"
  /\ book' = [a \in DOMAIN book |-> IF a \in DefaultsOf(call[h].address.user)
                                      THEN [book[a] EXCEPT !.default = FALSE] ELSE book[a]]
  /\ GoOn(h, [call[h] EXCEPT !.at = "save"])
  /\ UNCHANGED <<user, ids, live, minted, outboxVars>>

\* The partial unique index refuses a second default.
IndexAllows(a, address) == address.default => DefaultsOf(address.user) \subseteq {a}

\* Again an upsert: an address deleted since it was read comes back.
SaveAddress(h) ==
  /\ call[h].at = "save"
  /\ book' = IF IndexAllows(call[h].id, call[h].address)
               THEN [book EXCEPT ![call[h].id] = call[h].address] ELSE book
  /\ Done(h)
  /\ UNCHANGED <<user, ids, live, minted, outboxVars>>

DeleteAddress(a) ==
  /\ a \in DOMAIN book /\ book[a].here
  /\ book' = [book EXCEPT ![a] = NoAddress]
  /\ UNCHANGED <<user, ids, live, minted, call, served, outboxVars>>

\* A request dies, or a call it makes fails, between two steps.
Fail(h) ==
  /\ call[h].at \notin {"idle", "commit"}
  /\ Done(h)
  /\ UNCHANGED <<user, ids, live, minted, book, outboxVars>>

----------------------------------------------------------------------------
Handle(h) ==
  \/ \E u \in Users : \/ BeginLogin(h, u) \/ BeginDelete(h, u)
                      \/ \E b \in BOOLEAN : BeginAmend(h, u, b) \/ CreateAddress(h, u, b)
  \/ Unlock(h) \/ RefuseInactive(h) \/ WrongPassword(h) \/ RightPassword(h)
  \/ SaveAmended(h)
  \/ OpenSession(h) \/ CheckOwner(h) \/ CheckLapsedOwner(h) \/ Rotate(h)
  \/ \E t \in live : BeginRefresh(h, t)
  \/ DeleteRow(h) \/ CommitDelete(h) \/ RollbackDelete(h)
  \/ \E a \in DOMAIN book, b \in BOOLEAN : PatchAddress(h, a, b)
  \/ ClearDefault(h) \/ SaveAddress(h)
  \/ Fail(h)

DrainOutbox(d) == Drain(d) /\ UNCHANGED accountVars

AccountsNext ==
  \/ \E h \in Handlers : Handle(h)
  \/ \E u \in Users : Register(u)
  \/ \E t \in live : Logout(t)
  \/ \E a \in DOMAIN book : DeleteAddress(a)
  \/ \E d \in Drains : DrainOutbox(d)
  \/ \E i \in announced : DeleteUserData(i)

AccountsSpec == AccountsInit /\ [][AccountsNext]_vars /\ DrainFairness("worker")

----------------------------------------------------------------------------
(* No user has two default addresses, and never more addresses than the    *)
(* limit and one for each further request: requests count, and save later  *)
(* (a save may also bring back an address deleted meanwhile), so the limit *)
(* is missed by what is in flight and by no more.                          *)
AddressBook ==
  \A u \in Users : /\ Cardinality(DefaultsOf(u)) <= 1
                   /\ Cardinality(AddressesOf(u)) <= MaxAddresses + Cardinality(Handlers) - 1

(* Rows, tokens and addresses are well formed. *)
AccountsTypeOK ==
  /\ OutboxTypeOK
  /\ user \in [Users -> Row \cup {NoUser}] /\ ids \subseteq Users
  /\ \A u \in Users : user[u].here => u \in ids
  /\ live \subseteq Tokens /\ minted \in Seq(1 .. MaxTokens)
  /\ book \in Seq(Address \cup {NoAddress})

(* An account is locked exactly while its counter is at the limit, whoever  *)
(* saves the row and from whatever copy of it.                              *)
LockedAtTheLimit ==
  \A u \in Users : user[u].here => (user[u].locked <=> user[u].tries = MaxTries)

(* What concurrent saves of whole rows may not break.                       *)
AccountsSafe == AccountsTypeOK /\ LockedAtTheLimit /\ AddressBook

(* A login holds at most one refresh token, and once it holds none it never *)
(* holds one again: a token that was exchanged or logged out is dead, and   *)
(* so is everything a request that looked it up earlier would make of it.   *)
LoginHoldsOneToken ==
  [][\A l \in DOMAIN minted :
       /\ Cardinality(TokensOf(l, live')) <= 1
       /\ TokensOf(l, live) = {} => TokensOf(l, live') = {}]_vars

(* What the doc says of deleting: a deleted account is gone for good. It    *)
(* does not hold (see README).                                              *)
DeletedStaysDeleted ==
  [][\A u \in ids : ~ user[u].here => ~ user'[u].here]_vars
============================================================================
