--------------------------- MODULE AccountsProofs ---------------------------
(* Proofs about Accounts and the Outbox it writes, for any users, logins,   *)
(* addresses, concurrent requests and drains: a login never holds two live  *)
(* refresh tokens and never gets one back, and concurrent saves of whole    *)
(* rows break neither the lock nor the address book.                       *)
EXTENDS Accounts, FiniteSetTheorems, TLAPS

----------------------------------------------------------------------------
(* The inductive invariant, one part for each group of tables.              *)

\* Locked at the limit, in a row or a copy of one.
RowSound(r) == r \in Row /\ (r.locked <=> r.tries = MaxTries)

LoginCall == [at : {"unlock", "password"}, user : Users, row : Row, tries : 0 .. MaxTries]

(* Users.  A request saves the row it read: the copy must be sound, and of   *)
(* an account there was.                                                    *)
UserCall(c) ==
  /\ c.at \in {"unlock", "password"} =>
       /\ c \in LoginCall /\ c.user \in ids
       /\ c.row.tries = 0 /\ ~ c.row.locked
       /\ c.at = "password" => c.tries < MaxTries
  /\ c.at = "amend" => c.user \in ids /\ RowSound(c.row)
  /\ c.at \in {"session", "delete", "commit"} => c.user \in Users

UserInv ==
  /\ call = [h \in Handlers |-> call[h]]
  /\ user \in [Users -> Row \cup {NoUser}] /\ ids \subseteq Users
  /\ \A u \in Users : user[u].here => u \in ids /\ RowSound(user[u])
  /\ \A h \in Handlers : UserCall(call[h])

(* Tokens.  Those of a login are numbered as they are minted; one that a     *)
(* request looked up was minted.                                            *)
Minted(t) == t \in Tokens /\ t.login \in DOMAIN minted /\ t.nth <= minted[t.login]

TokenCall(c) ==
  c.at \in {"owner", "rotate"} => c \in [at : {"owner", "rotate"}, token : Tokens] /\ Minted(c.token)

TokenInv ==
  /\ minted \in Seq(1 .. MaxTokens) /\ Len(minted) <= MaxLogins
  /\ \A t \in live : Minted(t)
  /\ \A s, t \in live : s.login = t.login => s = t
  /\ \A h \in Handlers : TokenCall(call[h])

(* Addresses.  What requests in flight will save counts with what is saved.  *)
AddressCall(c) ==
  c.at \in {"clear", "save"} =>
    c \in [at : {"clear", "save"}, id : DOMAIN book, address : Address]

Saves(h, u)   == call[h].at \in {"clear", "save"} /\ call[h].address.user = u
Claimed(u)    == AddressesOf(u) \cup {call[h].id : h \in {g \in Handlers : Saves(g, u)}}
ClaimLimit    == MaxAddresses + Cardinality(Handlers) - 1

BookInv ==
  /\ book \in Seq(Address \cup {NoAddress})
  /\ \A h \in Handlers : AddressCall(call[h])
  /\ \A u \in Users : Cardinality(Claimed(u)) <= ClaimLimit
  /\ \A u \in Users : \A a, b \in DefaultsOf(u) : a = b

(* The outbox.  What a row came after was visible, and a drain that has a    *)
(* row before it has what the row came after before it as well, or is done   *)
(* with it.                                                                 *)
EventRow == [about : Topics, after : SUBSET (1 .. MaxEvents),
             state : {"drawn", "pending", "published", "void"}]

RowBefore(i) == \A j \in outbox[i].after : j \in Visible /\ j < i
CausesFirst(d) == \A i \in batch[d] : outbox[i].after \subseteq announced \cup tried \cup batch[d]

OutboxInv ==
  /\ outbox \in Seq(EventRow) /\ Len(outbox) <= MaxEvents
  /\ batch = [d \in Drains |-> batch[d]] /\ sent \in [Drains -> BOOLEAN]
  /\ \A d \in Drains : /\ batch[d] \subseteq Visible /\ Cardinality(batch[d]) <= BatchSize
                       /\ sent[d] => \E i \in announced : IsFirst(i, d)
                       /\ CausesFirst(d)
  /\ announced \subseteq Visible /\ tried \subseteq Visible
  /\ \A i \in Drawn : RowBefore(i) /\ (outbox[i].state = "published" => i \in announced)
  /\ \A h \in Handlers : call[h].at = "commit" => call[h].row \in Drawn

AccountsInv == UserInv /\ TokenInv /\ BookInv /\ OutboxInv

----------------------------------------------------------------------------
(* One request moves on; the others stay as they are.                       *)

LEMMA Moved ==
  ASSUME NEW h \in Handlers, NEW c, call = [g \in Handlers |-> call[g]], Continue(h, c)
  PROVE  /\ call' = [g \in Handlers |-> call'[g]]
         /\ call'[h] = c
         /\ \A g \in Handlers \ {h} : call'[g] = call[g]
BY DEF Continue

LEMMA Bounds ==
  /\ MaxTries \in Nat /\ MaxTries > 0 /\ MaxAddresses \in Nat /\ MaxAddresses > 0
  /\ MaxLogins \in Nat /\ MaxLogins > 0 /\ MaxTokens \in Nat /\ MaxTokens > 0 /\ MaxAddressIds \in Nat
  /\ OldUsers \subseteq Users /\ MaxEvents \in Nat /\ BatchSize \in Nat /\ BatchSize > 0
  /\ IsFiniteSet(Handlers) /\ Cardinality(Handlers) \in Nat
<1>1. IsFiniteSet(Handlers)
  BY AccountsAssumption
<1> QED BY <1>1, FS_CardinalityType, AccountsAssumption, OutboxAssumption DEF Users

\* A table by row number, read as a function.
LEMMA SeqParts ==
  ASSUME NEW S, NEW s \in Seq(S)
  PROVE  /\ Len(s) \in Nat /\ DOMAIN s = 1 .. Len(s)
         /\ s \in [1 .. Len(s) -> S] /\ \A i \in DOMAIN s : s[i] \in S
<1> QED OBVIOUS

\* What an action that begins, ends or moves a request does with it.
LEMMA CallOfSteps ==
  ASSUME AccountsInv, NEW h \in Handlers
  PROVE  /\ Done(h) => Continue(h, Idle)
         /\ \A c : GoOn(h, c) => Continue(h, c)
         /\ Idle.at = "idle"
BY DEF Done, GoOn, Idle

----------------------------------------------------------------------------
(* Users.                                                                   *)

LEMMA UserBeside ==
  ASSUME AccountsInv, UNCHANGED <<user, ids>>,
         NEW h \in Handlers, NEW c, Continue(h, c), UserCall(c)
  PROVE  UserInv'
<1>1. /\ call' = [g \in Handlers |-> call'[g]] /\ call'[h] = c
      /\ \A g \in Handlers \ {h} : call'[g] = call[g]
  BY Moved DEF AccountsInv, UserInv
<1>2. ASSUME NEW g \in Handlers PROVE UserCall(call'[g])
  <2>1. CASE g = h
    BY <1>1, <2>1
  <2>2. CASE g # h
    BY <1>1, <2>2 DEF AccountsInv, UserInv
  <2> QED BY <2>1, <2>2
<1>3. \A g \in Handlers : UserCall(call[g])'
  BY <1>2 DEF UserCall
<1> QED BY <1>1, <1>3 DEF AccountsInv, UserInv

\* An upsert of a sound row.
LEMMA UserSaved ==
  ASSUME AccountsInv, UNCHANGED ids, NEW u \in ids, NEW r, RowSound(r), Save(u, r),
         NEW h \in Handlers, NEW c, Continue(h, c), UserCall(c)
  PROVE  UserInv'
<1>1. /\ call' = [g \in Handlers |-> call'[g]] /\ call'[h] = c
      /\ \A g \in Handlers \ {h} : call'[g] = call[g]
  BY Moved DEF AccountsInv, UserInv
<1>2. ASSUME NEW g \in Handlers PROVE UserCall(call'[g])
  <2>1. CASE g = h
    BY <1>1, <2>1
  <2>2. CASE g # h
    BY <1>1, <2>2 DEF AccountsInv, UserInv
  <2> QED BY <2>1, <2>2
<1>3. \A g \in Handlers : UserCall(call[g])'
  BY <1>2 DEF UserCall
<1>4. user' \in [Users -> Row \cup {NoUser}]
  BY DEF AccountsInv, UserInv, Save, RowSound
<1>5. \A v \in Users : user'[v].here => v \in ids /\ RowSound(user'[v])
  BY DEF AccountsInv, UserInv, Save
<1>6. \A v \in Users : (user[v].here => v \in ids /\ RowSound(user[v]))'
  BY <1>5 DEF RowSound
<1> QED BY <1>1, <1>3, <1>4, <1>6 DEF AccountsInv, UserInv

LEMMA UnlockedSound ==
  ASSUME NEW r \in Row
  PROVE  /\ Unlocked(r) \in Row /\ Unlocked(r).tries = 0 /\ ~ Unlocked(r).locked
         /\ Unlocked(r).active = r.active /\ RowSound(Unlocked(r))
<1>1. PICK s : s = [r EXCEPT !.tries = 0, !.locked = FALSE]
  OBVIOUS
<1>2. 0 \in 0 .. MaxTries /\ 0 # MaxTries
  BY Bounds
<1>3. s \in Row /\ s.tries = 0 /\ s.locked = FALSE /\ s.active = r.active
  BY <1>1, <1>2 DEF Row
<1>4. RowSound(s)
  BY <1>2, <1>3 DEF RowSound
<1> QED BY <1>1, <1>3, <1>4 DEF Unlocked

LEMMA UserOfLogin ==
  ASSUME AccountsInv, NEW h \in Handlers,
         \/ \E u \in Users : BeginLogin(h, u)
         \/ Unlock(h) \/ RefuseInactive(h) \/ WrongPassword(h) \/ RightPassword(h)
  PROVE  UserInv'
<1>1. UserCall(Idle)
  BY DEF UserCall, Idle
<1>2. PICK c : c = call[h]
  OBVIOUS
<1>3. UserCall(c) /\ ids \subseteq Users
  BY <1>2 DEF AccountsInv, UserInv
<1>4. ASSUME NEW u \in Users, BeginLogin(h, u) PROVE UserInv'
  <2>1. PICK r \in Row : r = user[u] /\ u \in ids /\ RowSound(r)
    BY <1>4 DEF BeginLogin, AccountsInv, UserInv, RowSound
  <2>2. PICK d : d = [at |-> IF r.locked THEN "unlock" ELSE "password", user |-> u,
                      row |-> Unlocked(r), tries |-> r.tries]
    OBVIOUS
  <2>3. d \in LoginCall /\ d.user = u /\ d.row = Unlocked(r) /\ d.tries = r.tries
    BY <2>2, UnlockedSound DEF LoginCall, Row
  <2>4. d.at = "password" => d.tries < MaxTries
    <3>1. d.at = "password" => ~ r.locked
      BY <2>2
    <3>2. r.tries \in 0 .. MaxTries /\ (r.locked <=> r.tries = MaxTries)
      BY <2>1 DEF RowSound, Row
    <3>3. r.tries # MaxTries => r.tries < MaxTries
      BY <3>2, Bounds
    <3> QED BY <2>3, <3>1, <3>2, <3>3
  <2>5. UserCall(d)
    BY <2>1, <2>3, <2>4, UnlockedSound DEF UserCall, LoginCall
  <2>6. Continue(h, d) /\ UNCHANGED <<user, ids>>
    BY <1>4, <2>1, <2>2 DEF BeginLogin
  <2> QED BY <2>5, <2>6, UserBeside
<1>5. CASE Unlock(h)
  <2>1. /\ c \in LoginCall /\ c.user \in ids
        /\ c.row.tries = 0 /\ ~ c.row.locked
    BY <1>2, <1>3, <1>5 DEF UserCall, Unlock
  <2>2. PICK d : d = [c EXCEPT !.at = "password", !.tries = 0]
    OBVIOUS
  <2>3. d \in LoginCall /\ d.at = "password" /\ d.user = c.user /\ d.row = c.row /\ d.tries = 0
    <3>1. 0 \in 0 .. MaxTries
      BY Bounds
    <3> QED BY <2>1, <2>2, <3>1 DEF LoginCall
  <2>4. UserCall(d)
    BY <2>1, <2>3, Bounds DEF UserCall
  <2>5. Save(c.user, c.row) /\ Continue(h, d) /\ UNCHANGED ids
    BY <1>2, <1>5, <2>2 DEF Unlock, GoOn
  <2>6. RowSound(c.row)
    BY <2>1, Bounds DEF LoginCall, RowSound
  <2> QED BY <2>1, <2>4, <2>5, <2>6, UserSaved
<1>6. CASE RefuseInactive(h)
  BY <1>1, <1>6, UserBeside, CallOfSteps DEF RefuseInactive
<1>7. CASE WrongPassword(h) \/ RightPassword(h)
  <2>1. /\ c \in LoginCall /\ c.user \in ids
        /\ c.row.tries = 0 /\ ~ c.row.locked /\ c.tries < MaxTries
    BY <1>2, <1>3, <1>7 DEF UserCall, WrongPassword, RightPassword
  <2>2. CASE WrongPassword(h)
    <3>1. PICK r : r = [c.row EXCEPT !.tries = c.tries + 1, !.locked = (c.tries + 1 >= MaxTries)]
      OBVIOUS
    <3>2. RowSound(r)
      <4>1. c.tries \in 0 .. MaxTries /\ c.row \in Row
        BY <2>1 DEF LoginCall
      <4>2. PICK n \in 0 .. MaxTries : n = c.tries + 1
        BY <2>1, <4>1, Bounds
      <4>3. CASE n = MaxTries
        <5>1. n >= MaxTries
          BY <4>2, <4>3, Bounds
        <5>2. r = [c.row EXCEPT !.tries = n, !.locked = TRUE]
          BY <3>1, <4>2, <5>1
        <5> QED BY <4>1, <4>3, <5>2 DEF Row, RowSound
      <4>4. CASE n # MaxTries
        <5>1. ~ (n >= MaxTries)
          BY <4>2, <4>4, Bounds
        <5>2. (n >= MaxTries) = FALSE
          BY <5>1
        <5>3. r = [c.row EXCEPT !.tries = n, !.locked = (n >= MaxTries)]
          BY <3>1, <4>2
        <5>4. r = [c.row EXCEPT !.tries = n, !.locked = FALSE]
          BY <5>2, <5>3
        <5> QED BY <4>1, <4>4, <5>4 DEF Row, RowSound
      <4> QED BY <4>3, <4>4
    <3>3. Save(c.user, r) /\ Continue(h, Idle) /\ UNCHANGED ids
      BY <1>2, <2>2, <3>1, CallOfSteps DEF WrongPassword
    <3> QED BY <1>1, <2>1, <3>2, <3>3, UserSaved
  <2>3. CASE RightPassword(h)
    <3>1. PICK d : d = [at |-> "session", user |-> c.user]
      OBVIOUS
    <3>2. UserCall(d)
      BY <1>3, <2>1, <3>1 DEF UserCall
    <3>3. Continue(h, d) /\ UNCHANGED ids
      BY <1>2, <2>3, <3>1, CallOfSteps DEF RightPassword
    <3>4. RowSound(c.row)
      BY <2>1, Bounds DEF LoginCall, RowSound
    <3>5. Save(c.user, c.row) \/ UNCHANGED user
      BY <1>2, <2>3 DEF RightPassword
    <3> QED BY <2>1, <3>2, <3>3, <3>4, <3>5, UserSaved, UserBeside
  <2> QED BY <1>7, <2>2, <2>3
<1> QED BY <1>4, <1>5, <1>6, <1>7

LEMMA UserOfStaff ==
  ASSUME AccountsInv, NEW h \in Handlers,
         \/ \E u \in Users : BeginDelete(h, u) \/ \E b \in BOOLEAN : BeginAmend(h, u, b)
         \/ SaveAmended(h) \/ DeleteRow(h) \/ CommitDelete(h) \/ RollbackDelete(h)
  PROVE  UserInv'
<1>1. UserCall(Idle)
  BY DEF UserCall, Idle
<1>2. PICK c : c = call[h]
  OBVIOUS
<1>3. UserCall(c) /\ ids \subseteq Users
  BY <1>2 DEF AccountsInv, UserInv
<1>4. ASSUME NEW u \in Users, BeginDelete(h, u) PROVE UserInv'
  <2>1. PICK d : d = [at |-> "delete", user |-> u]
    OBVIOUS
  <2>2. UserCall(d)
    BY <2>1 DEF UserCall
  <2> QED BY <1>4, <2>1, <2>2, UserBeside DEF BeginDelete
<1>5. ASSUME NEW u \in Users, NEW b \in BOOLEAN, BeginAmend(h, u, b) PROVE UserInv'
  <2>1. PICK r \in Row : r = user[u] /\ u \in ids /\ RowSound(r)
    BY <1>5 DEF BeginAmend, AccountsInv, UserInv, RowSound
  <2>2. PICK s : s = [r EXCEPT !.active = b]
    OBVIOUS
  <2>3. RowSound(s)
    BY <2>1, <2>2 DEF RowSound, Row
  <2>4. PICK d : d = [at |-> "amend", user |-> u, row |-> s]
    OBVIOUS
  <2>5. UserCall(d)
    BY <2>1, <2>3, <2>4 DEF UserCall
  <2>6. Continue(h, d) /\ UNCHANGED <<user, ids>>
    BY <1>5, <2>1, <2>2, <2>4 DEF BeginAmend
  <2> QED BY <2>5, <2>6, UserBeside
<1>6. CASE SaveAmended(h)
  <2>1. c.user \in ids /\ RowSound(c.row)
    BY <1>2, <1>3, <1>6 DEF SaveAmended, UserCall
  <2> QED BY <1>1, <1>2, <1>6, <2>1, UserSaved, CallOfSteps DEF SaveAmended
<1>7. CASE DeleteRow(h)
  <2>1. PICK d : d = [at |-> "commit", user |-> c.user, row |-> Len(outbox) + 1]
    OBVIOUS
  <2>2. UserCall(d)
    BY <1>2, <1>3, <1>7, <2>1 DEF UserCall, DeleteRow
  <2>3. Continue(h, d) \/ Continue(h, Idle)
    BY <1>2, <1>7, <2>1, CallOfSteps DEF DeleteRow
  <2> QED BY <1>1, <1>7, <2>2, <2>3, UserBeside DEF DeleteRow
<1>8. CASE CommitDelete(h)
  <2>1. /\ call' = [g \in Handlers |-> call'[g]] /\ call'[h] = Idle
        /\ \A g \in Handlers \ {h} : call'[g] = call[g]
    BY <1>8, Moved, CallOfSteps DEF AccountsInv, UserInv, CommitDelete
  <2>2. ASSUME NEW g \in Handlers PROVE UserCall(call'[g])
    <3>1. CASE g = h
      BY <1>1, <2>1, <3>1
    <3>2. CASE g # h
      BY <2>1, <3>2 DEF AccountsInv, UserInv
    <3> QED BY <3>1, <3>2
  <2>3. UNCHANGED ids /\ user' = [user EXCEPT ![c.user] = NoUser]
    BY <1>2, <1>8 DEF CommitDelete
  <2>4. \A g \in Handlers : UserCall(call[g])'
    BY <2>2, <2>3 DEF UserCall
  <2>5. user' \in [Users -> Row \cup {NoUser}]
    BY <2>3 DEF AccountsInv, UserInv
  <2>6. ~ NoUser.here
    BY DEF NoUser
  <2>7. \A v \in Users : (user[v].here => v \in ids /\ RowSound(user[v]))'
    BY <2>3, <2>6 DEF AccountsInv, UserInv, RowSound
  <2> QED BY <2>1, <2>3, <2>4, <2>5, <2>7 DEF AccountsInv, UserInv
<1>9. CASE RollbackDelete(h)
  BY <1>1, <1>9, UserBeside, CallOfSteps DEF RollbackDelete
<1> QED BY <1>4, <1>5, <1>6, <1>7, <1>8, <1>9

LEMMA UserOfRest ==
  ASSUME AccountsInv, NEW h \in Handlers,
         \/ OpenSession(h) \/ CheckOwner(h) \/ CheckLapsedOwner(h) \/ Rotate(h)
         \/ \E t \in live : BeginRefresh(h, t)
         \/ \E u \in Users, b \in BOOLEAN : CreateAddress(h, u, b)
         \/ \E a \in DOMAIN book, b \in BOOLEAN : PatchAddress(h, a, b)
         \/ ClearDefault(h) \/ SaveAddress(h) \/ Fail(h)
  PROVE  UserInv'
<1>1. UserCall(Idle)
  BY DEF UserCall, Idle
<1>2. PICK c : c = call[h]
  OBVIOUS
<1>3. ASSUME NEW t, BeginRefresh(h, t) PROVE UserInv'
  <2>1. PICK d : d = [at |-> "owner", token |-> t]
    OBVIOUS
  <2>2. UserCall(d)
    BY <2>1 DEF UserCall
  <2> QED BY <1>3, <2>1, <2>2, UserBeside DEF BeginRefresh
<1>4. CASE CheckOwner(h) \/ CheckLapsedOwner(h)
  <2>1. c \in [at : {"owner", "rotate"}, token : Tokens]
    BY <1>2, <1>4 DEF AccountsInv, TokenInv, TokenCall, CheckOwner, CheckLapsedOwner
  <2>2. PICK d : d = [c EXCEPT !.at = "rotate"]
    OBVIOUS
  <2>3. UserCall(d)
    BY <2>1, <2>2 DEF UserCall
  <2>4. Continue(h, d) \/ Continue(h, Idle)
    BY <1>2, <1>4, <2>2, CallOfSteps DEF CheckOwner, CheckLapsedOwner
  <2> QED BY <1>1, <1>4, <2>3, <2>4, UserBeside DEF CheckOwner, CheckLapsedOwner
<1>5. ASSUME NEW u \in Users, NEW b \in BOOLEAN, CreateAddress(h, u, b) PROVE UserInv'
  <2>1. PICK d : d = [at |-> IF b THEN "clear" ELSE "save", id |-> Len(book) + 1,
                      address |-> [here |-> TRUE, user |-> u, default |-> b]]
    OBVIOUS
  <2>2. UserCall(d)
    BY <2>1 DEF UserCall
  <2> QED BY <1>5, <2>1, <2>2, UserBeside DEF CreateAddress
<1>6. ASSUME NEW a \in DOMAIN book, NEW b \in BOOLEAN, PatchAddress(h, a, b) PROVE UserInv'
  <2>1. PICK d : d = [at |-> IF b THEN "clear" ELSE "save", id |-> a,
                      address |-> [book[a] EXCEPT !.default = @ \/ b]]
    OBVIOUS
  <2>2. UserCall(d)
    BY <2>1 DEF UserCall
  <2> QED BY <1>6, <2>1, <2>2, UserBeside DEF PatchAddress
<1>7. CASE ClearDefault(h)
  <2>1. c \in [at : {"clear", "save"}, id : DOMAIN book, address : Address]
    BY <1>2, <1>7 DEF AccountsInv, BookInv, AddressCall, ClearDefault
  <2>2. PICK d : d = [c EXCEPT !.at = "save"]
    OBVIOUS
  <2>3. UserCall(d)
    BY <2>1, <2>2 DEF UserCall
  <2> QED BY <1>2, <1>7, <2>2, <2>3, UserBeside, CallOfSteps DEF ClearDefault
<1>8. CASE OpenSession(h) \/ Rotate(h) \/ SaveAddress(h) \/ Fail(h)
  BY <1>1, <1>8, UserBeside, CallOfSteps DEF OpenSession, Rotate, SaveAddress, Fail
<1> QED BY <1>3, <1>4, <1>5, <1>6, <1>7, <1>8

LEMMA UserStep == AccountsInv /\ [AccountsNext]_vars => UserInv'
<1> SUFFICES ASSUME AccountsInv, [AccountsNext]_vars PROVE UserInv'
  OBVIOUS
<1>1. ASSUME NEW h \in Handlers, Handle(h) PROVE UserInv'
  BY <1>1, UserOfLogin, UserOfStaff, UserOfRest DEF Handle
<1>2. ASSUME NEW u \in Users, Register(u) PROVE UserInv'
  <2>1. /\ ids' = ids \cup {u} /\ user' = [user EXCEPT ![u] = NewUser] /\ call' = call
    BY <1>2 DEF Register
  <2>2. RowSound(NewUser)
    BY Bounds DEF RowSound, Row, NewUser
  <2>3. \A h \in Handlers : UserCall(call[h])'
    BY <2>1 DEF AccountsInv, UserInv, UserCall
  <2>4. user' \in [Users -> Row \cup {NoUser}]
    BY <2>1, <2>2 DEF AccountsInv, UserInv, RowSound
  <2>5. \A v \in Users : (user[v].here => v \in ids /\ RowSound(user[v]))'
    BY <2>1, <2>2 DEF AccountsInv, UserInv, RowSound
  <2> QED BY <2>1, <2>3, <2>4, <2>5 DEF AccountsInv, UserInv
<1>3. ASSUME UNCHANGED <<user, ids, call>> PROVE UserInv'
  <2>1. \A h \in Handlers : UserCall(call[h])'
    BY <1>3 DEF AccountsInv, UserInv, UserCall
  <2>2. \A v \in Users : (user[v].here => v \in ids /\ RowSound(user[v]))'
    BY <1>3 DEF AccountsInv, UserInv, RowSound
  <2> QED BY <1>3, <2>1, <2>2 DEF AccountsInv, UserInv
<1>4. \/ \E h \in Handlers : Handle(h)
      \/ \E u \in Users : Register(u)
      \/ UNCHANGED <<user, ids, call>>
  BY DEF AccountsNext, vars, accountVars, Logout, DeleteAddress, DrainOutbox, DeleteUserData
<1> QED BY <1>1, <1>2, <1>3, <1>4

----------------------------------------------------------------------------
(* What requests are at after a step, for the tables a step leaves alone.    *)

Inert == {"idle", "unlock", "password", "session", "amend", "delete"}

LEMMA InertCalls ==
  ASSUME AccountsInv, NEW h \in Handlers,
         \/ \E u \in Users : \/ BeginLogin(h, u) \/ BeginDelete(h, u)
                             \/ \E b \in BOOLEAN : BeginAmend(h, u, b)
         \/ Unlock(h) \/ RefuseInactive(h) \/ WrongPassword(h) \/ RightPassword(h)
         \/ SaveAmended(h) \/ OpenSession(h) \/ Rotate(h)
         \/ CommitDelete(h) \/ RollbackDelete(h) \/ SaveAddress(h) \/ Fail(h)
  PROVE  \E c : Continue(h, c) /\ c.at \in Inert
<1>1. ASSUME NEW u \in Users, BeginLogin(h, u) PROVE \E c : Continue(h, c) /\ c.at \in Inert
  <2>1. PICK c : c = [at |-> IF user[u].locked THEN "unlock" ELSE "password", user |-> u,
                      row |-> Unlocked(user[u]), tries |-> user[u].tries]
    OBVIOUS
  <2>2. c.at \in Inert
    BY <2>1 DEF Inert
  <2> QED BY <1>1, <2>1, <2>2 DEF BeginLogin
<1>2. ASSUME NEW u \in Users, BeginDelete(h, u) PROVE \E c : Continue(h, c) /\ c.at \in Inert
  <2>1. PICK c : c = [at |-> "delete", user |-> u]
    OBVIOUS
  <2> QED BY <1>2, <2>1 DEF BeginDelete, Inert
<1>3. ASSUME NEW u \in Users, NEW b \in BOOLEAN, BeginAmend(h, u, b)
      PROVE  \E c : Continue(h, c) /\ c.at \in Inert
  <2>1. PICK c : c = [at |-> "amend", user |-> u, row |-> [user[u] EXCEPT !.active = b]]
    OBVIOUS
  <2>2. c.at \in Inert
    BY <2>1 DEF Inert
  <2> QED BY <1>3, <2>1, <2>2 DEF BeginAmend
<1>4. CASE Unlock(h)
  <2>1. call[h] \in LoginCall
    BY <1>4 DEF AccountsInv, UserInv, UserCall, Unlock
  <2>2. PICK c : c = [call[h] EXCEPT !.at = "password", !.tries = 0]
    OBVIOUS
  <2>3. c.at \in Inert
    BY <2>1, <2>2 DEF LoginCall, Inert
  <2> QED BY <1>4, <2>2, <2>3 DEF Unlock, GoOn
<1>5. CASE RightPassword(h)
  <2>1. PICK c : c = [at |-> "session", user |-> call[h].user]
    OBVIOUS
  <2> QED BY <1>5, <2>1 DEF RightPassword, GoOn, Inert
<1>6. CASE \/ RefuseInactive(h) \/ WrongPassword(h) \/ SaveAmended(h) \/ OpenSession(h) \/ Rotate(h)
           \/ CommitDelete(h) \/ RollbackDelete(h) \/ SaveAddress(h) \/ Fail(h)
  <2>1. Done(h)
    BY <1>6 DEF RefuseInactive, WrongPassword, SaveAmended, OpenSession, Rotate, CommitDelete,
                RollbackDelete, SaveAddress, Fail
  <2> QED BY <2>1, CallOfSteps DEF Inert
<1> QED BY <1>1, <1>2, <1>3, <1>4, <1>5, <1>6

LEMMA TokenCalls ==
  ASSUME AccountsInv, NEW h \in Handlers,
         \/ \E t \in live : BeginRefresh(h, t)
         \/ CheckOwner(h) \/ CheckLapsedOwner(h)
  PROVE  \E c : /\ Continue(h, c) /\ c.at \in {"idle", "owner", "rotate"}
                /\ TokenCall(c)
<1>1. ASSUME NEW t \in live, BeginRefresh(h, t)
      PROVE  \E c : Continue(h, c) /\ c.at \in {"idle", "owner", "rotate"} /\ TokenCall(c)
  <2>1. PICK c : c = [at |-> "owner", token |-> t]
    OBVIOUS
  <2>2. Minted(t)
    BY DEF AccountsInv, TokenInv
  <2>3. TokenCall(c) /\ c.at = "owner"
    BY <2>1, <2>2 DEF TokenCall, Minted
  <2> QED BY <1>1, <2>1, <2>3 DEF BeginRefresh
<1>2. CASE CheckOwner(h) \/ CheckLapsedOwner(h)
  <2>1. call[h] \in [at : {"owner", "rotate"}, token : Tokens] /\ Minted(call[h].token)
    BY <1>2 DEF AccountsInv, TokenInv, TokenCall, CheckOwner, CheckLapsedOwner
  <2>2. PICK c : c = [call[h] EXCEPT !.at = "rotate"]
    OBVIOUS
  <2>3. c.at = "rotate" /\ TokenCall(c)
    BY <2>1, <2>2 DEF TokenCall
  <2>4. TokenCall(Idle) /\ Idle.at = "idle"
    BY DEF TokenCall, Idle
  <2>5. Continue(h, c) \/ Continue(h, Idle)
    BY <1>2, <2>2, CallOfSteps DEF CheckOwner, CheckLapsedOwner
  <2> QED BY <2>3, <2>4, <2>5
<1> QED BY <1>1, <1>2

LEMMA DeleteCalls ==
  ASSUME AccountsInv, NEW h \in Handlers, DeleteRow(h)
  PROVE  \E c : /\ Continue(h, c) /\ c.at \in {"idle", "commit"}
                /\ c.at = "commit" => /\ Draw(call[h].user) /\ c.row = Len(outbox) + 1
                /\ c.at = "idle" => UNCHANGED outboxVars
<1>1. PICK c : c = [at |-> "commit", user |-> call[h].user, row |-> Len(outbox) + 1]
  OBVIOUS
<1>2. CASE user[call[h].user].here
  <2>1. Continue(h, c) /\ Draw(call[h].user)
    BY <1>1, <1>2 DEF DeleteRow, GoOn
  <2> QED BY <1>1, <2>1
<1>3. CASE ~ user[call[h].user].here
  BY <1>3, CallOfSteps DEF DeleteRow
<1> QED BY <1>2, <1>3

LEMMA AddressCalls ==
  ASSUME AccountsInv, NEW h \in Handlers,
         \/ \E u \in Users, b \in BOOLEAN : CreateAddress(h, u, b)
         \/ \E a \in DOMAIN book, b \in BOOLEAN : PatchAddress(h, a, b)
         \/ ClearDefault(h)
  PROVE  \E c : Continue(h, c) /\ c.at \in {"clear", "save"}
<1>1. ASSUME NEW u \in Users, NEW b \in BOOLEAN, CreateAddress(h, u, b)
      PROVE  \E c : Continue(h, c) /\ c.at \in {"clear", "save"}
  <2>1. PICK c : c = [at |-> IF b THEN "clear" ELSE "save", id |-> Len(book) + 1,
                      address |-> [here |-> TRUE, user |-> u, default |-> b]]
    OBVIOUS
  <2>2. c.at \in {"clear", "save"}
    BY <2>1
  <2> QED BY <1>1, <2>1, <2>2 DEF CreateAddress
<1>2. ASSUME NEW a \in DOMAIN book, NEW b \in BOOLEAN, PatchAddress(h, a, b)
      PROVE  \E c : Continue(h, c) /\ c.at \in {"clear", "save"}
  <2>1. PICK c : c = [at |-> IF b THEN "clear" ELSE "save", id |-> a,
                      address |-> [book[a] EXCEPT !.default = @ \/ b]]
    OBVIOUS
  <2>2. c.at \in {"clear", "save"}
    BY <2>1
  <2> QED BY <1>2, <2>1, <2>2 DEF PatchAddress
<1>3. CASE ClearDefault(h)
  <2>1. call[h] \in [at : {"clear", "save"}, id : DOMAIN book, address : Address]
    BY <1>3 DEF AccountsInv, BookInv, AddressCall, ClearDefault
  <2>2. PICK c : c = [call[h] EXCEPT !.at = "save"]
    OBVIOUS
  <2>3. c.at = "save"
    BY <2>1, <2>2
  <2> QED BY <1>3, <2>2, <2>3 DEF ClearDefault, GoOn
<1> QED BY <1>1, <1>2, <1>3

----------------------------------------------------------------------------
(* Tokens.                                                                  *)

\* Nothing is minted.
LEMMA TokenBeside ==
  ASSUME AccountsInv, UNCHANGED minted, live' \subseteq live,
         NEW h \in Handlers, NEW c, Continue(h, c), TokenCall(c)
  PROVE  TokenInv'
<1>1. /\ call'[h] = c /\ \A g \in Handlers \ {h} : call'[g] = call[g]
  BY Moved DEF AccountsInv, UserInv
<1>2. ASSUME NEW g \in Handlers PROVE TokenCall(call'[g])
  BY <1>1 DEF AccountsInv, TokenInv
<1>3. \A g \in Handlers : TokenCall(call[g])'
  BY <1>2 DEF TokenCall, Minted
<1>4. \A t \in live' : Minted(t)'
  BY DEF AccountsInv, TokenInv, Minted
<1> QED BY <1>3, <1>4 DEF AccountsInv, TokenInv

\* One more was minted, for a new login or in exchange.
LEMMA TokenMinted ==
  ASSUME AccountsInv, NEW h \in Handlers, NEW c, Continue(h, c), c.at \in Inert,
         minted' \in Seq(1 .. MaxTokens), Len(minted') <= MaxLogins,
         Len(minted) <= Len(minted'),
         \A l \in DOMAIN minted : minted[l] <= minted'[l],
         \A t \in live' \ live : t \in Tokens /\ t.login \in DOMAIN minted' /\ t.nth <= minted'[t.login],
         \A s, t \in live' : s.login = t.login => s = t
  PROVE  TokenInv'
<1>1. /\ call'[h] = c /\ \A g \in Handlers \ {h} : call'[g] = call[g]
  BY Moved DEF AccountsInv, UserInv
<1>2. \A t : Minted(t) => Minted(t)'
  <2>1. minted \in Seq(1 .. MaxTokens) /\ minted' \in Seq(1 .. MaxTokens)
    BY DEF AccountsInv, TokenInv
  <2>2. DOMAIN minted = 1 .. Len(minted) /\ DOMAIN minted' = 1 .. Len(minted')
        /\ Len(minted) \in Nat /\ Len(minted') \in Nat
    BY <2>1
  <2>3. DOMAIN minted \subseteq DOMAIN minted'
    BY <2>2
  <2> SUFFICES ASSUME NEW t, Minted(t) PROVE Minted(t)'
    OBVIOUS
  <2>4. PICK l \in DOMAIN minted : l = t.login /\ t \in Tokens /\ t.nth <= minted[l]
    BY DEF Minted
  <2>5. minted[l] \in Nat /\ minted'[l] \in Nat /\ t.nth \in Nat
    <3>1. minted[l] \in 1 .. MaxTokens
      BY <2>1, <2>4, SeqParts
    <3>2. minted'[l] \in 1 .. MaxTokens
      BY <2>1, <2>3, <2>4, SeqParts
    <3>3. t.nth \in 1 .. MaxTokens
      BY <2>4 DEF Tokens
    <3> QED BY <3>1, <3>2, <3>3
  <2>7. minted[l] <= minted'[l]
    BY <2>4
  <2>6. t.nth <= minted'[l]
    BY <2>4, <2>5, <2>7
  <2> QED BY <2>3, <2>4, <2>6 DEF Minted
<1>3. ASSUME NEW g \in Handlers PROVE TokenCall(call[g])'
  <2>1. CASE g = h
    BY <1>1, <2>1 DEF TokenCall, Inert
  <2>2. CASE g # h
    BY <1>1, <1>2, <2>2 DEF AccountsInv, TokenInv, TokenCall
  <2> QED BY <2>1, <2>2
<1>4. \A t \in live' : Minted(t)'
  BY <1>2 DEF AccountsInv, TokenInv, Minted
<1> QED BY <1>3, <1>4 DEF AccountsInv, TokenInv

LEMMA TokenOfMints ==
  ASSUME AccountsInv, NEW h \in Handlers, OpenSession(h) \/ Rotate(h)
  PROVE  TokenInv'
<1>1. PICK c : Continue(h, c) /\ c.at \in Inert
  BY InertCalls
<1>2. PICK n \in Nat : n = Len(minted) /\ n <= MaxLogins
  BY DEF AccountsInv, TokenInv
<1>5. PICK m \in [1 .. n -> 1 .. MaxTokens] : m = minted
  <2>1. minted \in Seq(1 .. MaxTokens)
    BY DEF AccountsInv, TokenInv
  <2>2. minted \in [1 .. n -> 1 .. MaxTokens]
    BY <1>2, <2>1, SeqParts
  <2> QED BY <2>2
<1>3. CASE OpenSession(h)
  <2>1. PICK t : t = [login |-> n + 1, nth |-> 1, user |-> call[h].user]
    OBVIOUS
  <2>2. n + 1 \in 1 .. MaxLogins /\ 1 \in 1 .. MaxTokens
    BY <1>2, <1>5, <1>3, Bounds DEF OpenSession
  <2>3. t \in Tokens /\ t.login = n + 1 /\ t.nth = 1
    BY <1>3, <2>1, <2>2 DEF Tokens, OpenSession, AccountsInv, UserInv, UserCall
  <2>4. minted' = Append(minted, 1) /\ live' = live \cup {t}
    BY <1>2, <1>5, <1>3, <2>1 DEF OpenSession
  <2>5. /\ minted' \in Seq(1 .. MaxTokens) /\ Len(minted') = n + 1
        /\ minted'[n + 1] = 1 /\ \A l \in 1 .. n : minted'[l] = minted[l]
    BY <1>2, <1>5, <2>2, <2>4 DEF AccountsInv, TokenInv
  <2>6. \A s \in live : s.login \in 1 .. n
    BY <1>2 DEF AccountsInv, TokenInv, Minted
  <2>7. \A s \in live : s.login # n + 1
    BY <2>6
  <2>8. \A r, s \in live' : r.login = s.login => r = s
    BY <2>3, <2>4, <2>7 DEF AccountsInv, TokenInv
  <2>9. /\ Len(minted') <= MaxLogins /\ Len(minted) <= Len(minted')
        /\ \A l \in DOMAIN minted : minted[l] <= minted'[l]
    BY <1>2, <1>5, <2>2, <2>5, Bounds
  <2>10. n + 1 \in DOMAIN minted' /\ t.nth <= minted'[n + 1]
    BY <1>2, <1>5, <2>3, <2>5
  <2> QED BY <1>1, <2>3, <2>4, <2>5, <2>8, <2>9, <2>10, TokenMinted
<1>4. CASE Rotate(h)
  <2>1. PICK t \in Tokens : t = call[h].token /\ Minted(t)
    BY <1>4 DEF Rotate, AccountsInv, TokenInv, TokenCall
  <2>2. PICK l \in 1 .. n : l = t.login
    BY <1>2, <1>5, <2>1 DEF Minted
  <2>3. PICK k \in 1 .. MaxTokens : k = m[l] + 1
    <3>1. m[l] \in 1 .. MaxTokens
      BY <1>5
    <3>2. m[l] < MaxTokens
      BY <1>5, <1>4, <2>1, <2>2 DEF Rotate
    <3> QED BY <3>1, <3>2, Bounds
  <2>4. PICK s : s = [t EXCEPT !.nth = k]
    OBVIOUS
  <2>5. s \in Tokens /\ s.login = l /\ s.nth = k
    BY <2>2, <2>4 DEF Tokens
  <2>6. /\ minted' = [minted EXCEPT ![l] = k]
        /\ IF t \in live THEN live' = (live \ {t}) \cup {s} ELSE live' = live
    <3>1. minted' = [minted EXCEPT ![l] = minted[l] + 1]
      BY <1>4, <2>1, <2>2 DEF Rotate
    <3>2. IF t \in live THEN live' = (live \ {t}) \cup {[t EXCEPT !.nth = minted[l] + 1]} ELSE live' = live
      BY <1>4, <2>1, <2>2 DEF Rotate
    <3> QED BY <1>2, <1>5, <2>3, <2>4, <3>1, <3>2
  <2>7. /\ minted' \in Seq(1 .. MaxTokens) /\ Len(minted') = n
        /\ minted'[l] = k /\ \A j \in 1 .. n : j # l => minted'[j] = m[j]
    BY <1>2, <1>5, <2>6 DEF AccountsInv, TokenInv
  <2>8. /\ Len(minted') <= MaxLogins /\ Len(minted) <= Len(minted')
        /\ \A j \in DOMAIN minted : minted[j] <= minted'[j]
    <3>1. \A j \in 1 .. n : m[j] \in 1 .. MaxTokens
      BY <1>2, <1>5
    <3>2. \A j \in 1 .. n : m[j] <= minted'[j]
      <4> SUFFICES ASSUME NEW j \in 1 .. n PROVE m[j] <= minted'[j]
        OBVIOUS
      <4>1. m[j] \in Nat /\ m[l] \in Nat
        BY <3>1
      <4>2. CASE j = l
        BY <2>3, <2>7, <4>1, <4>2
      <4>3. CASE j # l
        BY <2>7, <4>1, <4>3
      <4> QED BY <4>2, <4>3
    <3> QED BY <1>2, <1>5, <2>7, <3>2
  <2>9. \A q, r \in live' : q.login = r.login => q = r
    BY <2>1, <2>2, <2>5, <2>6 DEF AccountsInv, TokenInv
  <2>10. l \in DOMAIN minted' /\ k <= minted'[l]
    BY <1>2, <1>5, <2>2, <2>3, <2>7, Bounds
  <2>11. \A q \in live' \ live : q = s
    BY <2>6
  <2> QED BY <1>1, <2>5, <2>7, <2>8, <2>9, <2>10, <2>11, TokenMinted
<1> QED BY <1>3, <1>4

LEMMA TokenStep == AccountsInv /\ [AccountsNext]_vars => TokenInv'
<1> SUFFICES ASSUME AccountsInv, [AccountsNext]_vars PROVE TokenInv'
  OBVIOUS
<1>1. ASSUME NEW h \in Handlers, Handle(h) PROVE TokenInv'
  <2>1. CASE OpenSession(h) \/ Rotate(h)
    BY <2>1, TokenOfMints
  <2>2. CASE \/ \E t \in live : BeginRefresh(h, t)
             \/ CheckOwner(h) \/ CheckLapsedOwner(h)
    <3>1. UNCHANGED <<minted, live>>
      BY <2>2 DEF BeginRefresh, CheckOwner, CheckLapsedOwner
    <3> QED BY <2>2, <3>1, TokenCalls, TokenBeside
  <2>3. CASE DeleteRow(h)
    <3>1. PICK c : Continue(h, c) /\ c.at \in {"idle", "commit"}
      BY <2>3, DeleteCalls
    <3>2. TokenCall(c)
      BY <3>1 DEF TokenCall
    <3>3. UNCHANGED <<minted, live>>
      BY <2>3 DEF DeleteRow
    <3> QED BY <3>1, <3>2, <3>3, TokenBeside
  <2>4. CASE \/ \E u \in Users, b \in BOOLEAN : CreateAddress(h, u, b)
             \/ \E a \in DOMAIN book, b \in BOOLEAN : PatchAddress(h, a, b)
             \/ ClearDefault(h)
    <3>1. PICK c : Continue(h, c) /\ c.at \in {"clear", "save"}
      BY <2>4, AddressCalls
    <3>2. TokenCall(c)
      BY <3>1 DEF TokenCall
    <3>3. UNCHANGED <<minted, live>>
      BY <2>4 DEF CreateAddress, PatchAddress, ClearDefault
    <3> QED BY <3>1, <3>2, <3>3, TokenBeside
  <2>5. CASE \/ \E u \in Users : \/ BeginLogin(h, u) \/ BeginDelete(h, u)
                                 \/ \E b \in BOOLEAN : BeginAmend(h, u, b)
             \/ Unlock(h) \/ RefuseInactive(h) \/ WrongPassword(h) \/ RightPassword(h)
             \/ SaveAmended(h) \/ CommitDelete(h) \/ RollbackDelete(h) \/ SaveAddress(h) \/ Fail(h)
    <3>1. PICK c : Continue(h, c) /\ c.at \in Inert
      BY <2>5, InertCalls
    <3>2. TokenCall(c)
      BY <3>1 DEF TokenCall, Inert
    <3>3. UNCHANGED <<minted, live>>
      BY <2>5 DEF BeginLogin, BeginDelete, BeginAmend, Unlock, RefuseInactive, WrongPassword,
                  RightPassword, SaveAmended, CommitDelete, RollbackDelete, SaveAddress, Fail
    <3> QED BY <3>1, <3>2, <3>3, TokenBeside
  <2> QED BY <1>1, <2>1, <2>2, <2>3, <2>4, <2>5 DEF Handle
<1>2. ASSUME UNCHANGED <<minted, call>>, live' \subseteq live PROVE TokenInv'
  <2>1. \A h \in Handlers : TokenCall(call[h])'
    BY <1>2 DEF AccountsInv, TokenInv, TokenCall, Minted
  <2>2. \A t \in live' : Minted(t)'
    BY <1>2 DEF AccountsInv, TokenInv, Minted
  <2> QED BY <1>2, <2>1, <2>2 DEF AccountsInv, TokenInv
<1>3. \/ \E h \in Handlers : Handle(h)
      \/ UNCHANGED <<minted, call>> /\ live' \subseteq live
  BY DEF AccountsNext, vars, accountVars, Register, Logout, DeleteAddress, DrainOutbox, DeleteUserData
<1> QED BY <1>1, <1>2, <1>3

\* What a step does to the tokens in Redis.
LEMMA TokensMove ==
  ASSUME AccountsInv, [AccountsNext]_vars
  PROVE  \/ live' \subseteq live
         \/ \E t : live' = live \cup {t} /\ t.login \notin DOMAIN minted
         \/ \E s \in live : \E t : live' = (live \ {s}) \cup {t} /\ t.login = s.login
<1>1. ASSUME NEW h \in Handlers, OpenSession(h)
      PROVE  \E t : live' = live \cup {t} /\ t.login \notin DOMAIN minted
  <2>1. PICK t : t = [login |-> Len(minted) + 1, nth |-> 1, user |-> call[h].user]
    OBVIOUS
  <2>2. minted \in Seq(1 .. MaxTokens)
    BY DEF AccountsInv, TokenInv
  <2>3. Len(minted) + 1 \notin DOMAIN minted
    BY <2>2
  <2>4. live' = live \cup {t}
    BY <1>1, <2>1 DEF OpenSession
  <2> QED BY <2>1, <2>3, <2>4
<1>2. ASSUME NEW h \in Handlers, Rotate(h)
      PROVE  \/ live' \subseteq live
             \/ \E s \in live : \E t : live' = (live \ {s}) \cup {t} /\ t.login = s.login
  <2>1. PICK s \in Tokens : s = call[h].token
    BY <1>2 DEF Rotate, AccountsInv, TokenInv, TokenCall, Minted
  <2>2. PICK k : k = minted[s.login] + 1
    OBVIOUS
  <2>3. PICK t : t = [s EXCEPT !.nth = k]
    OBVIOUS
  <2>4. t.login = s.login
    BY <2>1, <2>3 DEF Tokens
  <2>5. live' = IF s \in live THEN (live \ {s}) \cup {t} ELSE live
    BY <1>2, <2>1, <2>2, <2>3 DEF Rotate
  <2> QED BY <2>4, <2>5
<1>3. \/ \E h \in Handlers : OpenSession(h) \/ Rotate(h)
      \/ live' \subseteq live
  <2>1. ASSUME NEW h \in Handlers, Handle(h), ~ OpenSession(h), ~ Rotate(h)
        PROVE  UNCHANGED live
    <3>1. CASE \/ \E u \in Users : \/ BeginLogin(h, u) \/ BeginDelete(h, u)
                                   \/ \E b \in BOOLEAN : BeginAmend(h, u, b) \/ CreateAddress(h, u, b)
               \/ Unlock(h) \/ RefuseInactive(h) \/ WrongPassword(h) \/ RightPassword(h)
               \/ SaveAmended(h)
      BY <3>1 DEF BeginLogin, BeginDelete, BeginAmend, CreateAddress, Unlock, RefuseInactive,
                  WrongPassword, RightPassword, SaveAmended
    <3>2. CASE \/ CheckOwner(h) \/ CheckLapsedOwner(h)
               \/ \E t \in live : BeginRefresh(h, t)
               \/ DeleteRow(h) \/ CommitDelete(h) \/ RollbackDelete(h)
      BY <3>2 DEF CheckOwner, CheckLapsedOwner, BeginRefresh, DeleteRow, CommitDelete, RollbackDelete
    <3>3. CASE \/ \E a \in DOMAIN book, b \in BOOLEAN : PatchAddress(h, a, b)
               \/ ClearDefault(h) \/ SaveAddress(h) \/ Fail(h)
      BY <3>3 DEF PatchAddress, ClearDefault, SaveAddress, Fail
    <3> QED BY <2>1, <3>1, <3>2, <3>3 DEF Handle
  <2>2. ASSUME ~ \E h \in Handlers : Handle(h) PROVE live' \subseteq live
    BY <2>2 DEF AccountsNext, vars, accountVars, Register, Logout, DeleteAddress, DrainOutbox,
                DeleteUserData
  <2> QED BY <2>1, <2>2
<1> QED BY <1>1, <1>2, <1>3

\* The tokens of a login, before and after a step.
LEMMA LoginStep ==
  AccountsInv /\ [AccountsNext]_vars =>
    \A l \in DOMAIN minted : /\ Cardinality(TokensOf(l, live')) <= 1
                             /\ TokensOf(l, live) = {} => TokensOf(l, live') = {}
<1> SUFFICES ASSUME AccountsInv, [AccountsNext]_vars, NEW l \in DOMAIN minted
             PROVE  /\ Cardinality(TokensOf(l, live')) <= 1
                    /\ TokensOf(l, live) = {} => TokensOf(l, live') = {}
  OBVIOUS
<1>1. Cardinality(TokensOf(l, live')) <= 1
  <2>1. \A s, t \in TokensOf(l, live') : s = t
    BY TokenStep DEF TokenInv, TokensOf
  <2>2. CASE TokensOf(l, live') = {}
    BY <2>2, FS_EmptySet
  <2>3. CASE TokensOf(l, live') # {}
    <3>1. PICK t : t \in TokensOf(l, live')
      BY <2>3
    <3>2. TokensOf(l, live') = {t}
      BY <2>1, <3>1
    <3>3. Cardinality({t}) = 1
      BY FS_Singleton
    <3> QED BY <3>2, <3>3
  <2> QED BY <2>2, <2>3
<1>2. ASSUME TokensOf(l, live) = {} PROVE TokensOf(l, live') = {}
  BY <1>2, TokensMove DEF TokensOf
<1> QED BY <1>1, <1>2

----------------------------------------------------------------------------
(* Addresses.                                                               *)

LEMMA ClaimedFinite ==
  ASSUME AccountsInv, NEW u \in Users
  PROVE  /\ Claimed(u) \subseteq DOMAIN book
         /\ IsFiniteSet(Claimed(u)) /\ Cardinality(Claimed(u)) \in Nat
         /\ IsFiniteSet(AddressesOf(u)) /\ Cardinality(AddressesOf(u)) \in Nat
<1>1. Claimed(u) \subseteq DOMAIN book
  <2>1. \A h \in Handlers : Saves(h, u) => call[h].id \in DOMAIN book
    BY DEF AccountsInv, BookInv, AddressCall, Saves
  <2> QED BY <2>1 DEF Claimed, AddressesOf
<1>2. DOMAIN book = 1 .. Len(book) /\ Len(book) \in Nat
  <2>1. book \in Seq(Address \cup {NoAddress})
    BY DEF AccountsInv, BookInv
  <2> QED BY <2>1, SeqParts
<1>3. IsFiniteSet(1 .. Len(book))
  BY <1>2, FS_Interval
<1>4. AddressesOf(u) \subseteq DOMAIN book
  BY DEF AddressesOf
<1> QED BY <1>1, <1>2, <1>3, <1>4, FS_Subset, FS_CardinalityType

\* A step that claims no address it had not claimed.
LEMMA ClaimsKept ==
  ASSUME AccountsInv, book' \in Seq(Address \cup {NoAddress}),
         \A g \in Handlers : AddressCall(call[g])',
         \A u \in Users : AddressesOf(u)' \subseteq Claimed(u),
         \A u \in Users : \A g \in Handlers : Saves(g, u)' => call'[g].id \in Claimed(u),
         \A u \in Users : \A a, b \in DefaultsOf(u)' : a = b
  PROVE  BookInv'
<1>1. ASSUME NEW u \in Users PROVE Cardinality(Claimed(u))' <= ClaimLimit
  <2>1. Claimed(u)' \subseteq Claimed(u)
    BY DEF Claimed
  <2>2. IsFiniteSet(Claimed(u)) /\ Cardinality(Claimed(u)) \in Nat
    BY ClaimedFinite
  <2>3. /\ IsFiniteSet(Claimed(u)') /\ Cardinality(Claimed(u)') \in Nat
        /\ Cardinality(Claimed(u)') <= Cardinality(Claimed(u))
    BY <2>1, <2>2, FS_Subset, FS_CardinalityType
  <2>4. Cardinality(Claimed(u)) <= ClaimLimit
    BY DEF AccountsInv, BookInv
  <2>5. ClaimLimit \in Int
    BY Bounds DEF ClaimLimit
  <2> QED BY <2>2, <2>3, <2>4, <2>5
<1>2. ClaimLimit' = ClaimLimit
  BY DEF ClaimLimit
<1> QED BY <1>1, <1>2 DEF BookInv

\* A request that saves no address moves on.
LEMMA BookBeside ==
  ASSUME AccountsInv, UNCHANGED book,
         NEW h \in Handlers, NEW c, Continue(h, c), c.at \notin {"clear", "save"}
  PROVE  BookInv'
<1>1. /\ call'[h] = c /\ \A g \in Handlers \ {h} : call'[g] = call[g]
  BY Moved DEF AccountsInv, UserInv
<1>2. ASSUME NEW g \in Handlers PROVE AddressCall(call[g])'
  BY <1>1 DEF AccountsInv, BookInv, AddressCall
<1>3. \A u \in Users : AddressesOf(u)' \subseteq Claimed(u)
  BY DEF AddressesOf, Claimed
<1>4. ASSUME NEW u \in Users, NEW g \in Handlers, Saves(g, u)' PROVE call'[g].id \in Claimed(u)
  BY <1>1, <1>4 DEF Saves, Claimed
<1>5. \A u \in Users : \A a, b \in DefaultsOf(u)' : a = b
  BY DEF AccountsInv, BookInv, DefaultsOf, AddressesOf
<1>6. book' \in Seq(Address \cup {NoAddress})
  BY DEF AccountsInv, BookInv
<1> QED BY <1>2, <1>3, <1>4, <1>5, <1>6, ClaimsKept

\* Addresses are deleted.
LEMMA BookShrinks ==
  ASSUME AccountsInv, UNCHANGED call, book' = [a \in DOMAIN book |-> book'[a]],
         \A a \in DOMAIN book : book'[a] \in {book[a], NoAddress}
  PROVE  BookInv'
<1>1. book \in Seq(Address \cup {NoAddress}) /\ ~ NoAddress.here
  BY DEF AccountsInv, BookInv, NoAddress
<1>2. /\ DOMAIN book = 1 .. Len(book) /\ Len(book) \in Nat
      /\ \A a \in DOMAIN book : book[a] \in Address \cup {NoAddress}
  BY <1>1, SeqParts
<1>3. book' \in [1 .. Len(book) -> Address \cup {NoAddress}]
  BY <1>2
<1>4. book' \in Seq(Address \cup {NoAddress})
  BY <1>2, <1>3
<1>5. DOMAIN book' = DOMAIN book
  BY <1>2, <1>3
<1>6. \A g \in Handlers : AddressCall(call[g])'
  BY <1>5 DEF AccountsInv, BookInv, AddressCall
<1>7. \A a \in DOMAIN book' : book'[a].here => book'[a] = book[a]
  BY <1>1, <1>5
<1>8. \A u \in Users : AddressesOf(u)' \subseteq Claimed(u)
  BY <1>5, <1>7 DEF AddressesOf, Claimed
<1>9. \A u \in Users : \A g \in Handlers : Saves(g, u)' => call'[g].id \in Claimed(u)
  BY DEF Saves, Claimed
<1>10. \A u \in Users : DefaultsOf(u)' \subseteq DefaultsOf(u)
  BY <1>5, <1>7 DEF DefaultsOf, AddressesOf
<1>11. \A u \in Users : \A a, b \in DefaultsOf(u)' : a = b
  BY <1>10 DEF AccountsInv, BookInv
<1> QED BY <1>4, <1>6, <1>8, <1>9, <1>11, ClaimsKept

LEMMA BookOfCreate ==
  ASSUME AccountsInv, NEW h \in Handlers, NEW u \in Users, NEW b \in BOOLEAN, CreateAddress(h, u, b)
  PROVE  BookInv'
<1>1. PICK n \in Nat : n = Len(book)
  BY SeqParts DEF AccountsInv, BookInv
<1>2. PICK d : d = [here |-> TRUE, user |-> u, default |-> b]
  OBVIOUS
<1>3. d \in Address /\ d.user = u
  BY <1>2 DEF Address
<1>4. PICK c : c = [at |-> IF b THEN "clear" ELSE "save", id |-> n + 1, address |-> d]
  OBVIOUS
<1>5. c.at \in {"clear", "save"} /\ c.id = n + 1 /\ c.address = d
  BY <1>4
<1>6. Continue(h, c) /\ book' = Append(book, NoAddress) /\ MayAdd(u)
  BY <1>1, <1>2, <1>4 DEF CreateAddress
<1>7. /\ call'[h] = c /\ \A g \in Handlers \ {h} : call'[g] = call[g]
  BY <1>6, Moved DEF AccountsInv, UserInv
<1>8. book \in Seq(Address \cup {NoAddress}) /\ ~ NoAddress.here
  BY DEF AccountsInv, BookInv, NoAddress
<1>9. /\ book' \in Seq(Address \cup {NoAddress})
      /\ DOMAIN book = 1 .. n /\ DOMAIN book' = 1 .. n + 1
      /\ book'[n + 1] = NoAddress /\ \A a \in 1 .. n : book'[a] = book[a]
  BY <1>1, <1>6, <1>8
<1>10. n + 1 \notin 1 .. n /\ n + 1 \in 1 .. n + 1 /\ \A a \in 1 .. n + 1 : a = n + 1 \/ a \in 1 .. n
  BY <1>1
<1>11. \A v \in Users : AddressesOf(v)' = AddressesOf(v)
  BY <1>8, <1>9, <1>10 DEF AddressesOf
<1>12. \A v \in Users : DefaultsOf(v)' \subseteq DefaultsOf(v)
  <2>1. \A v \in Users : AddressesOf(v) \subseteq 1 .. n
    BY <1>9 DEF AddressesOf
  <2> QED BY <1>9, <1>11, <2>1 DEF DefaultsOf
<1>13. ASSUME NEW g \in Handlers PROVE AddressCall(call[g])'
  <2>1. CASE g = h
    <3>1. c \in [at : {"clear", "save"}, id : DOMAIN book', address : Address]
      BY <1>3, <1>4, <1>5, <1>9, <1>10
    <3> QED BY <1>7, <2>1, <3>1 DEF AddressCall
  <2>2. CASE g # h
    <3>1. DOMAIN book \subseteq DOMAIN book'
      BY <1>9, <1>10
    <3> QED BY <1>7, <2>2, <3>1 DEF AccountsInv, BookInv, AddressCall
  <2> QED BY <2>1, <2>2
<1>14. ASSUME NEW v \in Users, v # u PROVE Claimed(v)' \subseteq Claimed(v)
  BY <1>3, <1>5, <1>7, <1>11, <1>14 DEF Claimed, Saves
<1>15. Cardinality(Claimed(u)') <= ClaimLimit
  <2>1. PICK image : image = {call'[g].id : g \in Handlers}
    OBVIOUS
  <2>2. /\ IsFiniteSet(image) /\ Cardinality(image) \in Nat
        /\ Cardinality(image) <= Cardinality(Handlers)
    <3>1. PICK f : f = [g \in Handlers |-> call'[g].id]
      OBVIOUS
    <3>2. f \in Surjection(Handlers, image)
      BY <2>1, <3>1 DEF Surjection
    <3> QED BY <3>2, Bounds, FS_Surjection, FS_CardinalityType
  <2>3. PICK rows : rows = AddressesOf(u)
    OBVIOUS
  <2>4. IsFiniteSet(rows) /\ Cardinality(rows) \in Nat /\ Cardinality(rows) < MaxAddresses
    BY <1>6, <2>3, ClaimedFinite DEF MayAdd
  <2>5. IsFiniteSet(rows \cap image) /\ Cardinality(rows \cap image) \in Nat
    BY <2>4, FS_Subset, FS_CardinalityType
  <2>6. /\ IsFiniteSet(rows \cup image)
        /\ Cardinality(rows \cup image) =
             Cardinality(rows) + Cardinality(image) - Cardinality(rows \cap image)
    BY <2>2, <2>4, FS_Union
  <2>7. Cardinality(rows \cup image) \in Nat
    BY <2>6, FS_CardinalityType
  <2>8. Claimed(u)' \subseteq rows \cup image
    BY <1>11, <2>1, <2>3 DEF Claimed
  <2>9. /\ Cardinality(Claimed(u)') <= Cardinality(rows \cup image)
        /\ Cardinality(Claimed(u)') \in Nat
    BY <2>6, <2>8, FS_Subset, FS_CardinalityType
  <2> QED BY <2>2, <2>4, <2>5, <2>6, <2>7, <2>9, Bounds DEF ClaimLimit
<1>16. ASSUME NEW v \in Users PROVE Cardinality(Claimed(v)') <= ClaimLimit
  <2>1. CASE v = u
    BY <1>15, <2>1
  <2>2. CASE v # u
    <3>1. Claimed(v)' \subseteq Claimed(v)
      BY <1>14, <2>2
    <3>2. IsFiniteSet(Claimed(v)) /\ Cardinality(Claimed(v)) \in Nat
      BY ClaimedFinite
    <3>3. /\ Cardinality(Claimed(v)') \in Nat
          /\ Cardinality(Claimed(v)') <= Cardinality(Claimed(v))
      BY <3>1, <3>2, FS_Subset, FS_CardinalityType
    <3>4. Cardinality(Claimed(v)) <= ClaimLimit
      BY DEF AccountsInv, BookInv
    <3>5. ClaimLimit \in Int
      BY Bounds DEF ClaimLimit
    <3> QED BY <3>2, <3>3, <3>4, <3>5
  <2> QED BY <2>1, <2>2
<1>17. \A v \in Users : \A x, y \in DefaultsOf(v)' : x = y
  BY <1>12 DEF AccountsInv, BookInv
<1>18. ClaimLimit' = ClaimLimit
  BY DEF ClaimLimit
<1> QED BY <1>9, <1>13, <1>16, <1>17, <1>18 DEF BookInv

LEMMA BookOfPatch ==
  ASSUME AccountsInv, NEW h \in Handlers, NEW a \in DOMAIN book, NEW b \in BOOLEAN,
         PatchAddress(h, a, b)
  PROVE  BookInv'
<1>1. book \in Seq(Address \cup {NoAddress}) /\ ~ NoAddress.here /\ book[a].here
  BY DEF AccountsInv, BookInv, NoAddress, PatchAddress
<1>2. PICK r \in Address : r = book[a]
  BY <1>1, SeqParts
<1>3. PICK e \in BOOLEAN : e = (r.default \/ b)
  OBVIOUS
<1>4. PICK d : d = [r EXCEPT !.default = e]
  OBVIOUS
<1>5. d \in Address /\ d.user = r.user
  BY <1>4 DEF Address
<1>6. PICK c : c = [at |-> IF b THEN "clear" ELSE "save", id |-> a, address |-> d]
  OBVIOUS
<1>7. c.at \in {"clear", "save"} /\ c.id = a /\ c.address = d
  BY <1>6
<1>8. Continue(h, c) /\ UNCHANGED book
  <2>1. [r EXCEPT !.default = @ \/ b] = d
    BY <1>2, <1>3, <1>4 DEF Address
  <2> QED BY <1>2, <1>6, <2>1 DEF PatchAddress
<1>9. /\ call'[h] = c /\ \A g \in Handlers \ {h} : call'[g] = call[g]
  BY <1>8, Moved DEF AccountsInv, UserInv
<1>10. ASSUME NEW g \in Handlers PROVE AddressCall(call[g])'
  <2>1. CASE g = h
    <3>1. c \in [at : {"clear", "save"}, id : DOMAIN book, address : Address]
      BY <1>5, <1>6, <1>7
    <3> QED BY <1>8, <1>9, <2>1, <3>1 DEF AddressCall
  <2>2. CASE g # h
    BY <1>8, <1>9, <2>2 DEF AccountsInv, BookInv, AddressCall
  <2> QED BY <2>1, <2>2
<1>11. \A u \in Users : AddressesOf(u)' \subseteq Claimed(u)
  BY <1>8 DEF AddressesOf, Claimed
<1>12. ASSUME NEW u \in Users, NEW g \in Handlers, Saves(g, u)' PROVE call'[g].id \in Claimed(u)
  <2>1. CASE g = h
    <3>1. r.user = u
      BY <1>5, <1>7, <1>9, <1>12, <2>1 DEF Saves
    <3>2. a \in AddressesOf(u)
      BY <1>1, <1>2, <3>1 DEF AddressesOf
    <3> QED BY <1>7, <1>9, <2>1, <3>2 DEF Claimed
  <2>2. CASE g # h
    BY <1>9, <1>12, <2>2 DEF Saves, Claimed
  <2> QED BY <2>1, <2>2
<1>13. \A u \in Users : \A x, y \in DefaultsOf(u)' : x = y
  BY <1>8 DEF AccountsInv, BookInv, DefaultsOf, AddressesOf
<1> QED BY <1>1, <1>8, <1>10, <1>11, <1>12, <1>13, ClaimsKept

\* A request that will save clears the defaults first.
LEMMA BookOfClear ==
  ASSUME AccountsInv, NEW h \in Handlers, ClearDefault(h)
  PROVE  BookInv'
<1>1. PICK c \in [at : {"clear", "save"}, id : DOMAIN book, address : Address] : c = call[h]
  BY DEF ClearDefault, AccountsInv, BookInv, AddressCall
<1>2. PICK d : d = [c EXCEPT !.at = "save"]
  OBVIOUS
<1>3. /\ d \in [at : {"clear", "save"}, id : DOMAIN book, address : Address]
      /\ d.id = c.id /\ d.address = c.address
  BY <1>2
<1>4. PICK n \in Nat : n = Len(book) /\ DOMAIN book = 1 .. n
                       /\ \A a \in DOMAIN book : book[a] \in Address \cup {NoAddress}
  BY SeqParts DEF AccountsInv, BookInv
<1>5. PICK S : S = DefaultsOf(c.address.user)
  OBVIOUS
<1>6. /\ book' = [a \in DOMAIN book |-> IF a \in S THEN [book[a] EXCEPT !.default = FALSE] ELSE book[a]]
      /\ Continue(h, d)
  BY <1>1, <1>2, <1>5 DEF ClearDefault, GoOn
<1>7. /\ call'[h] = d /\ \A g \in Handlers \ {h} : call'[g] = call[g]
  BY <1>6, Moved DEF AccountsInv, UserInv
<1>8. ASSUME NEW a \in DOMAIN book
      PROVE  /\ book'[a] \in Address \cup {NoAddress} /\ book'[a].here = book[a].here
             /\ book[a].here => /\ book'[a].user = book[a].user
                                /\ book'[a].default => book[a].default
  <2>1. CASE a \in S
    <3>1. book[a] \in Address
      BY <1>4, <1>5, <2>1 DEF DefaultsOf, AddressesOf, NoAddress
    <3>2. book'[a] = [book[a] EXCEPT !.default = FALSE]
      BY <1>6, <2>1
    <3> QED BY <3>1, <3>2 DEF Address
  <2>2. CASE a \notin S
    <3>1. book'[a] = book[a]
      BY <1>6, <2>2
    <3> QED BY <1>4, <3>1
  <2> QED BY <2>1, <2>2
<1>9. book' \in [1 .. n -> Address \cup {NoAddress}] /\ DOMAIN book' = DOMAIN book
  BY <1>4, <1>6, <1>8
<1>10. book' \in Seq(Address \cup {NoAddress})
  BY <1>9
<1>11. ASSUME NEW g \in Handlers PROVE AddressCall(call[g])'
  <2>1. CASE g = h
    BY <1>3, <1>7, <1>9, <2>1 DEF AddressCall
  <2>2. CASE g # h
    BY <1>7, <1>9, <2>2 DEF AccountsInv, BookInv, AddressCall
  <2> QED BY <2>1, <2>2
<1>12. \A u \in Users : AddressesOf(u)' \subseteq AddressesOf(u)
  BY <1>8, <1>9 DEF AddressesOf
<1>13. \A u \in Users : AddressesOf(u)' \subseteq Claimed(u)
  BY <1>12 DEF Claimed
<1>14. ASSUME NEW u \in Users, NEW g \in Handlers, Saves(g, u)' PROVE call'[g].id \in Claimed(u)
  <2>1. Saves(g, u) /\ call'[g].id = call[g].id
    BY <1>1, <1>3, <1>7, <1>14 DEF Saves
  <2> QED BY <2>1 DEF Claimed
<1>15. \A u \in Users : DefaultsOf(u)' \subseteq DefaultsOf(u)
  <2> SUFFICES ASSUME NEW u \in Users, NEW a \in DefaultsOf(u)' PROVE a \in DefaultsOf(u)
    OBVIOUS
  <2>1. a \in AddressesOf(u)' /\ book'[a].default
    BY DEF DefaultsOf
  <2>2. a \in AddressesOf(u)
    BY <1>12, <2>1
  <2>3. a \in DOMAIN book /\ book[a].here
    BY <2>2 DEF AddressesOf
  <2> QED BY <1>8, <2>1, <2>2, <2>3 DEF DefaultsOf
<1>16. \A u \in Users : \A x, y \in DefaultsOf(u)' : x = y
  BY <1>15 DEF AccountsInv, BookInv
<1> QED BY <1>10, <1>11, <1>13, <1>14, <1>16, ClaimsKept

LEMMA BookOfSave ==
  ASSUME AccountsInv, NEW h \in Handlers, SaveAddress(h)
  PROVE  BookInv'
<1>1. PICK c \in [at : {"clear", "save"}, id : DOMAIN book, address : Address] : c = call[h]
  BY DEF SaveAddress, AccountsInv, BookInv, AddressCall
<1>2. Continue(h, Idle) /\ Idle.at = "idle"
  BY CallOfSteps DEF SaveAddress
<1>3. /\ call'[h] = Idle /\ \A g \in Handlers \ {h} : call'[g] = call[g]
  BY <1>2, Moved DEF AccountsInv, UserInv
<1>4. CASE ~ IndexAllows(c.id, c.address)
  <2>1. UNCHANGED book
    BY <1>1, <1>4 DEF SaveAddress
  <2> QED BY <1>2, <2>1, BookBeside
<1>5. CASE IndexAllows(c.id, c.address)
  <2>1. book' = [book EXCEPT ![c.id] = c.address]
    BY <1>1, <1>5 DEF SaveAddress
  <2>2. book \in Seq(Address \cup {NoAddress})
    BY DEF AccountsInv, BookInv
  <2>3. /\ book' \in Seq(Address \cup {NoAddress}) /\ DOMAIN book' = DOMAIN book
        /\ book'[c.id] = c.address /\ \A a \in DOMAIN book : a # c.id => book'[a] = book[a]
    BY <2>1, <2>2
  <2>4. ASSUME NEW g \in Handlers PROVE AddressCall(call[g])'
    BY <1>2, <1>3, <2>3 DEF AccountsInv, BookInv, AddressCall
  <2>5. ASSUME NEW u \in Users, NEW g \in Handlers, Saves(g, u)' PROVE call'[g].id \in Claimed(u)
    BY <1>2, <1>3, <2>5 DEF Saves, Claimed
  <2>6. ASSUME NEW u \in Users, NEW a \in AddressesOf(u)' PROVE a \in Claimed(u)
    <3>1. CASE a = c.id
      <4>1. c.address.user = u
        BY <2>3, <2>6, <3>1 DEF AddressesOf
      <4>2. Saves(h, u)
        BY <1>1, <4>1 DEF Saves
      <4> QED BY <1>1, <3>1, <4>2 DEF Claimed
    <3>2. CASE a # c.id
      BY <2>3, <2>6, <3>2 DEF AddressesOf, Claimed
    <3> QED BY <3>1, <3>2
  <2>7. ASSUME NEW u \in Users, NEW x \in DefaultsOf(u)', NEW y \in DefaultsOf(u)' PROVE x = y
    <3>1. \A a \in DefaultsOf(u)' : a # c.id => a \in DefaultsOf(u)
      BY <2>3 DEF DefaultsOf, AddressesOf
    <3>2. c.id \in DefaultsOf(u)' => c.address.default /\ c.address.user = u
      BY <2>3 DEF DefaultsOf, AddressesOf
    <3>3. CASE c.id \in DefaultsOf(u)'
      <4>1. DefaultsOf(u) \subseteq {c.id}
        BY <1>5, <3>2, <3>3 DEF IndexAllows
      <4> QED BY <2>7, <3>1, <4>1
    <3>4. CASE c.id \notin DefaultsOf(u)'
      <4>1. x \in DefaultsOf(u) /\ y \in DefaultsOf(u)
        BY <2>7, <3>1, <3>4
      <4> QED BY <4>1 DEF AccountsInv, BookInv
    <3> QED BY <3>3, <3>4
  <2> QED BY <2>3, <2>4, <2>5, <2>6, <2>7, ClaimsKept
<1> QED BY <1>4, <1>5

LEMMA BookStep == AccountsInv /\ [AccountsNext]_vars => BookInv'
<1> SUFFICES ASSUME AccountsInv, [AccountsNext]_vars PROVE BookInv'
  OBVIOUS
<1>1. ASSUME NEW h \in Handlers, Handle(h) PROVE BookInv'
  <2>1. CASE \/ \E u \in Users, b \in BOOLEAN : CreateAddress(h, u, b)
             \/ \E a \in DOMAIN book, b \in BOOLEAN : PatchAddress(h, a, b)
             \/ ClearDefault(h) \/ SaveAddress(h)
    BY <2>1, BookOfCreate, BookOfPatch, BookOfClear, BookOfSave
  <2>2. CASE \/ \E t \in live : BeginRefresh(h, t)
             \/ CheckOwner(h) \/ CheckLapsedOwner(h)
    <3>1. UNCHANGED book
      BY <2>2 DEF BeginRefresh, CheckOwner, CheckLapsedOwner
    <3>2. PICK c : Continue(h, c) /\ c.at \in {"idle", "owner", "rotate"}
      BY <2>2, TokenCalls
    <3> QED BY <3>1, <3>2, BookBeside
  <2>3. CASE DeleteRow(h)
    <3>1. UNCHANGED book
      BY <2>3 DEF DeleteRow
    <3>2. PICK c : Continue(h, c) /\ c.at \in {"idle", "commit"}
      BY <2>3, DeleteCalls
    <3> QED BY <3>1, <3>2, BookBeside
  <2>4. CASE \/ \E u \in Users : \/ BeginLogin(h, u) \/ BeginDelete(h, u)
                                 \/ \E b \in BOOLEAN : BeginAmend(h, u, b)
             \/ Unlock(h) \/ RefuseInactive(h) \/ WrongPassword(h) \/ RightPassword(h)
             \/ SaveAmended(h) \/ OpenSession(h) \/ Rotate(h)
             \/ CommitDelete(h) \/ RollbackDelete(h) \/ Fail(h)
    <3>1. UNCHANGED book
      BY <2>4 DEF BeginLogin, BeginDelete, BeginAmend, Unlock, RefuseInactive, WrongPassword,
                  RightPassword, SaveAmended, OpenSession, Rotate, CommitDelete, RollbackDelete, Fail
    <3>2. PICK c : Continue(h, c) /\ c.at \in Inert
      BY <2>4, InertCalls
    <3> QED BY <3>1, <3>2, BookBeside DEF Inert
  <2> QED BY <1>1, <2>1, <2>2, <2>3, <2>4 DEF Handle
<1>2. CASE \/ \E a \in DOMAIN book : DeleteAddress(a)
           \/ \E i \in announced : DeleteUserData(i)
  <2>1. UNCHANGED call
    BY <1>2 DEF DeleteAddress, DeleteUserData
  <2>2. book' = [a \in DOMAIN book |-> book'[a]]
    BY <1>2 DEF DeleteAddress, DeleteUserData
  <2>3. \A a \in DOMAIN book : book'[a] \in {book[a], NoAddress}
    BY <1>2 DEF DeleteAddress, DeleteUserData
  <2> QED BY <2>1, <2>2, <2>3, BookShrinks
<1>3. ASSUME UNCHANGED <<book, call>> PROVE BookInv'
  <2>1. book' = [a \in DOMAIN book |-> book'[a]]
    BY <1>3, SeqParts DEF AccountsInv, BookInv
  <2> QED BY <1>3, <2>1, BookShrinks
<1>4. \/ \E h \in Handlers : Handle(h)
      \/ \E a \in DOMAIN book : DeleteAddress(a)
      \/ \E i \in announced : DeleteUserData(i)
      \/ UNCHANGED <<book, call>>
  BY DEF AccountsNext, vars, accountVars, Register, Logout, DrainOutbox
<1> QED BY <1>1, <1>2, <1>3, <1>4

----------------------------------------------------------------------------
(* The outbox.                                                              *)

LEMMA OutboxParts ==
  ASSUME AccountsInv
  PROVE  /\ Len(outbox) \in Nat /\ Drawn = 1 .. Len(outbox) /\ Len(outbox) <= MaxEvents
         /\ \A i \in Drawn : /\ outbox[i] \in EventRow /\ i \in Nat
                             /\ outbox[i].after \subseteq Visible
                             /\ \A j \in outbox[i].after : j < i
         /\ Visible \subseteq Drawn /\ IsFiniteSet(Visible)
<1>1. /\ Len(outbox) \in Nat /\ Drawn = 1 .. Len(outbox) /\ Len(outbox) <= MaxEvents
      /\ \A i \in Drawn : outbox[i] \in EventRow /\ i \in Nat
  <2>1. outbox \in Seq(EventRow) /\ Len(outbox) <= MaxEvents
    BY DEF AccountsInv, OutboxInv
  <2>2. Len(outbox) \in Nat /\ Drawn = 1 .. Len(outbox)
    BY <2>1, SeqParts DEF Drawn
  <2>3. \A i \in Drawn : outbox[i] \in EventRow
    BY <2>1, SeqParts DEF Drawn
  <2> QED BY <2>1, <2>2, <2>3
<1>2. \A i \in Drawn : outbox[i].after \subseteq Visible /\ \A j \in outbox[i].after : j < i
  BY DEF AccountsInv, OutboxInv, RowBefore
<1>3. Visible \subseteq Drawn
  BY DEF Visible
<1>4. IsFiniteSet(1 .. Len(outbox))
  BY <1>1, FS_Interval
<1> QED BY <1>1, <1>2, <1>3, <1>4, FS_Subset

\* The outbox as it was, and a request that holds no row of it moves on.
LEMMA OutboxBeside ==
  ASSUME AccountsInv, UNCHANGED outboxVars,
         \A h \in Handlers : call'[h] = call[h] \/ call'[h].at # "commit"
  PROVE  OutboxInv'
<1>1. UNCHANGED <<outbox, batch, sent, announced, tried>>
  BY DEF outboxVars
<1>2. Visible' = Visible /\ Drawn' = Drawn
  BY <1>1 DEF Visible, Drawn
<1>3. \A h \in Handlers : call'[h].at = "commit" => call'[h].row \in Drawn
  BY DEF AccountsInv, OutboxInv
<1>4. \A d \in Drains : (sent[d] => \E i \in announced : IsFirst(i, d))' /\ CausesFirst(d)'
  BY <1>1 DEF AccountsInv, OutboxInv, IsFirst, CausesFirst
<1>5. \A i \in Drawn : RowBefore(i)'
  BY <1>1, <1>2 DEF AccountsInv, OutboxInv, RowBefore
<1> QED BY <1>1, <1>2, <1>3, <1>4, <1>5 DEF AccountsInv, OutboxInv

\* A row whose state changes.
LEMMA RowChanges ==
  ASSUME AccountsInv, NEW k \in Drawn,
         NEW state \in {"drawn", "pending", "published", "void"},
         outbox' = [outbox EXCEPT ![k].state = state]
  PROVE  /\ outbox' \in Seq(EventRow) /\ Len(outbox') = Len(outbox) /\ Drawn' = Drawn
         /\ outbox'[k].state = state
         /\ \A i \in Drawn : /\ outbox'[i].after = outbox[i].after
                             /\ i # k => outbox'[i].state = outbox[i].state
<1>1. outbox \in Seq(EventRow)
  BY DEF AccountsInv, OutboxInv
<1>2. PICK r \in EventRow : r = outbox[k]
  BY OutboxParts
<1>3. PICK s : s = [r EXCEPT !.state = state]
  OBVIOUS
<1>4. s \in EventRow /\ s.state = state /\ s.after = r.after
  BY <1>3 DEF EventRow
<1>5. outbox' = [outbox EXCEPT ![k] = s]
  BY <1>2, <1>3
<1>6. /\ outbox' \in Seq(EventRow) /\ Len(outbox') = Len(outbox)
      /\ DOMAIN outbox' = DOMAIN outbox
  <2>1. k \in DOMAIN outbox
    BY DEF Drawn
  <2> QED BY <1>1, <1>4, <1>5, <2>1
<1>7. \A i \in Drawn : outbox'[i] = IF i = k THEN s ELSE outbox[i]
  BY <1>1, <1>5 DEF Drawn
<1> QED BY <1>2, <1>4, <1>6, <1>7 DEF Drawn

\* What drains have is theirs as long as rows keep their causes and stay in sight.
LEMMA RowsKept ==
  ASSUME AccountsInv, UNCHANGED <<batch, sent, announced, tried>>,
         outbox' \in Seq(EventRow), Len(outbox') <= MaxEvents,
         Drawn \subseteq Drawn', Visible \subseteq Visible',
         \A i \in Drawn : outbox'[i].after = outbox[i].after,
         \A i \in Drawn' \ Drawn : RowBefore(i)',
         \A i \in Drawn' : outbox'[i].state = "published" => i \in Drawn /\ outbox[i].state = "published",
         \A h \in Handlers : call'[h].at = "commit" => call'[h].row \in Drawn'
  PROVE  OutboxInv'
<1>1. \A d \in Drains : /\ (batch[d] \subseteq Visible)' /\ Cardinality(batch'[d]) <= BatchSize
                        /\ (sent[d] => \E i \in announced : IsFirst(i, d))'
  BY DEF AccountsInv, OutboxInv, IsFirst
<1>2. ASSUME NEW d \in Drains PROVE CausesFirst(d)'
  <2>1. \A i \in batch[d] : i \in Drawn
    BY OutboxParts DEF AccountsInv, OutboxInv
  <2> QED BY <2>1 DEF AccountsInv, OutboxInv, CausesFirst
<1>3. ASSUME NEW i \in Drawn' PROVE RowBefore(i)'
  <2>1. CASE i \in Drawn
    BY <2>1 DEF AccountsInv, OutboxInv, RowBefore
  <2>2. CASE i \notin Drawn
    BY <2>2
  <2> QED BY <2>1, <2>2
<1>4. ASSUME NEW i \in Drawn', outbox'[i].state = "published" PROVE i \in announced'
  BY <1>4 DEF AccountsInv, OutboxInv
<1>5. announced' \subseteq Visible' /\ tried' \subseteq Visible'
  BY DEF AccountsInv, OutboxInv
<1>6. batch' = [d \in Drains |-> batch'[d]] /\ sent' \in [Drains -> BOOLEAN]
  BY DEF AccountsInv, OutboxInv
<1> QED BY <1>1, <1>2, <1>3, <1>4, <1>5, <1>6 DEF OutboxInv

LEMMA OutboxOfDelete ==
  ASSUME AccountsInv, NEW h \in Handlers, DeleteRow(h)
  PROVE  OutboxInv'
<1>1. PICK c : /\ Continue(h, c) /\ c.at \in {"idle", "commit"}
               /\ c.at = "commit" => Draw(call[h].user) /\ c.row = Len(outbox) + 1
               /\ c.at = "idle" => UNCHANGED outboxVars
  BY DeleteCalls
<1>2. /\ call'[h] = c /\ \A g \in Handlers \ {h} : call'[g] = call[g]
  BY <1>1, Moved DEF AccountsInv, UserInv
<1>3. CASE c.at = "idle"
  BY <1>1, <1>2, <1>3, OutboxBeside
<1>4. CASE c.at = "commit"
  <2>1. PICK n \in Nat : /\ n = Len(outbox) /\ n <= MaxEvents /\ Drawn = 1 .. n
                         /\ outbox \in Seq(EventRow)
    BY OutboxParts DEF AccountsInv, OutboxInv
  <2>2. PICK r : r = [about |-> call[h].user, state |-> "drawn", after |-> Visible]
    OBVIOUS
  <2>3. /\ n < MaxEvents /\ outbox' = Append(outbox, r)
        /\ UNCHANGED <<batch, sent, announced, tried>>
    BY <1>1, <1>4, <2>1, <2>2 DEF Draw
  <2>4. Visible \subseteq 1 .. MaxEvents /\ Visible \subseteq 1 .. n
    BY <2>1, OutboxParts, Bounds
  <2>5. call[h].user \in Topics
    BY DEF DeleteRow, AccountsInv, UserInv, UserCall, Users
  <2>6. r \in EventRow /\ r.state = "drawn" /\ r.after = Visible
    BY <2>2, <2>4, <2>5 DEF EventRow
  <2>7. /\ outbox' \in Seq(EventRow) /\ Len(outbox') = n + 1 /\ Drawn' = 1 .. n + 1
        /\ outbox'[n + 1] = r /\ \A i \in 1 .. n : outbox'[i] = outbox[i]
    BY <2>1, <2>3, <2>6 DEF Drawn
  <2>8. n + 1 \in 1 .. n + 1 /\ n + 1 \notin 1 .. n /\ \A i \in 1 .. n + 1 : i = n + 1 \/ i \in 1 .. n
    BY <2>1
  <2>9. Visible' = Visible
    BY <2>1, <2>6, <2>7, <2>8 DEF Visible
  <2>10. \A i \in Drawn' \ Drawn : RowBefore(i)'
    <3>1. \A j \in Visible : j < n + 1
      BY <2>1, <2>4
    <3> QED BY <2>1, <2>6, <2>7, <2>8, <2>9, <3>1 DEF RowBefore
  <2>11. \A g \in Handlers : call'[g].at = "commit" => call'[g].row \in Drawn'
    <3> SUFFICES ASSUME NEW g \in Handlers, call'[g].at = "commit" PROVE call'[g].row \in Drawn'
      OBVIOUS
    <3>1. CASE g = h
      BY <1>1, <1>2, <1>4, <2>1, <2>7, <2>8, <3>1
    <3>2. CASE g # h
      <4>1. call'[g].row \in Drawn
        BY <1>2, <3>2 DEF AccountsInv, OutboxInv
      <4> QED BY <2>1, <2>7, <4>1
    <3> QED BY <3>1, <3>2
  <2>12. \A i \in Drawn' : outbox'[i].state = "published" => i \in Drawn /\ outbox[i].state = "published"
    BY <2>1, <2>6, <2>7, <2>8
  <2>13. Len(outbox') <= MaxEvents
    BY <2>1, <2>3, <2>7, Bounds
  <2>14. Drawn \subseteq Drawn' /\ \A i \in Drawn : outbox'[i].after = outbox[i].after
    BY <2>1, <2>7, <2>8
  <2> QED BY <2>3, <2>7, <2>9, <2>10, <2>11, <2>12, <2>13, <2>14, RowsKept
<1> QED BY <1>1, <1>3, <1>4

LEMMA OutboxOfSettle ==
  ASSUME AccountsInv, NEW h \in Handlers, CommitDelete(h) \/ RollbackDelete(h)
  PROVE  OutboxInv'
<1>1. PICK c : Continue(h, c) /\ c.at \in Inert
  BY InertCalls
<1>2. /\ call'[h] = c /\ \A g \in Handlers \ {h} : call'[g] = call[g]
  BY <1>1, Moved DEF AccountsInv, UserInv
<1>3. PICK i \in Drawn : i = call[h].row
  BY DEF AccountsInv, OutboxInv, CommitDelete, RollbackDelete
<1>4. PICK state \in {"pending", "void"} : Settle(i, state)
  BY <1>3 DEF CommitDelete, RollbackDelete
<1>5. /\ outbox[i].state = "drawn" /\ outbox' = [outbox EXCEPT ![i].state = state]
      /\ UNCHANGED <<batch, sent, announced, tried>>
  BY <1>4 DEF Settle
<1>6. /\ outbox' \in Seq(EventRow) /\ Len(outbox') = Len(outbox) /\ Drawn' = Drawn
      /\ outbox'[i].state = state
      /\ \A j \in Drawn : /\ outbox'[j].after = outbox[j].after
                          /\ j # i => outbox'[j].state = outbox[j].state
  BY <1>5, RowChanges
<1>7. Visible \subseteq Visible'
  BY <1>5, <1>6 DEF Visible
<1>8. \A g \in Handlers : call'[g].at = "commit" => call'[g].row \in Drawn'
  BY <1>1, <1>2, <1>6 DEF AccountsInv, OutboxInv, Inert
<1>9. \A j \in Drawn' : outbox'[j].state = "published" => j \in Drawn /\ outbox[j].state = "published"
  BY <1>4, <1>6
<1> QED BY <1>5, <1>6, <1>7, <1>8, <1>9, OutboxParts, RowsKept

\* A drain leaves the outbox as it is, or marks a row in sight as published.
LEMMA Marked ==
  ASSUME AccountsInv, announced' \subseteq Visible,
         \/ UNCHANGED outbox
         \/ \E k \in announced' : outbox' = [outbox EXCEPT ![k].state = "published"]
  PROVE  /\ outbox' \in Seq(EventRow) /\ Len(outbox') = Len(outbox) /\ Drawn' = Drawn
         /\ Visible' = Visible
         /\ \A i \in Drawn : /\ outbox'[i].after = outbox[i].after
                             /\ outbox'[i].state = "published" =>
                                  outbox[i].state = "published" \/ i \in announced'
<1>1. CASE UNCHANGED outbox
  BY <1>1 DEF AccountsInv, OutboxInv, Drawn, Visible
<1>2. CASE ~ UNCHANGED outbox
  <2>1. PICK k \in announced' : outbox' = [outbox EXCEPT ![k].state = "published"]
    BY <1>2
  <2>2. k \in Drawn /\ k \in Visible
    BY OutboxParts
  <2>3. /\ outbox' \in Seq(EventRow) /\ Len(outbox') = Len(outbox) /\ Drawn' = Drawn
        /\ outbox'[k].state = "published"
        /\ \A i \in Drawn : /\ outbox'[i].after = outbox[i].after
                            /\ i # k => outbox'[i].state = outbox[i].state
    BY <2>1, <2>2, RowChanges
  <2>4. Visible' = Visible
    BY <2>2, <2>3 DEF Visible
  <2> QED BY <2>3, <2>4
<1> QED BY <1>1, <1>2

\* A drain takes rows in sight, and is told of what it passed on.
LEMMA DrainKeeps ==
  ASSUME AccountsInv, UNCHANGED call, NEW d \in Drains, NEW rows, NEW b \in BOOLEAN,
         batch' = [batch EXCEPT ![d] = rows], sent' = [sent EXCEPT ![d] = b],
         rows \subseteq Visible, Cardinality(rows) <= BatchSize,
         \A i \in rows : outbox[i].after \subseteq announced' \cup tried' \cup rows,
         b => \E i \in announced' : i \in rows /\ \A j \in rows : i <= j,
         announced \subseteq announced', announced' \subseteq Visible,
         tried \subseteq tried', tried' \subseteq Visible,
         \/ UNCHANGED outbox
         \/ \E k \in announced' : outbox' = [outbox EXCEPT ![k].state = "published"]
  PROVE  OutboxInv'
<1>1. /\ outbox' \in Seq(EventRow) /\ Len(outbox') = Len(outbox) /\ Drawn' = Drawn
      /\ Visible' = Visible
      /\ \A i \in Drawn : /\ outbox'[i].after = outbox[i].after
                          /\ outbox'[i].state = "published" =>
                               outbox[i].state = "published" \/ i \in announced'
  BY Marked
<1>2. batch' = [e \in Drains |-> batch'[e]] /\ sent' \in [Drains -> BOOLEAN]
  BY DEF AccountsInv, OutboxInv
<1>3. /\ batch'[d] = rows /\ sent'[d] = b
      /\ \A e \in Drains \ {d} : batch'[e] = batch[e] /\ sent'[e] = sent[e]
  BY DEF AccountsInv, OutboxInv
<1>4. ASSUME NEW e \in Drains
      PROVE  /\ batch'[e] \subseteq Visible' /\ Cardinality(batch'[e]) <= BatchSize
             /\ sent'[e] => \E i \in announced' : i \in batch'[e] /\ \A j \in batch'[e] : i <= j
             /\ \A i \in batch'[e] : outbox'[i].after \subseteq announced' \cup tried' \cup batch'[e]
  <2>1. \A i \in batch'[e] : i \in Drawn
    BY <1>3, OutboxParts DEF AccountsInv, OutboxInv
  <2>2. CASE e = d
    BY <1>1, <1>3, <2>1, <2>2
  <2>3. CASE e # d
    <3>1. batch'[e] = batch[e] /\ sent'[e] = sent[e]
      BY <1>3, <2>3
    <3>2. /\ batch[e] \subseteq Visible /\ Cardinality(batch[e]) <= BatchSize
          /\ sent[e] => \E i \in announced : i \in batch[e] /\ \A j \in batch[e] : i <= j
          /\ \A i \in batch[e] : outbox[i].after \subseteq announced \cup tried \cup batch[e]
      BY DEF AccountsInv, OutboxInv, IsFirst, CausesFirst
    <3>3. sent'[e] => \E i \in announced' : i \in batch'[e] /\ \A j \in batch'[e] : i <= j
      BY <3>1, <3>2
    <3>4. \A i \in batch'[e] : outbox'[i].after \subseteq announced' \cup tried' \cup batch'[e]
      BY <1>1, <2>1, <3>1, <3>2
    <3> QED BY <1>1, <3>1, <3>2, <3>3, <3>4
  <2> QED BY <2>2, <2>3
<1>5. \A e \in Drains : /\ (batch[e] \subseteq Visible)' /\ (Cardinality(batch[e]) <= BatchSize)'
                        /\ (sent[e] => \E i \in announced : IsFirst(i, e))'
                        /\ CausesFirst(e)'
  BY <1>4 DEF IsFirst, CausesFirst
<1>6. \A i \in Drawn' : RowBefore(i)'
  BY <1>1 DEF AccountsInv, OutboxInv, RowBefore
<1>7. \A i \in Drawn' : outbox'[i].state = "published" => i \in announced'
  BY <1>1 DEF AccountsInv, OutboxInv
<1>8. \A h \in Handlers : call'[h].at = "commit" => call'[h].row \in Drawn'
  BY <1>1 DEF AccountsInv, OutboxInv
<1>9. announced' \subseteq Visible' /\ tried' \subseteq Visible' /\ Len(outbox') <= MaxEvents
  BY <1>1, OutboxParts
<1> QED BY <1>1, <1>2, <1>5, <1>6, <1>7, <1>8, <1>9 DEF OutboxInv

\* What a drain has, and its first row.
LEMMA DrainParts ==
  ASSUME AccountsInv, NEW d \in Drains
  PROVE  /\ batch[d] \subseteq Visible /\ IsFiniteSet(batch[d])
         /\ Cardinality(batch[d]) \in Nat /\ Cardinality(batch[d]) <= BatchSize
         /\ sent[d] \in BOOLEAN /\ announced \subseteq Visible /\ tried \subseteq Visible
         /\ \A i \in batch[d] : outbox[i].after \subseteq announced \cup tried \cup batch[d]
         /\ \A i \in batch[d] : /\ Cardinality(batch[d] \ {i}) <= BatchSize
                                /\ sent[d] /\ IsFirst(i, d) => i \in announced
                                /\ IsFirst(i, d) => outbox[i].after \subseteq announced \cup tried
<1>1. /\ batch[d] \subseteq Visible /\ Cardinality(batch[d]) <= BatchSize
      /\ sent[d] => \E i \in announced : IsFirst(i, d)
      /\ \A i \in batch[d] : outbox[i].after \subseteq announced \cup tried \cup batch[d]
      /\ sent[d] \in BOOLEAN /\ announced \subseteq Visible /\ tried \subseteq Visible
  BY DEF AccountsInv, OutboxInv, CausesFirst
<1>2. IsFiniteSet(batch[d]) /\ Cardinality(batch[d]) \in Nat
  BY <1>1, OutboxParts, FS_Subset, FS_CardinalityType
<1>3. \A i \in batch[d] : i \in Drawn /\ i \in Nat
  BY <1>1, OutboxParts
<1>4. ASSUME NEW i \in batch[d] PROVE Cardinality(batch[d] \ {i}) <= BatchSize
  <2>1. Cardinality(batch[d] \ {i}) <= Cardinality(batch[d]) /\ Cardinality(batch[d] \ {i}) \in Nat
    BY <1>2, FS_Subset, FS_CardinalityType
  <2> QED BY <1>1, <1>2, <2>1, Bounds
<1>5. ASSUME NEW i \in batch[d], sent[d], IsFirst(i, d) PROVE i \in announced
  <2>1. PICK k \in announced : IsFirst(k, d)
    BY <1>1, <1>5
  <2>2. k \in batch[d] /\ k <= i /\ i <= k
    BY <1>5, <2>1 DEF IsFirst
  <2>3. k = i
    BY <1>3, <2>2
  <2> QED BY <2>3
<1>6. ASSUME NEW i \in batch[d], IsFirst(i, d), NEW j \in outbox[i].after
      PROVE  j \in announced \cup tried
  <2>1. j < i /\ i \in Nat /\ j \in Visible /\ j \in Nat
    BY <1>3, OutboxParts
  <2>2. j \notin batch[d]
    BY <1>6, <2>1 DEF IsFirst
  <2> QED BY <1>1, <2>2
<1> QED BY <1>1, <1>2, <1>4, <1>5, <1>6

LEMMA OutboxOfDrain ==
  ASSUME AccountsInv, UNCHANGED call, NEW d \in Drains, Drain(d)
  PROVE  OutboxInv'
<1>1. sent' = [sent EXCEPT ![d] = sent[d]] \/ ~ UNCHANGED sent
  BY DEF AccountsInv, OutboxInv
<1>2. batch' = [batch EXCEPT ![d] = batch[d]] \/ ~ UNCHANGED batch
  BY DEF AccountsInv, OutboxInv
<1>3. CASE Begin(d)
  <2>1. PICK rows \in SUBSET Pending : Oldest(rows) /\ batch' = [batch EXCEPT ![d] = rows]
    BY <1>3 DEF Begin
  <2>2. batch[d] = {} /\ UNCHANGED <<outbox, sent, announced, tried>>
    BY <1>3 DEF Begin
  <2>3. sent[d] = FALSE
    BY <2>2 DEF AccountsInv, OutboxInv, IsFirst
  <2>4. rows \subseteq Visible /\ Cardinality(rows) <= BatchSize
    BY <2>1 DEF Oldest, Pending, Visible
  <2>5. ASSUME NEW i \in rows, NEW j \in outbox[i].after PROVE j \in announced \cup rows
    <3>1. i \in Drawn /\ i \in Nat
      BY <2>4, OutboxParts
    <3>2. j \in Visible /\ j < i /\ j \in Drawn /\ j \in Nat
      BY <3>1, OutboxParts
    <3>3. CASE outbox[j].state = "published"
      BY <3>2, <3>3 DEF AccountsInv, OutboxInv
    <3>4. CASE outbox[j].state = "pending"
      <4>1. j \in Pending
        BY <3>2, <3>4 DEF Pending
      <4>2. j \in rows
        BY <2>1, <3>1, <3>2, <4>1 DEF Oldest
      <4> QED BY <4>2
    <3> QED BY <3>2, <3>3, <3>4 DEF Visible
  <2>6. \A i \in rows : outbox[i].after \subseteq announced' \cup tried' \cup rows
    BY <2>2, <2>5
  <2>7. sent' = [sent EXCEPT ![d] = FALSE]
    BY <1>1, <2>2, <2>3
  <2> QED BY <2>1, <2>2, <2>4, <2>6, <2>7, DrainParts, DrainKeeps
<1>4. CASE Publish(d)
  <2>1. PICK i \in batch[d] : PublishRow(d, i)
    BY <1>4 DEF Publish
  <2>2. /\ IsFirst(i, d) /\ announced' = announced \cup {i}
        /\ sent' = [sent EXCEPT ![d] = TRUE] /\ UNCHANGED <<outbox, batch, tried>>
    BY <2>1 DEF PublishRow, Reaches
  <2>3. batch' = [batch EXCEPT ![d] = batch[d]]
    BY <1>2, <2>2
  <2>4. i \in announced' /\ announced' \subseteq Visible /\ tried' \subseteq Visible
        /\ announced \subseteq announced' /\ tried \subseteq tried'
    BY <2>2, DrainParts
  <2>5. \A j \in batch[d] : outbox[j].after \subseteq announced' \cup tried' \cup batch[d]
    BY <2>2, DrainParts
  <2>6. i \in batch[d] /\ \A j \in batch[d] : i <= j
    BY <2>2 DEF IsFirst
  <2>7. \E k \in announced' : k \in batch[d] /\ \A j \in batch[d] : k <= j
    BY <2>4, <2>6
  <2>8. batch[d] \subseteq Visible /\ Cardinality(batch[d]) <= BatchSize
    BY DrainParts
  <2> QED BY <2>2, <2>3, <2>4, <2>5, <2>7, <2>8, DrainKeeps
<1>5. CASE PublishFails(d)
  <2>1. PICK i \in batch[d] : /\ tried' = tried \cup {i} /\ PassOn(d, i)
                              /\ Reaches(i) \/ UNCHANGED announced
    BY <1>5 DEF PublishFails
  <2>2. PICK rows : rows = batch[d] \ {i}
    OBVIOUS
  <2>3. batch' = [batch EXCEPT ![d] = rows] /\ UNCHANGED <<outbox, sent>> /\ sent[d] = FALSE
    BY <1>5, <2>1, <2>2, DrainParts DEF PublishFails, PassOn
  <2>4. sent' = [sent EXCEPT ![d] = FALSE]
    BY <1>1, <2>3
  <2>5. /\ announced \subseteq announced' /\ announced' \subseteq Visible
        /\ tried \subseteq tried' /\ tried' \subseteq Visible /\ i \in tried'
    BY <2>1, DrainParts DEF Reaches
  <2>6. \A j \in rows : outbox[j].after \subseteq announced' \cup tried' \cup rows
    BY <2>2, <2>5, DrainParts
  <2>7. rows \subseteq Visible /\ Cardinality(rows) <= BatchSize
    BY <2>2, DrainParts
  <2> QED BY <2>3, <2>4, <2>5, <2>6, <2>7, DrainKeeps
<1>6. CASE Mark(d)
  <2>1. PICK i \in batch[d] : /\ IsFirst(i, d) /\ PassOn(d, i)
                              /\ \/ outbox' = [outbox EXCEPT ![i].state = "published"]
                                 \/ UNCHANGED outbox
    BY <1>6 DEF Mark
  <2>2. PICK rows : rows = batch[d] \ {i}
    OBVIOUS
  <2>3. /\ batch' = [batch EXCEPT ![d] = rows] /\ sent' = [sent EXCEPT ![d] = FALSE]
        /\ UNCHANGED <<announced, tried>> /\ sent[d]
    BY <1>6, <2>1, <2>2 DEF Mark, PassOn
  <2>4. i \in announced'
    BY <2>1, <2>3, DrainParts
  <2>5. \A j \in rows : outbox[j].after \subseteq announced' \cup tried' \cup rows
    BY <2>2, <2>3, <2>4, DrainParts
  <2>6. rows \subseteq Visible /\ Cardinality(rows) <= BatchSize
    BY <2>2, DrainParts
  <2> QED BY <2>1, <2>3, <2>4, <2>5, <2>6, DrainParts, DrainKeeps
<1>7. CASE Dies(d)
  <2>1. PICK rows : rows = {}
    OBVIOUS
  <2>2. /\ batch' = [batch EXCEPT ![d] = rows] /\ sent' = [sent EXCEPT ![d] = FALSE]
        /\ UNCHANGED <<outbox, announced, tried>>
    BY <1>7, <2>1 DEF Dies
  <2>3. Cardinality(rows) <= BatchSize
    BY <2>1, FS_EmptySet, Bounds
  <2>4. /\ announced \subseteq announced' /\ announced' \subseteq Visible
        /\ tried \subseteq tried' /\ tried' \subseteq Visible
    BY <2>2, DrainParts
  <2>5. /\ rows \subseteq Visible
        /\ \A i \in rows : outbox[i].after \subseteq announced' \cup tried' \cup rows
    BY <2>1
  <2> QED BY <2>2, <2>3, <2>4, <2>5, DrainKeeps
<1> QED BY <1>3, <1>4, <1>5, <1>6, <1>7 DEF Drain

LEMMA OutboxStep == AccountsInv /\ [AccountsNext]_vars => OutboxInv'
<1> SUFFICES ASSUME AccountsInv, [AccountsNext]_vars PROVE OutboxInv'
  OBVIOUS
<1>1. ASSUME NEW h \in Handlers, Handle(h) PROVE OutboxInv'
  <2>1. CASE DeleteRow(h)
    BY <2>1, OutboxOfDelete
  <2>2. CASE CommitDelete(h) \/ RollbackDelete(h)
    BY <2>2, OutboxOfSettle
  <2>3. ASSUME NEW c, Continue(h, c), c.at # "commit", UNCHANGED outboxVars PROVE OutboxInv'
    <3>1. /\ call'[h] = c /\ \A g \in Handlers \ {h} : call'[g] = call[g]
      BY <2>3, Moved DEF AccountsInv, UserInv
    <3> QED BY <2>3, <3>1, OutboxBeside
  <2>4. CASE \/ \E t \in live : BeginRefresh(h, t)
             \/ CheckOwner(h) \/ CheckLapsedOwner(h)
    <3>1. UNCHANGED outboxVars
      BY <2>4 DEF BeginRefresh, CheckOwner, CheckLapsedOwner
    <3>2. PICK c : Continue(h, c) /\ c.at \in {"idle", "owner", "rotate"}
      BY <2>4, TokenCalls
    <3> QED BY <2>3, <3>1, <3>2
  <2>5. CASE \/ \E u \in Users, b \in BOOLEAN : CreateAddress(h, u, b)
             \/ \E a \in DOMAIN book, b \in BOOLEAN : PatchAddress(h, a, b)
             \/ ClearDefault(h)
    <3>1. UNCHANGED outboxVars
      BY <2>5 DEF CreateAddress, PatchAddress, ClearDefault
    <3>2. PICK c : Continue(h, c) /\ c.at \in {"clear", "save"}
      BY <2>5, AddressCalls
    <3> QED BY <2>3, <3>1, <3>2
  <2>6. CASE \/ \E u \in Users : \/ BeginLogin(h, u) \/ BeginDelete(h, u)
                                 \/ \E b \in BOOLEAN : BeginAmend(h, u, b)
             \/ Unlock(h) \/ RefuseInactive(h) \/ WrongPassword(h) \/ RightPassword(h)
             \/ SaveAmended(h) \/ OpenSession(h) \/ Rotate(h) \/ SaveAddress(h) \/ Fail(h)
    <3>1. UNCHANGED outboxVars
      BY <2>6 DEF BeginLogin, BeginDelete, BeginAmend, Unlock, RefuseInactive, WrongPassword,
                  RightPassword, SaveAmended, OpenSession, Rotate, SaveAddress, Fail
    <3>2. PICK c : Continue(h, c) /\ c.at \in Inert
      BY <2>6, InertCalls
    <3> QED BY <2>3, <3>1, <3>2 DEF Inert
  <2> QED BY <1>1, <2>1, <2>2, <2>4, <2>5, <2>6 DEF Handle
<1>2. ASSUME NEW d \in Drains, DrainOutbox(d) PROVE OutboxInv'
  BY <1>2, OutboxOfDrain DEF DrainOutbox, accountVars
<1>3. ASSUME UNCHANGED outboxVars, UNCHANGED call PROVE OutboxInv'
  BY <1>3, OutboxBeside
<1>4. \/ \E h \in Handlers : Handle(h)
      \/ \E d \in Drains : DrainOutbox(d)
      \/ UNCHANGED outboxVars /\ UNCHANGED call
  BY DEF AccountsNext, vars, accountVars, Register, Logout, DeleteAddress, DeleteUserData
<1> QED BY <1>1, <1>2, <1>3, <1>4

\* A row reaches the broker as the first of a drain's.
LEMMA RowsInOrder ==
  AccountsInv /\ [AccountsNext]_vars =>
    [\A i \in announced' \ announced : outbox[i].after \subseteq announced' \cup tried']_outboxVars
<1> SUFFICES ASSUME AccountsInv, [AccountsNext]_vars, NEW i \in announced' \ announced
             PROVE  outbox[i].after \subseteq announced' \cup tried'
  OBVIOUS
<1>1. PICK d \in Drains : i \in batch[d] /\ IsFirst(i, d) /\ tried \subseteq tried'
                          /\ announced \subseteq announced'
  <2>1. PICK d \in Drains : Publish(d) \/ PublishFails(d)
    <3>1. announced' # announced
      OBVIOUS
    <3>2. ASSUME NEW h \in Handlers, Handle(h) PROVE UNCHANGED announced
      <4>1. CASE DeleteRow(h)
        <5>1. Draw(call[h].user) \/ UNCHANGED outboxVars
          BY <4>1 DEF DeleteRow
        <5> QED BY <5>1 DEF Draw, outboxVars
      <4>2. CASE CommitDelete(h) \/ RollbackDelete(h)
        BY <4>2 DEF CommitDelete, RollbackDelete, Settle
      <4>3. CASE \/ \E u \in Users : \/ BeginLogin(h, u) \/ BeginDelete(h, u)
                                     \/ \E b \in BOOLEAN : BeginAmend(h, u, b) \/ CreateAddress(h, u, b)
                 \/ Unlock(h) \/ RefuseInactive(h) \/ WrongPassword(h) \/ RightPassword(h)
                 \/ SaveAmended(h)
        BY <4>3 DEF BeginLogin, BeginDelete, BeginAmend, CreateAddress, Unlock, RefuseInactive,
                    WrongPassword, RightPassword, SaveAmended, outboxVars
      <4>4. CASE \/ OpenSession(h) \/ CheckOwner(h) \/ CheckLapsedOwner(h) \/ Rotate(h)
                 \/ \E t \in live : BeginRefresh(h, t)
                 \/ \E a \in DOMAIN book, b \in BOOLEAN : PatchAddress(h, a, b)
                 \/ ClearDefault(h) \/ SaveAddress(h) \/ Fail(h)
        BY <4>4 DEF OpenSession, CheckOwner, CheckLapsedOwner, Rotate, BeginRefresh, PatchAddress,
                    ClearDefault, SaveAddress, Fail, outboxVars
      <4> QED BY <3>2, <4>1, <4>2, <4>3, <4>4 DEF Handle
    <3>3. \E d \in Drains : Drain(d)
      BY <3>1, <3>2 DEF AccountsNext, vars, accountVars, outboxVars, Register, Logout,
                        DeleteAddress, DrainOutbox, DeleteUserData
    <3> QED BY <3>1, <3>3 DEF Drain, Begin, Mark, Dies
  <2>2. CASE Publish(d)
    BY <2>2 DEF Publish, PublishRow, Reaches
  <2>3. CASE PublishFails(d)
    BY <2>3 DEF PublishFails, Reaches
  <2> QED BY <2>1, <2>2, <2>3
<1>2. outbox[i].after \subseteq announced \cup tried
  BY <1>1, DrainParts
<1> QED BY <1>1, <1>2

----------------------------------------------------------------------------
(* The theorems.                                                            *)

LEMMA InitUsers ==
  ASSUME AccountsInit
  PROVE  UserInv
<1>1. call = [h \in Handlers |-> call[h]] /\ \A h \in Handlers : UserCall(call[h])
  BY DEF AccountsInit, Idle, UserCall
<1>2. CASE user = [u \in Users |-> NoUser] /\ ids = {}
  BY <1>1, <1>2 DEF UserInv, NoUser
<1>3. ASSUME NEW u \in OldUsers, ids = {u},
             user = [v \in Users |-> IF v = u THEN [NewUser EXCEPT !.tries = MaxTries - 1] ELSE NoUser]
      PROVE  UserInv
  <2>1. PICK n \in 0 .. MaxTries : n = MaxTries - 1 /\ n # MaxTries
    BY Bounds
  <2>2. PICK r : r = [NewUser EXCEPT !.tries = n]
    OBVIOUS
  <2>3. r \in Row /\ r.tries = n /\ r.locked = FALSE
    BY <2>2 DEF NewUser, Row
  <2>4. RowSound(r)
    BY <2>1, <2>3 DEF RowSound
  <2>5. user = [v \in Users |-> IF v = u THEN r ELSE NoUser]
    BY <1>3, <2>1, <2>2
  <2>6. u \in Users
    BY Bounds
  <2>7. user \in [Users -> Row \cup {NoUser}] /\ ids \subseteq Users
    BY <1>3, <2>3, <2>5, <2>6
  <2>8. \A v \in Users : user[v].here => v \in ids /\ RowSound(user[v])
    BY <1>3, <2>4, <2>5 DEF NoUser
  <2> QED BY <1>1, <2>7, <2>8 DEF UserInv
<1> QED BY <1>2, <1>3 DEF AccountsInit

LEMMA InitTokens ==
  ASSUME AccountsInit
  PROVE  TokenInv
<1>1. \A h \in Handlers : TokenCall(call[h])
  BY DEF AccountsInit, Idle, TokenCall
<1>2. CASE live = {} /\ minted = <<>>
  BY <1>1, <1>2, Bounds DEF TokenInv
<1>3. ASSUME NEW u \in OldUsers, live = {[login |-> 1, nth |-> 1, user |-> u]}, minted = << 1 >>
      PROVE  TokenInv
  <2>1. PICK t : t = [login |-> 1, nth |-> 1, user |-> u]
    OBVIOUS
  <2>2. 1 \in 1 .. MaxLogins /\ 1 \in 1 .. MaxTokens /\ u \in Users
    BY Bounds
  <2>3. t \in Tokens /\ t.login = 1 /\ t.nth = 1
    BY <2>1, <2>2 DEF Tokens
  <2>4. minted \in Seq(1 .. MaxTokens) /\ Len(minted) = 1 /\ 1 \in DOMAIN minted /\ minted[1] = 1
    BY <1>3, <2>2
  <2>5. Len(minted) <= MaxLogins /\ Minted(t) /\ live = {t}
    BY <1>3, <2>1, <2>3, <2>4, Bounds DEF Minted
  <2> QED BY <1>1, <2>4, <2>5 DEF TokenInv
<1> QED BY <1>2, <1>3 DEF AccountsInit

LEMMA InitBook ==
  ASSUME AccountsInit
  PROVE  BookInv
<1>1. book = <<>> /\ \A h \in Handlers : call[h] = Idle
  BY DEF AccountsInit
<1>2. book \in Seq(Address \cup {NoAddress}) /\ DOMAIN book = {}
  BY <1>1
<1>3. \A h \in Handlers : AddressCall(call[h])
  BY <1>1 DEF AddressCall, Idle
<1>4. ASSUME NEW u \in Users PROVE Cardinality(Claimed(u)) <= ClaimLimit
  <2>1. AddressesOf(u) = {}
    BY <1>2 DEF AddressesOf
  <2>2. \A h \in Handlers : ~ Saves(h, u)
    BY <1>1 DEF Saves, Idle
  <2>3. Claimed(u) = {}
    BY <2>1, <2>2 DEF Claimed
  <2>4. Cardinality({}) = 0
    BY FS_EmptySet
  <2> QED BY <2>3, <2>4, Bounds DEF ClaimLimit
<1>5. \A u \in Users : DefaultsOf(u) = {}
  BY <1>2 DEF DefaultsOf, AddressesOf
<1> QED BY <1>2, <1>3, <1>4, <1>5 DEF BookInv

LEMMA InitOutbox ==
  ASSUME AccountsInit
  PROVE  OutboxInv
<1>1. /\ outbox = <<>> /\ batch = [d \in Drains |-> {}] /\ sent = [d \in Drains |-> FALSE]
      /\ announced = {} /\ tried = {} /\ \A h \in Handlers : call[h] = Idle
  BY DEF AccountsInit, OutboxInit
<1>2. outbox \in Seq(EventRow) /\ Len(outbox) <= MaxEvents /\ Drawn = {}
  BY <1>1, Bounds DEF Drawn
<1>3. ASSUME NEW d \in Drains
      PROVE  /\ batch[d] \subseteq Visible /\ Cardinality(batch[d]) <= BatchSize
             /\ ~ sent[d] /\ CausesFirst(d)
  <2>1. batch[d] = {} /\ ~ sent[d]
    BY <1>1
  <2>2. Cardinality({}) = 0
    BY FS_EmptySet
  <2> QED BY <2>1, <2>2, Bounds DEF CausesFirst
<1>4. \A h \in Handlers : call[h].at # "commit"
  BY <1>1 DEF Idle
<1> QED BY <1>1, <1>2, <1>3, <1>4 DEF OutboxInv

(* The invariant of a customer's account, from which the rest follows.       *)
LEMMA AccountsInvHolds == AccountsSpec => []AccountsInv
<1>1. AccountsInit => AccountsInv
  BY InitUsers, InitTokens, InitBook, InitOutbox DEF AccountsInv
<1>2. AccountsInv /\ [AccountsNext]_vars => AccountsInv'
  BY UserStep, TokenStep, BookStep, OutboxStep DEF AccountsInv
<1> QED BY <1>1, <1>2, PTL DEF AccountsSpec

LEMMA InvIsTyped == AccountsInv => AccountsTypeOK
<1> SUFFICES ASSUME AccountsInv PROVE AccountsTypeOK
  OBVIOUS
<1>1. OutboxTypeOK
  <2>1. outbox \in Seq([about : Topics, after : SUBSET (1 .. MaxEvents),
                        state : {"drawn", "pending", "published", "void"}])
    BY DEF AccountsInv, OutboxInv, EventRow
  <2>2. \A d \in Drains : /\ batch[d] \subseteq Visible /\ Cardinality(batch[d]) <= BatchSize
                          /\ sent[d] => \E i \in announced : IsFirst(i, d)
    BY DEF AccountsInv, OutboxInv
  <2>3. announced \subseteq Visible /\ tried \subseteq Visible
    BY DEF AccountsInv, OutboxInv
  <2>4. \A i \in Drawn : outbox[i].state = "published" => i \in announced
    BY DEF AccountsInv, OutboxInv
  <2> QED BY <2>1, <2>2, <2>3, <2>4 DEF OutboxTypeOK
<1>2. /\ user \in [Users -> Row \cup {NoUser}] /\ ids \subseteq Users
      /\ \A u \in Users : user[u].here => u \in ids
  BY DEF AccountsInv, UserInv
<1>3. live \subseteq Tokens /\ minted \in Seq(1 .. MaxTokens)
  BY DEF AccountsInv, TokenInv, Minted
<1>4. book \in Seq(Address \cup {NoAddress})
  BY DEF AccountsInv, BookInv
<1> QED BY <1>1, <1>2, <1>3, <1>4 DEF AccountsTypeOK

LEMMA InvIsSafe == AccountsInv => AccountsSafe
<1> SUFFICES ASSUME AccountsInv PROVE AccountsSafe
  OBVIOUS
<1>1. LockedAtTheLimit
  BY DEF LockedAtTheLimit, AccountsInv, UserInv, RowSound
<1>2. ASSUME NEW u \in Users PROVE Cardinality(DefaultsOf(u)) <= 1
  <2>1. CASE DefaultsOf(u) = {}
    BY <2>1, FS_EmptySet
  <2>2. CASE DefaultsOf(u) # {}
    <3>1. PICK a : a \in DefaultsOf(u)
      BY <2>2
    <3>2. DefaultsOf(u) = {a}
      BY <3>1 DEF AccountsInv, BookInv
    <3>3. Cardinality({a}) = 1
      BY FS_Singleton
    <3> QED BY <3>2, <3>3
  <2> QED BY <2>1, <2>2
<1>3. ASSUME NEW u \in Users
      PROVE  Cardinality(AddressesOf(u)) <= MaxAddresses + Cardinality(Handlers) - 1
  <2>1. /\ IsFiniteSet(Claimed(u)) /\ Cardinality(Claimed(u)) \in Nat
        /\ Cardinality(AddressesOf(u)) \in Nat
    BY ClaimedFinite
  <2>2. Cardinality(AddressesOf(u)) <= Cardinality(Claimed(u))
    BY <2>1, FS_Subset DEF Claimed
  <2>3. Cardinality(Claimed(u)) <= ClaimLimit
    BY DEF AccountsInv, BookInv
  <2> QED BY <2>1, <2>2, <2>3, Bounds DEF ClaimLimit
<1> QED BY <1>1, <1>2, <1>3, InvIsTyped DEF AccountsSafe, AddressBook

(* Requests that read a user or an address, decide and save the whole row    *)
(* later leave every account locked exactly at the limit of tries, no user   *)
(* with two default addresses and none with more addresses than the limit    *)
(* and one for each further request, however they interleave.               *)
THEOREM AccountsAreSafe == AccountsSpec => []AccountsSafe
<1> QED BY AccountsInvHolds, InvIsSafe, PTL

(* A login holds one refresh token or none, and once it holds none it never  *)
(* does again, whatever a refresh looked up before the token was exchanged   *)
(* or logged out.                                                           *)
THEOREM LoginsHoldOneToken == AccountsSpec => LoginHoldsOneToken
<1>1. AccountsInv /\ [AccountsNext]_vars =>
        [\A l \in DOMAIN minted : /\ Cardinality(TokensOf(l, live')) <= 1
                                  /\ TokensOf(l, live) = {} => TokensOf(l, live') = {}]_vars
  BY LoginStep
<1> QED BY <1>1, AccountsInvHolds, PTL DEF AccountsSpec, LoginHoldsOneToken

(* No drain lets an event reach the broker before one that was committed     *)
(* when its row was drawn, unless publishing that one failed; drains may     *)
(* list the same rows and die at any point.                                 *)
THEOREM EarlierEventsFirst == AccountsSpec => EarlierFirst
<1> QED BY RowsInOrder, AccountsInvHolds, PTL DEF AccountsSpec, EarlierFirst
============================================================================
