-------------------------- MODULE TelegramProofs ---------------------------
(* Proofs about the two services with a Telegram bot, for any chats, users,  *)
(* tasks, requests and managers: the alerts of the notification service, and *)
(* the desk of the support service, with the web chat and the product        *)
(* questions.                                                                *)
EXTENDS Alerts, Support, TLAPS

(**************************************************************************)
(* Alerts: an alert reaches whom it is due for and no other, and a chat   *)
(* that is accepted is welcomed.                                          *)
(**************************************************************************)

\* Rows of the table, whatever the chats of the environment.
AlertRow ==
  [id : Nat, user : User \cup {None}, label : Chat \cup {None},
   status : {"pending", "accepted", "rejected"}, order : BOOLEAN, muted : BOOLEAN]

AlertShape ==
  [state : {"none", "published", "sending", "lost"}, task : Task \cup {None}, to : SUBSET Chat,
   got : SUBSET Chat, failed : SUBSET Chat, passed : SUBSET Chat,
   always : SUBSET Chat, ever : SUBSET Chat, blind : BOOLEAN]

MsgShape ==
  [step : {"none", "by chat", "by user", "register", "insert", "done", "lost"}, task : Task \cup {None},
   chat : Chat \cup {None}, welcomed : BOOLEAN, accepted : BOOLEAN]

AlertsTyped ==
  /\ site \in Installation
  /\ DOMAIN row \subseteq Chat
  /\ row \in [DOMAIN row -> AlertRow]
  /\ lastId \in Nat
  /\ alert \in AlertShape
  /\ msg \in [site.msgs -> MsgShape]
  /\ \A m \in site.msgs : msg[m].step \in {"by chat", "by user", "register", "insert"} => msg[m].chat \in Chat

\* What routing would choose lies between what is remembered of an alert.
RoutedRemembered ==
  alert.state = "published" =>
    /\ alert.always \subseteq Routed(row) /\ Routed(row) \subseteq alert.ever
    /\ alert.got = {} /\ ~alert.blind

\* An alert under way has every chat it may have, and forgets none.
EverySent ==
  /\ alert.to \cup alert.got \subseteq alert.ever \cup (IF alert.blind THEN site.env ELSE {})
  /\ alert.state = "sending" /\ ~alert.blind =>
       alert.always \subseteq alert.to \cup Delivered \cup alert.passed

\* Only the first lookup, by chat, meets a chat that is accepted.
AcceptedIsFound ==
  \A m \in site.msgs :
    msg[m].accepted =>
      \/ msg[m].step = "by chat" /\ IsAccepted(row, msg[m].chat)
      \/ msg[m].step = "done" /\ msg[m].welcomed

AlertsInv == AlertsTyped /\ RoutedRemembered /\ EverySent /\ AcceptedIsFound

----------------------------------------------------------------------------
(* What an action may change.                                               *)

\* A change of the table is seen by an alert that is published.
LEMMA AlertSeesRows ==
  ASSUME AlertsInv, NEW rows, SetRows(rows), UNCHANGED site, DOMAIN rows \subseteq Chat
  PROVE  alert' \in AlertShape /\ RoutedRemembered' /\ EverySent'
<1>1. row' = rows /\ Routed(row)' = Routed(rows) /\ Routed(rows) \subseteq Chat
  BY DEF SetRows, Routed, Muted, Accepted, AlertsInv, AlertsTyped, Installation
<1>2. CASE alert.state # "published"
  <2>1. UNCHANGED alert
    BY <1>2 DEF SetRows
  <2> QED BY <1>2, <2>1 DEF AlertsInv, AlertsTyped, RoutedRemembered, EverySent, Delivered
<1>3. CASE alert.state = "published"
  <2>1. alert' = [alert EXCEPT !.always = @ \cap Routed(rows), !.ever = @ \cup Routed(rows)]
    BY <1>3 DEF SetRows
  <2>2. alert \in AlertShape
    BY DEF AlertsInv, AlertsTyped
  <2>3. /\ alert'.state = "published" /\ alert'.got = alert.got /\ alert'.to = alert.to
        /\ alert'.blind = alert.blind /\ alert'.always = alert.always \cap Routed(rows)
        /\ alert'.ever = alert.ever \cup Routed(rows)
    BY <1>3, <2>1, <2>2 DEF AlertShape
  <2>4. alert' \in AlertShape
    BY <1>1, <2>1, <2>2 DEF AlertShape
  <2>5. RoutedRemembered' /\ EverySent'
    BY <1>1, <1>3, <2>3 DEF AlertsInv, RoutedRemembered, EverySent
  <2> QED BY <2>4, <2>5
<1> QED BY <1>2, <1>3

\* An alert that nothing happens to.
LEMMA AlertRests ==
  ASSUME AlertsInv, UNCHANGED <<site, row, alert>>
  PROVE  alert' \in AlertShape /\ RoutedRemembered' /\ EverySent'
BY DEF AlertsInv, AlertsTyped, RoutedRemembered, EverySent, Delivered, Routed, Muted, Accepted

\* Messages that nothing happens to, while no accepted row is lost.
LEMMA MessagesRest ==
  ASSUME AlertsInv, UNCHANGED <<site, msg>>, \A c \in Chat : IsAccepted(row, c) => IsAccepted(row', c)
  PROVE  /\ msg' \in [site'.msgs -> MsgShape] /\ AcceptedIsFound'
         /\ \A m \in site'.msgs : msg'[m].step \in {"by chat", "by user", "register", "insert"} => msg'[m].chat \in Chat
<1>1. \A m \in site.msgs : msg[m].step = "by chat" => msg[m].chat \in Chat
  BY DEF AlertsInv, AlertsTyped
<1>2. AcceptedIsFound'
  <2> SUFFICES ASSUME NEW m \in site.msgs, msg[m].accepted
               PROVE  \/ msg[m].step = "by chat" /\ IsAccepted(row', msg[m].chat)
                      \/ msg[m].step = "done" /\ msg[m].welcomed
    BY DEF AcceptedIsFound, IsAccepted
  <2> QED BY <1>1 DEF AlertsInv, AcceptedIsFound, IsAccepted
<1> QED BY <1>2 DEF AlertsInv, AlertsTyped

\* One message moves on.
LEMMA MessageMoves ==
  ASSUME AlertsInv, NEW m \in site.msgs, NEW next \in MsgShape, msg' = [msg EXCEPT ![m] = next],
         UNCHANGED site, \A c \in Chat : IsAccepted(row, c) => IsAccepted(row', c),
         next.step \in {"by chat", "by user", "register", "insert"} => next.chat \in Chat,
         next.accepted => \/ next.step = "by chat" /\ IsAccepted(row', next.chat)
                          \/ next.step = "done" /\ next.welcomed
  PROVE  /\ msg' \in [site'.msgs -> MsgShape] /\ AcceptedIsFound'
         /\ \A k \in site'.msgs : msg'[k].step \in {"by chat", "by user", "register", "insert"} => msg'[k].chat \in Chat
<1>1. \A k \in site.msgs : msg'[k] = IF k = m THEN next ELSE msg[k]
  BY DEF AlertsInv, AlertsTyped
<1>2. \A k \in site.msgs : msg[k].step = "by chat" => msg[k].chat \in Chat
  BY DEF AlertsInv, AlertsTyped
<1>3. AcceptedIsFound'
  <2> SUFFICES ASSUME NEW k \in site.msgs, msg'[k].accepted
               PROVE  \/ msg'[k].step = "by chat" /\ IsAccepted(row', msg[k].chat) /\ msg'[k].chat = msg[k].chat
                      \/ msg'[k].step = "by chat" /\ IsAccepted(row', next.chat) /\ k = m
                      \/ msg'[k].step = "done" /\ msg'[k].welcomed
    BY <1>1 DEF AcceptedIsFound, IsAccepted
  <2>1. CASE k = m
    BY <1>1, <2>1
  <2>2. CASE k # m
    <3>1. msg'[k] = msg[k] /\ msg[k].accepted
      BY <1>1, <2>2
    <3>2. \/ msg[k].step = "by chat" /\ IsAccepted(row, msg[k].chat)
          \/ msg[k].step = "done" /\ msg[k].welcomed
      BY <3>1 DEF AlertsInv, AcceptedIsFound
    <3> QED BY <1>2, <3>1, <3>2
  <2> QED BY <2>1, <2>2
<1>4. msg' \in [site'.msgs -> MsgShape]
  BY DEF AlertsInv, AlertsTyped
<1>5. \A k \in site'.msgs : msg'[k].step \in {"by chat", "by user", "register", "insert"} => msg'[k].chat \in Chat
  BY <1>1 DEF AlertsInv, AlertsTyped
<1> QED BY <1>3, <1>4, <1>5

\* The table without its alert and messages.
LEMMA TableRests ==
  ASSUME AlertsInv, UNCHANGED <<site, row, lastId>>
  PROVE  /\ site' \in Installation /\ DOMAIN row' \subseteq Chat
         /\ row' \in [DOMAIN row' -> AlertRow] /\ lastId' \in Nat
         /\ \A c \in Chat : IsAccepted(row, c) => IsAccepted(row', c)
BY DEF AlertsInv, AlertsTyped, IsAccepted

----------------------------------------------------------------------------
(* The actions.                                                             *)

\* Together the parts are the invariant again.
LEMMA Together ==
  ASSUME site' \in Installation, DOMAIN row' \subseteq Chat, row' \in [DOMAIN row' -> AlertRow], lastId' \in Nat,
         alert' \in AlertShape, RoutedRemembered', EverySent',
         msg' \in [site'.msgs -> MsgShape], AcceptedIsFound',
         \A m \in site'.msgs : msg'[m].step \in {"by chat", "by user", "register", "insert"} => msg'[m].chat \in Chat
  PROVE  AlertsInv'
BY DEF AlertsInv, AlertsTyped

LEMMA InitSound ==
  ASSUME AlertsAssumption, AlertsInit
  PROVE  AlertsInv
<1>1. site \in Installation /\ row = [c \in {} |-> NoMsg] /\ lastId = 0 /\ alert = NoAlert /\ msg = [m \in site.msgs |-> NoMsg]
  BY DEF AlertsInit, AlertsAssumption
<1>2. alert \in AlertShape /\ NoMsg \in MsgShape
  BY <1>1 DEF NoAlert, NoMsg, AlertShape, MsgShape
<1>3. DOMAIN row = {} /\ row \in [{} -> AlertRow]
  BY <1>1
<1>4. AlertsTyped
  BY <1>1, <1>2, <1>3 DEF AlertsTyped, NoMsg
<1>5. RoutedRemembered /\ EverySent /\ AcceptedIsFound
  BY <1>1 DEF RoutedRemembered, EverySent, AcceptedIsFound, NoAlert, NoMsg
<1> QED BY <1>4, <1>5 DEF AlertsInv

\* What a manager changes; the messages under way see it.
LEMMA RequestKeeps ==
  ASSUME AlertsInv, NEW t, NEW rows, Request(t, rows), lastId' \in Nat,
         DOMAIN rows \subseteq Chat, rows \in [DOMAIN rows -> AlertRow]
  PROVE  AlertsInv'
<1>1. SetRows(rows) /\ row' = rows /\ site' = site /\ msg' = Watched(msg, rows)
  BY DEF Request, SetRows
<1>2. alert' \in AlertShape /\ RoutedRemembered' /\ EverySent'
  BY <1>1, AlertSeesRows
<1>3. ASSUME NEW m \in site.msgs
      PROVE  msg'[m] = [msg[m] EXCEPT !.accepted = msg[m].accepted /\ IsAccepted(rows, msg[m].chat)]
  BY <1>1 DEF Watched
<1>4. ASSUME NEW m \in site.msgs
      PROVE  /\ msg[m] \in MsgShape /\ msg'[m] \in MsgShape
             /\ msg'[m].step = msg[m].step /\ msg'[m].chat = msg[m].chat /\ msg'[m].welcomed = msg[m].welcomed
             /\ msg'[m].accepted = (msg[m].accepted /\ IsAccepted(rows, msg[m].chat))
  <2>1. msg[m] \in MsgShape
    BY DEF AlertsInv, AlertsTyped
  <2>2. (msg[m].accepted /\ IsAccepted(rows, msg[m].chat)) \in BOOLEAN
    OBVIOUS
  <2>3. PICK b \in BOOLEAN : b = (msg[m].accepted /\ IsAccepted(rows, msg[m].chat))
    BY <2>2
  <2>4. msg'[m] = [msg[m] EXCEPT !.accepted = b]
    BY <1>3, <2>3
  <2>5. /\ msg'[m] \in MsgShape /\ msg'[m].step = msg[m].step /\ msg'[m].chat = msg[m].chat
        /\ msg'[m].welcomed = msg[m].welcomed /\ msg'[m].accepted = b
    BY <2>1, <2>4 DEF MsgShape
  <2> QED BY <2>1, <2>3, <2>5
<1>5. msg' = [m \in site.msgs |-> msg'[m]]
  BY <1>1 DEF Watched
<1>6. AcceptedIsFound'
  <2> SUFFICES ASSUME NEW m \in site.msgs, msg'[m].accepted
               PROVE  \/ msg'[m].step = "by chat" /\ IsAccepted(rows, msg'[m].chat)
                      \/ msg'[m].step = "done" /\ msg'[m].welcomed
    BY <1>1 DEF AcceptedIsFound, IsAccepted
  <2>1. msg[m].accepted /\ IsAccepted(rows, msg[m].chat)
    BY <1>4
  <2>2. msg[m].step = "by chat" \/ (msg[m].step = "done" /\ msg[m].welcomed)
    BY <2>1 DEF AlertsInv, AcceptedIsFound
  <2> QED BY <1>4, <2>1, <2>2
<1>7. \A m \in site.msgs : msg'[m].step \in {"by chat", "by user", "register", "insert"} => msg'[m].chat \in Chat
  BY <1>4 DEF AlertsInv, AlertsTyped
<1>8. msg' \in [site.msgs -> MsgShape]
  BY <1>4, <1>5
<1> QED BY <1>1, <1>2, <1>6, <1>7, <1>8, Together DEF AlertsInv, AlertsTyped

LEMMA RequestsKeep ==
  ASSUME AlertsInv, NEW t, NEW c \in Chat,
         \/ Reject(t, c)
         \/ Delete(t, c)
         \/ \E order \in site.flags : Accept(t, c, order)
         \/ \E order \in site.flags, muted \in BOOLEAN : UpdateAlerts(t, c, order, muted)
         \/ \E u \in {None} \cup site.manual, order \in site.flags : CreateManual(t, c, u, order)
  PROVE  AlertsInv'
<1> USE DEF AlertRow
<1>1. row \in [DOMAIN row -> AlertRow] /\ DOMAIN row \subseteq Chat /\ lastId \in Nat /\ site \in Installation
  BY DEF AlertsInv, AlertsTyped
<1>2. site.manual \subseteq User /\ site.flags \subseteq BOOLEAN
  BY <1>1 DEF Installation
<1>3. CASE Reject(t, c)
  <2> DEFINE rows == [row EXCEPT ![c].status = "rejected"]
  <2> DEFINE next == [row[c] EXCEPT !.status = "rejected"]
  <2>1. c \in DOMAIN row /\ row[c] \in AlertRow
    BY <1>1, <1>3 DEF Reject
  <2>2. next \in AlertRow
    BY <2>1
  <2>3. rows = [row EXCEPT ![c] = next]
    BY <2>1, <1>1
  <2> HIDE DEF next
  <2>4. DOMAIN rows = DOMAIN row /\ rows \in [DOMAIN rows -> AlertRow]
    BY <1>1, <2>2, <2>3
  <2>5. Request(t, rows) /\ lastId' = lastId
    BY <1>3 DEF Reject
  <2> QED BY <1>1, <2>4, <2>5, RequestKeeps
<1>4. CASE Delete(t, c)
  <2> DEFINE rows == Restrict(row, DOMAIN row \ {c})
  <2>1. DOMAIN rows \subseteq DOMAIN row /\ rows \in [DOMAIN rows -> AlertRow]
    BY <1>1 DEF Restrict
  <2>2. Request(t, rows) /\ lastId' = lastId
    BY <1>4 DEF Delete
  <2> QED BY <1>1, <2>1, <2>2, RequestKeeps
<1>5. ASSUME NEW order \in site.flags, Accept(t, c, order)
      PROVE  AlertsInv'
  <2> DEFINE rows == [row EXCEPT ![c].status = "accepted", ![c].order = order]
  <2> DEFINE next == [row[c] EXCEPT !.status = "accepted", !.order = order]
  <2>1. c \in DOMAIN row /\ row[c] \in AlertRow
    BY <1>1, <1>5 DEF Accept
  <2>2. next \in AlertRow
    BY <1>2, <2>1
  <2>3. rows = [row EXCEPT ![c] = next]
    BY <2>1, <1>1
  <2> HIDE DEF next
  <2>4. DOMAIN rows = DOMAIN row /\ rows \in [DOMAIN rows -> AlertRow]
    BY <1>1, <2>2, <2>3
  <2>5. Request(t, rows) /\ lastId' = lastId
    BY <1>5 DEF Accept
  <2> QED BY <1>1, <2>4, <2>5, RequestKeeps
<1>6. ASSUME NEW order \in site.flags, NEW muted \in BOOLEAN, UpdateAlerts(t, c, order, muted)
      PROVE  AlertsInv'
  <2> DEFINE rows == [row EXCEPT ![c].order = order, ![c].muted = muted]
  <2> DEFINE next == [row[c] EXCEPT !.order = order, !.muted = muted]
  <2>1. c \in DOMAIN row /\ row[c] \in AlertRow
    BY <1>1, <1>6 DEF UpdateAlerts
  <2>2. next \in AlertRow
    BY <1>2, <2>1
  <2>3. rows = [row EXCEPT ![c] = next]
    BY <2>1, <1>1
  <2> HIDE DEF next
  <2>4. DOMAIN rows = DOMAIN row /\ rows \in [DOMAIN rows -> AlertRow]
    BY <1>1, <2>2, <2>3
  <2>5. Request(t, rows) /\ lastId' = lastId
    BY <1>6 DEF UpdateAlerts
  <2> QED BY <1>1, <2>4, <2>5, RequestKeeps
<1>7. ASSUME NEW u \in {None} \cup site.manual, NEW order \in site.flags, CreateManual(t, c, u, order)
      PROVE  AlertsInv'
  <2>1. Request(t, Created(c, u, order)) /\ lastId' \in Nat
    BY <1>1, <1>7 DEF CreateManual
  <2>2. DOMAIN Created(c, u, order) \subseteq Chat /\ Created(c, u, order) \in [DOMAIN Created(c, u, order) -> AlertRow]
    <3>1. CASE c \in DOMAIN row
      <4> DEFINE next == [row[c] EXCEPT !.user = IF u = None THEN @ ELSE u, !.status = "accepted", !.order = order]
      <4>1. row[c] \in AlertRow /\ (IF u = None THEN row[c].user ELSE u) \in User \cup {None}
        BY <1>1, <1>2, <3>1
      <4>2. next \in AlertRow
        BY <1>2, <4>1
      <4>3. Created(c, u, order) = [row EXCEPT ![c] = next]
        BY <1>1, <3>1 DEF Created
      <4> HIDE DEF next
      <4> QED BY <1>1, <3>1, <4>2, <4>3
    <3>2. CASE c \notin DOMAIN row
      BY <1>1, <1>2, <3>2 DEF Created
    <3> QED BY <3>1, <3>2
  <2> QED BY <2>1, <2>2, RequestKeeps
<1> QED BY <1>3, <1>4, <1>5, <1>6, <1>7

\* The handler of a message ends.
LEMMA FinishSound ==
  ASSUME AlertsInv, NEW m \in site.msgs, NEW w \in BOOLEAN, Finish(m, w), UNCHANGED site,
         msg[m].accepted => w, \A c \in Chat : IsAccepted(row, c) => IsAccepted(row', c)
  PROVE  /\ msg' \in [site'.msgs -> MsgShape] /\ AcceptedIsFound'
         /\ \A k \in site'.msgs : msg'[k].step \in {"by chat", "by user", "register", "insert"} => msg'[k].chat \in Chat
<1> DEFINE next == [msg[m] EXCEPT !.step = "done", !.welcomed = w]
<1>1. msg[m] \in MsgShape /\ msg \in [site.msgs -> MsgShape]
  BY DEF AlertsInv, AlertsTyped
<1>2. next \in MsgShape /\ next.step = "done" /\ next.welcomed = w /\ next.accepted = msg[m].accepted
  BY <1>1 DEF MsgShape
<1>3. msg' = [msg EXCEPT ![m] = next]
  BY <1>1 DEF Finish
<1> HIDE DEF next
<1> QED BY <1>2, <1>3, MessageMoves

\* The handler goes on to its next statement.
LEMMA StepSound ==
  ASSUME AlertsInv, NEW m \in site.msgs, NEW step \in {"by user", "register", "insert"},
         msg' = [msg EXCEPT ![m].step = step], UNCHANGED <<site, row>>, msg[m].chat \in Chat, ~msg[m].accepted
  PROVE  /\ msg' \in [site'.msgs -> MsgShape] /\ AcceptedIsFound'
         /\ \A k \in site'.msgs : msg'[k].step \in {"by chat", "by user", "register", "insert"} => msg'[k].chat \in Chat
<1> DEFINE next == [msg[m] EXCEPT !.step = step]
<1>1. msg[m] \in MsgShape /\ msg \in [site.msgs -> MsgShape]
  BY DEF AlertsInv, AlertsTyped
<1>2. next \in MsgShape /\ next.step = step /\ next.chat = msg[m].chat /\ next.accepted = msg[m].accepted
  BY <1>1 DEF MsgShape
<1>3. msg' = [msg EXCEPT ![m] = next] /\ \A c \in Chat : IsAccepted(row, c) => IsAccepted(row', c)
  BY <1>1
<1> HIDE DEF next
<1> QED BY <1>2, <1>3, MessageMoves

\* Display fields are refreshed; nobody is accepted or refused by that.
LEMMA LabelSound ==
  ASSUME AlertsInv, NEW d \in DOMAIN row, NEW c \in Chat, SetRows([row EXCEPT ![d].label = c]), UNCHANGED <<site, lastId>>
  PROVE  /\ site' \in Installation /\ DOMAIN row' \subseteq Chat
         /\ row' \in [DOMAIN row' -> AlertRow] /\ lastId' \in Nat
         /\ \A b \in Chat : IsAccepted(row, b) => IsAccepted(row', b)
         /\ alert' \in AlertShape /\ RoutedRemembered' /\ EverySent'
<1> DEFINE next == [row[d] EXCEPT !.label = c]
<1>1. row \in [DOMAIN row -> AlertRow] /\ row[d] \in AlertRow /\ DOMAIN row \subseteq Chat
  BY DEF AlertsInv, AlertsTyped
<1>2. next \in AlertRow /\ next.status = row[d].status
  BY <1>1 DEF AlertRow
<1>3. row' = [row EXCEPT ![d] = next]
  BY <1>1 DEF SetRows
<1> HIDE DEF next
<1>4. DOMAIN row' = DOMAIN row /\ row' \in [DOMAIN row -> AlertRow] /\ \A b \in DOMAIN row : row'[b].status = row[b].status
  BY <1>1, <1>2, <1>3
<1>5. alert' \in AlertShape /\ RoutedRemembered' /\ EverySent'
  <2>1. DOMAIN [row EXCEPT ![d].label = c] \subseteq Chat
    BY <1>1
  <2> QED BY <2>1, AlertSeesRows
<1> QED BY <1>1, <1>4, <1>5 DEF IsAccepted, AlertsInv, AlertsTyped

LEMMA LookupsKeep ==
  ASSUME AlertsInv, NEW m \in site.msgs, FindByChat(m) \/ FindByUser(m)
  PROVE  AlertsInv'
<1>1. UNCHANGED <<site, lastId>> /\ msg[m].chat \in Chat /\ msg[m].step \in {"by chat", "by user"}
  BY DEF FindByChat, FindByUser, Handling, taskVars, AlertsInv, AlertsTyped
<1>2. msg[m].accepted => msg[m].step = "by chat" /\ IsAccepted(row, msg[m].chat)
  BY <1>1 DEF AlertsInv, AcceptedIsFound
<1>3. ASSUME NEW d \in DOMAIN row, Known(m, d), msg[m].step = "by chat" => d = msg[m].chat
      PROVE  AlertsInv'
  <2>1. SetRows([row EXCEPT ![d].label = msg[m].chat]) /\ Finish(m, row[d].status = "accepted")
    BY <1>3 DEF Known
  <2>2. msg[m].accepted => (row[d].status = "accepted")
    BY <1>2, <1>3 DEF IsAccepted
  <2>3. (row[d].status = "accepted") \in BOOLEAN
    OBVIOUS
  <2>4. PICK w \in BOOLEAN : w = (row[d].status = "accepted")
    BY <2>3
  <2>5. Finish(m, w) /\ (msg[m].accepted => w)
    BY <2>1, <2>2, <2>4 DEF Finish
  <2>6. /\ site' \in Installation /\ DOMAIN row' \subseteq Chat
        /\ row' \in [DOMAIN row' -> AlertRow] /\ lastId' \in Nat
        /\ \A b \in Chat : IsAccepted(row, b) => IsAccepted(row', b)
        /\ alert' \in AlertShape /\ RoutedRemembered' /\ EverySent'
    BY <1>1, <1>3, <2>1, LabelSound
  <2>7. /\ msg' \in [site'.msgs -> MsgShape] /\ AcceptedIsFound'
        /\ \A k \in site'.msgs : msg'[k].step \in {"by chat", "by user", "register", "insert"} => msg'[k].chat \in Chat
    BY <1>1, <2>5, <2>6, FinishSound
  <2> QED BY <2>6, <2>7, Together
<1>4. ASSUME UNCHANGED <<row, alert>>, NEW step \in {"by user", "register"}, ~msg[m].accepted,
             msg' = [msg EXCEPT ![m].step = step]
      PROVE  AlertsInv'
  <2>1. /\ msg' \in [site'.msgs -> MsgShape] /\ AcceptedIsFound'
        /\ \A k \in site'.msgs : msg'[k].step \in {"by chat", "by user", "register", "insert"} => msg'[k].chat \in Chat
    BY <1>1, <1>4, StepSound
  <2>2. UNCHANGED <<site, row, lastId>> /\ UNCHANGED <<site, row, alert>>
    BY <1>1, <1>4
  <2> QED BY <2>1, <2>2, AlertRests, TableRests, Together
<1>5. CASE FindByChat(m)
  <2>1. CASE msg[m].chat \in DOMAIN row
    BY <1>3, <1>5, <2>1 DEF FindByChat
  <2>2. CASE msg[m].chat \notin DOMAIN row
    <3>1. msg' = [msg EXCEPT ![m].step = "by user"] /\ UNCHANGED <<row, alert>>
      BY <1>5, <2>2 DEF FindByChat
    <3>2. ~msg[m].accepted
      BY <1>2, <2>2 DEF IsAccepted
    <3> QED BY <1>4, <3>1, <3>2
  <2> QED BY <2>1, <2>2
<1>6. CASE FindByUser(m)
  <2>1. msg[m].step = "by user" /\ ~msg[m].accepted
    BY <1>2, <1>6 DEF FindByUser, Handling
  <2>2. CASE \E d \in ByUser(m) : Known(m, d)
    BY <1>3, <2>1, <2>2 DEF ByUser
  <2>3. CASE UNCHANGED <<row, alert>> /\ Finish(m, TRUE)
    <3>1. UNCHANGED <<site, row, lastId>> /\ UNCHANGED <<site, row, alert>>
      BY <1>1, <2>3
    <3>2. \A c \in Chat : IsAccepted(row, c) => IsAccepted(row', c)
      BY <3>1
    <3>3. /\ msg' \in [site'.msgs -> MsgShape] /\ AcceptedIsFound'
          /\ \A k \in site'.msgs : msg'[k].step \in {"by chat", "by user", "register", "insert"} => msg'[k].chat \in Chat
      BY <2>3, <3>1, <3>2, FinishSound
    <3> QED BY <3>1, <3>3, AlertRests, TableRests, Together
  <2>4. CASE UNCHANGED <<row, alert>> /\ msg' = [msg EXCEPT ![m].step = "register"]
    BY <1>4, <2>1, <2>4
  <2> QED BY <1>6, <2>2, <2>3, <2>4 DEF FindByUser
<1> QED BY <1>5, <1>6

LEMMA RegistrationKeeps ==
  ASSUME AlertsAssumption, AlertsInv, NEW m \in site.msgs, LookAgain(m) \/ Insert(m)
  PROVE  AlertsInv'
<1>1. site' = site /\ msg[m].chat \in Chat /\ ~msg[m].accepted
  BY DEF LookAgain, Insert, Handling, taskVars, AlertsInv, AlertsTyped, AcceptedIsFound
<1>2. row \in [DOMAIN row -> AlertRow] /\ DOMAIN row \subseteq Chat /\ lastId \in Nat
  BY DEF AlertsInv, AlertsTyped
<1>3. ASSUME UNCHANGED <<row, lastId, alert>>,
             \/ \E w \in BOOLEAN : Finish(m, w)
             \/ msg' = [msg EXCEPT ![m].step = "insert"]
      PROVE  AlertsInv'
  <2>1. UNCHANGED <<site, row, lastId>> /\ UNCHANGED <<site, row, alert>>
    BY <1>1, <1>3
  <2>2. \A c \in Chat : IsAccepted(row, c) => IsAccepted(row', c)
    BY <1>3
  <2>3. /\ msg' \in [site'.msgs -> MsgShape] /\ AcceptedIsFound'
        /\ \A k \in site'.msgs : msg'[k].step \in {"by chat", "by user", "register", "insert"} => msg'[k].chat \in Chat
    <3>1. CASE \E w \in BOOLEAN : Finish(m, w)
      <4>1. PICK w \in BOOLEAN : Finish(m, w)
        BY <3>1
      <4> QED BY <1>1, <2>2, <4>1, FinishSound
    <3>2. CASE msg' = [msg EXCEPT ![m].step = "insert"]
      BY <1>1, <2>1, <3>2, StepSound
    <3> QED BY <1>3, <3>1, <3>2
  <2> QED BY <2>1, <2>3, AlertRests, TableRests, Together
<1>4. CASE LookAgain(m)
  <2>1. UNCHANGED <<row, lastId, alert>>
    BY <1>4 DEF LookAgain, tableVars
  <2>2. \/ \E w \in BOOLEAN : Finish(m, w)
        \/ msg' = [msg EXCEPT ![m].step = "insert"]
    BY <1>4 DEF LookAgain, Answer
  <2> QED BY <1>3, <2>1, <2>2
<1>5. CASE Insert(m)
  <2>1. CASE Finish(m, FALSE) /\ UNCHANGED <<tableVars, alert, acks>>
    <3>1. UNCHANGED <<row, lastId, alert>> /\ \E w \in BOOLEAN : Finish(m, w)
      BY <2>1 DEF tableVars
    <3> QED BY <1>3, <3>1
  <2>2. ASSUME msg[m].chat \notin DOMAIN row, lastId' = lastId + 1, Finish(m, FALSE),
               SetRows([d \in DOMAIN row \cup {msg[m].chat} |->
                 IF d # msg[m].chat THEN row[d]
                 ELSE [id |-> lastId + 1, user |-> Sender[msg[m].chat], label |-> msg[m].chat, status |-> "pending",
                       order |-> FALSE, muted |-> FALSE]])
        PROVE  AlertsInv'
    <3> DEFINE new == [id |-> lastId + 1, user |-> Sender[msg[m].chat], label |-> msg[m].chat, status |-> "pending",
                       order |-> FALSE, muted |-> FALSE]
    <3> DEFINE rows == [d \in DOMAIN row \cup {msg[m].chat} |-> IF d # msg[m].chat THEN row[d] ELSE new]
    <3>1. new \in AlertRow
      BY <1>1, <1>2 DEF AlertRow, AlertsAssumption
    <3>2. SetRows(rows) /\ row' = rows
      BY <2>2 DEF SetRows
    <3> HIDE DEF new
    <3>3. DOMAIN rows \subseteq Chat /\ rows \in [DOMAIN rows -> AlertRow] /\ \A d \in DOMAIN row : rows[d] = row[d]
      BY <1>1, <1>2, <2>2, <3>1
    <3>4. \A c \in Chat : IsAccepted(row, c) => IsAccepted(row', c)
      BY <1>1, <3>2, <3>3 DEF IsAccepted
    <3>5. alert' \in AlertShape /\ RoutedRemembered' /\ EverySent'
      BY <1>1, <3>2, <3>3, AlertSeesRows
    <3>6. /\ msg' \in [site'.msgs -> MsgShape] /\ AcceptedIsFound'
          /\ \A k \in site'.msgs : msg'[k].step \in {"by chat", "by user", "register", "insert"} => msg'[k].chat \in Chat
      BY <1>1, <2>2, <3>4, FinishSound
    <3>7. site' \in Installation /\ lastId' \in Nat
      <4>1. site \in Installation
        BY DEF AlertsInv, AlertsTyped
      <4>2. lastId' = lastId + 1
        BY <2>2
      <4> QED BY <1>1, <1>2, <4>1, <4>2
    <3> QED BY <3>2, <3>3, <3>5, <3>6, <3>7, Together
  <2> QED BY <1>5, <2>1, <2>2 DEF Insert
<1> QED BY <1>4, <1>5

LEMMA ReceiveKeeps ==
  ASSUME AlertsInv, NEW m \in site.msgs, NEW t \in site.tasks, NEW c \in Chat, Receive(m, t, c)
  PROVE  AlertsInv'
<1>1. UNCHANGED <<site, row, lastId>> /\ UNCHANGED <<site, row, alert>>
  BY DEF Receive, tableVars, taskVars
<1>2. IsAccepted(row, c) \in BOOLEAN
  BY DEF IsAccepted
<1>3. PICK a \in BOOLEAN : a = IsAccepted(row, c)
  BY <1>2
<1>4. PICK next : next = [step |-> "by chat", task |-> t, chat |-> c, welcomed |-> FALSE, accepted |-> a]
  OBVIOUS
<1>5. msg' = [msg EXCEPT ![m] = next]
  BY <1>3, <1>4 DEF Receive
<1>6. next \in MsgShape /\ next.step = "by chat" /\ next.chat = c /\ next.accepted = a
  <2>1. t \in Task
    BY DEF AlertsInv, AlertsTyped, Installation
  <2> QED BY <1>4, <2>1 DEF MsgShape
<1>7. next.accepted => IsAccepted(row', next.chat)
  BY <1>1, <1>3, <1>6
<1>8. /\ msg' \in [site'.msgs -> MsgShape] /\ AcceptedIsFound'
      /\ \A k \in site'.msgs : msg'[k].step \in {"by chat", "by user", "register", "insert"} => msg'[k].chat \in Chat
  BY <1>1, <1>5, <1>6, <1>7, TableRests, MessageMoves
<1> QED BY <1>1, <1>8, AlertRests, TableRests, Together

\* Neither the table nor the messages.
LEMMA AlertMoves ==
  ASSUME AlertsInv, UNCHANGED <<tableVars, site, msg>>, alert' \in AlertShape, RoutedRemembered', EverySent'
  PROVE  AlertsInv'
<1>1. UNCHANGED <<site, row, lastId>> /\ UNCHANGED <<site, msg>>
  BY DEF tableVars
<1> QED BY <1>1, TableRests, MessagesRest, Together

LEMMA ListsKeep ==
  ASSUME AlertsInv, NEW t,
         \/ \E by \in {"request", "ticker"} : ReadAccepted(t, by) \/ Store(t, by) \/ ReadFails(t, by)
         \/ Boot(t)
  PROVE  AlertsInv'
<1>1. UNCHANGED <<tableVars, site, msg>> /\ UNCHANGED <<site, row, alert>>
  BY DEF ReadAccepted, Store, ReadFails, Boot, tableVars
<1> QED BY <1>1, AlertRests, AlertMoves

LEMMA StopKeeps ==
  ASSUME AlertsInv, NEW t, Stop(t)
  PROVE  AlertsInv'
<1>1. UNCHANGED <<site, row, lastId>>
  BY DEF Stop, tableVars
<1>2. alert' \in AlertShape /\ RoutedRemembered' /\ EverySent'
  <2>1. CASE UNCHANGED alert
    BY <1>1, <2>1, AlertRests
  <2>2. CASE alert' = [NoAlert EXCEPT !.state = "lost"]
    <3>1. /\ alert' \in AlertShape /\ alert'.state = "lost" /\ alert'.to = {} /\ alert'.got = {}
      BY <2>2 DEF NoAlert, AlertShape
    <3> QED BY <3>1 DEF RoutedRemembered, EverySent
  <2> QED BY <2>1, <2>2 DEF Stop
<1>3. ASSUME NEW m \in site.msgs
      PROVE  \/ msg'[m] = msg[m]
             \/ msg'[m] \in MsgShape /\ msg'[m].step = "lost" /\ ~msg'[m].accepted
  BY DEF Stop, NoMsg, MsgShape
<1>4. msg' = [m \in site.msgs |-> msg'[m]]
  BY DEF Stop
<1>5. \A m \in site.msgs : msg[m] \in MsgShape
  BY DEF AlertsInv, AlertsTyped
<1>6. msg' \in [site.msgs -> MsgShape]
  BY <1>3, <1>4, <1>5
<1>7. AcceptedIsFound'
  BY <1>1, <1>3 DEF AlertsInv, AcceptedIsFound, IsAccepted
<1>8. \A m \in site.msgs : msg'[m].step \in {"by chat", "by user", "register", "insert"} => msg'[m].chat \in Chat
  BY <1>3 DEF AlertsInv, AlertsTyped
<1> QED BY <1>1, <1>2, <1>6, <1>7, <1>8, TableRests, Together

LEMMA PublishKeeps ==
  ASSUME AlertsInv, PublishEvent
  PROVE  AlertsInv'
<1>1. UNCHANGED <<tableVars, site, msg>> /\ row' = row /\ site' = site
  BY DEF PublishEvent, tableVars, taskVars
<1>2. Routed(row)' = Routed(row) /\ Routed(row) \subseteq Chat
  BY <1>1 DEF Routed, Muted, Accepted, AlertsInv, AlertsTyped, Installation
<1>3. /\ alert' \in AlertShape /\ alert'.state = "published" /\ alert'.to = {} /\ alert'.got = {} /\ ~alert'.blind
      /\ alert'.always = Routed(row) /\ alert'.ever = Routed(row)
  BY <1>2 DEF PublishEvent, NoAlert, AlertShape
<1> QED BY <1>1, <1>2, <1>3, AlertMoves DEF RoutedRemembered, EverySent

LEMMA RouteKeeps ==
  ASSUME AlertsInv, NEW t \in site.tasks, RouteAlert(t)
  PROVE  AlertsInv'
<1>1. PICK chats, blind :
        Route(t, chats, blind) /\ (\/ chats = Routed(row) /\ blind = FALSE
                                   \/ chats = site.env /\ blind = TRUE)
  BY DEF RouteAlert
<1>2. UNCHANGED <<tableVars, site, msg>> /\ site' = site /\ alert.state = "published"
      /\ alert' = [alert EXCEPT !.state = "sending", !.task = t, !.to = chats, !.blind = blind]
  BY <1>1 DEF Route, taskVars
<1>3. t \in Task /\ site.env \subseteq Chat /\ chats \subseteq Chat /\ blind \in BOOLEAN
  BY <1>1 DEF Routed, Muted, Accepted, AlertsInv, AlertsTyped, Installation
<1>4. alert \in AlertShape
  BY DEF AlertsInv, AlertsTyped
<1>5. /\ alert'.state = "sending" /\ alert'.to = chats /\ alert'.blind = blind /\ alert'.got = alert.got
      /\ alert'.failed = alert.failed /\ alert'.passed = alert.passed
      /\ alert'.always = alert.always /\ alert'.ever = alert.ever
  BY <1>2, <1>4 DEF AlertShape
<1>6. alert' \in AlertShape
  BY <1>2, <1>3, <1>4 DEF AlertShape
<1>7. EverySent' /\ RoutedRemembered'
  BY <1>1, <1>2, <1>5 DEF AlertsInv, RoutedRemembered, EverySent, Delivered
<1> QED BY <1>2, <1>6, <1>7, AlertMoves

LEMMA SendKeeps ==
  ASSUME AlertsInv, NEW c \in Chat, Send(c)
  PROVE  AlertsInv'
<1>1. UNCHANGED <<tableVars, site, msg>> /\ site' = site /\ alert.state = "sending" /\ c \in alert.to
  BY DEF Send, taskVars
<1>2. alert \in AlertShape
  BY DEF AlertsInv, AlertsTyped
<1>3. /\ alert'.state = alert.state /\ alert'.blind = alert.blind /\ alert'.always = alert.always
      /\ alert'.ever = alert.ever /\ alert'.to = alert.to \ {c}
      /\ alert'.got \subseteq alert.got \cup {c}
      /\ alert'.got \cup alert'.failed \cup alert'.passed = alert.got \cup alert.failed \cup alert.passed \cup {c}
      /\ alert' \in AlertShape
  <2>1. CASE alert' = [alert EXCEPT !.to = @ \ {c}, !.got = @ \cup {c}]
    BY <1>2, <2>1 DEF AlertShape
  <2>2. CASE alert' = [alert EXCEPT !.to = @ \ {c}, !.failed = @ \cup {c}]
    BY <1>2, <2>2 DEF AlertShape
  <2>3. CASE alert' = [alert EXCEPT !.to = @ \ {c}, !.passed = @ \cup {c}]
    BY <1>2, <2>3 DEF AlertShape
  <2> QED BY <2>1, <2>2, <2>3 DEF Send
<1>4. EverySent' /\ RoutedRemembered'
  BY <1>1, <1>3 DEF AlertsInv, RoutedRemembered, EverySent, Delivered
<1> QED BY <1>1, <1>3, <1>4, AlertMoves

----------------------------------------------------------------------------
(* The theorems.                                                            *)

LEMMA AlertsStep ==
  ASSUME AlertsAssumption, AlertsInv, [AlertsNext]_alertVars
  PROVE  AlertsInv'
<1>1. CASE UNCHANGED alertVars
  <2>1. UNCHANGED <<tableVars, site, msg>> /\ UNCHANGED <<site, row, alert>>
    BY <1>1 DEF alertVars, tableVars, taskVars
  <2> QED BY <2>1, AlertRests, AlertMoves
<1>2. ASSUME NEW t \in site.tasks, NEW c \in Chat,
             \/ Reject(t, c)
             \/ Delete(t, c)
             \/ \E order \in site.flags : Accept(t, c, order)
             \/ \E order \in site.flags, muted \in BOOLEAN : UpdateAlerts(t, c, order, muted)
             \/ \E u \in {None} \cup site.manual, order \in site.flags : CreateManual(t, c, u, order)
      PROVE  AlertsInv'
  BY <1>2, RequestsKeep
<1>3. ASSUME NEW t \in site.tasks,
             \/ \E by \in {"request", "ticker"} : ReadAccepted(t, by) \/ Store(t, by) \/ ReadFails(t, by)
             \/ Boot(t)
      PROVE  AlertsInv'
  BY <1>3, ListsKeep
<1> QED BY <1>1, <1>2, <1>3, StopKeeps, RouteKeeps, ReceiveKeeps, LookupsKeep, RegistrationKeeps, PublishKeeps,
           SendKeeps DEF AlertsNext

LEMMA AlertsInvariant == AlertsSpec => []AlertsInv
<1>1. AlertsInit => AlertsInv
  BY InitSound, AlertsAssumption
<1>2. AlertsInv /\ [AlertsNext]_alertVars => AlertsInv'
  BY AlertsStep, AlertsAssumption
<1> QED BY <1>1, <1>2, PTL DEF AlertsSpec

(* However chats are accepted, muted and deleted and whatever the tasks'     *)
(* lists say, an alert reaches only chats it was due for at some moment,     *)
(* and no chat it was due for all along is forgotten (sendAll, RoutingChats). *)
THEOREM AlertsReachWhoIsDue == AlertsSpec => []AlertReachesWhoIsDue
<1>1. AlertsInv => AlertReachesWhoIsDue
  BY DEF AlertsInv, EverySent, AlertReachesWhoIsDue, RevokedStaysSilent, NobodyForgotten, Over, Delivered
<1> QED BY <1>1, AlertsInvariant, PTL

(* A /start in a chat that stays accepted is welcomed, with any number of    *)
(* messages, tasks and managers at work (UpdateProcessor.Handle).           *)
THEOREM AcceptedChatsAreWelcomed == AlertsSpec => []AcceptedChatWelcomed
<1>1. AlertsInv => AcceptedChatWelcomed
  BY DEF AlertsInv, AcceptedIsFound, AcceptedChatWelcomed
<1> QED BY <1>1, AlertsInvariant, PTL

(**************************************************************************)
(* Support: answered means told, on either side of the desk, and no reply *)
(* is mailed about twice.                                                 *)
(**************************************************************************)

InquiryRow == [chat : Chats, status : {"open", "assigned", "answered", "closed"},
               by : Managers \cup {Nobody}]
Notice     == {"none", "pending", "skipped", "failed", "sent"}
MessageRow == [chat : Chats, inquiry : Nat, reply : BOOLEAN, at : Nat, delivered : BOOLEAN,
               notice : Notice]
MailRow    == [ids : SUBSET Nat, settled : BOOLEAN]
QuestionRow == [here : {TRUE}, email : BOOLEAN, answered : BOOLEAN, hidden : BOOLEAN]

\* A reply in the inquiry was delivered.
Reached(i) == \E m \in DOMAIN message : message[m].reply /\ message[m].delivered /\ message[m].inquiry = i

\* A row that was read says that the inquiry is answered only if it was.
Copy(i, r) == i \in DOMAIN inquiry /\ r \in InquiryRow /\ (r.status = "answered" => Reached(i))

DeskCall(c) ==
  /\ "at" \in DOMAIN c
  /\ c.at \in {"touch", "seek", "open", "file"} => c.chat \in Chats
  /\ c.at = "seek" => "chat" \in DOMAIN c
  /\ c.at = "file" => c.inquiry \in Nat
  /\ c.at \in {"assign", "compose"} => {"inquiry", "row"} \subseteq DOMAIN c
  /\ c.at \in {"assign", "compose", "reply", "end"} => Copy(c.inquiry, c.row)
  /\ c.at = "reply" => c.draft \in MessageRow /\ c.draft.reply /\ c.draft.inquiry = c.inquiry
  /\ c.at = "answered" => c.inquiry \in DOMAIN inquiry /\ c.row \in InquiryRow /\ Reached(c.inquiry)
  /\ c.at = "close" => "rows" \in DOMAIN c /\ \A i \in DOMAIN c.rows : Copy(i, c.rows[i])

\* The inquiries and their copies.
DeskInv ==
  /\ inquiry \in Seq(InquiryRow)
  /\ message \in Seq(MessageRow)
  /\ now \in Nat
  /\ \A i \in DOMAIN inquiry : inquiry[i].status = "answered" => Reached(i)
  /\ \A a \in Actors : DeskCall(call[a])

\* The notice job works off replies that wait; what it wrote down waits no more.
NoticeCall(c) ==
  /\ c.at \in {"idle", "look", "verdict", "record"}
  /\ c.at \in {"look", "verdict", "record"} => c.due \subseteq Pending
  /\ c.at \in {"verdict", "record"} => /\ {"due", "ids", "status", "as"} \subseteq DOMAIN c
                                       /\ c.ids \subseteq c.due
                                       /\ c.status \in {"mail", "skipped", "failed", "sent"}
  /\ c.at = "record" \/ (c.at = "verdict" /\ c.status = "sent") =>
       /\ mails # <<>> /\ mails[Len(mails)].ids = c.ids

NoticeInv ==
  /\ mails \in Seq(MailRow)
  /\ \A i \in DOMAIN mails : /\ mails[i].ids \subseteq DOMAIN message
                             /\ mails[i].settled => mails[i].ids \cap Pending = {}
  /\ MailedOncePerReply
  /\ NoticeCall(call["notices"])

\* The author was told of an answer, or somebody is about to.
Told(q) == q \in mailed \/ \E h \in Handlers : At(h, "qmail") /\ call[h].question = q

QuestionCall(c) ==
  /\ c.at = "qsave" =>
       /\ c.question \in DOMAIN question /\ c.row \in QuestionRow /\ c.mail \in BOOLEAN
       /\ c.row.answered /\ c.row.email => c.mail \/ Told(c.question)
  /\ c.at = "qforget" => \A q \in DOMAIN c.rows : c.rows[q] \in QuestionRow /\ ~ c.rows[q].email

QuestionInv ==
  /\ question \in Seq(QuestionRow \cup {NoQuestion})
  /\ \A q \in DOMAIN question : question[q].here /\ question[q].answered /\ question[q].email => Told(q)
  /\ \A a \in Actors : QuestionCall(call[a])

SupportInv ==
  /\ call = [a \in Actors |-> call[a]]
  /\ DeskInv /\ NoticeInv /\ QuestionInv

----------------------------------------------------------------------------
(* What a step leaves true.                                                 *)

Moves(a, c) == call' = [call EXCEPT ![a] = c]

\* Messages are added and marked; what they say stays.
MessagesKept ==
  /\ message' \in Seq(MessageRow) /\ DOMAIN message \subseteq DOMAIN message'
  /\ \A m \in DOMAIN message : /\ message'[m].reply = message[m].reply
                               /\ message'[m].delivered = message[m].delivered
                               /\ message'[m].inquiry = message[m].inquiry

LEMMA TheCalls ==
  ASSUME SupportInv, NEW a \in Actors, NEW c, Moves(a, c)
  PROVE  /\ call' = [b \in Actors |-> call'[b]] /\ call'[a] = c
         /\ \A b \in Actors \ {a} : call'[b] = call[b]
<1>1. call = [b \in Actors |-> call[b]]
  BY DEF SupportInv
<1>2. call' = [call EXCEPT ![a] = c]
  BY DEF Moves
<1> QED BY <1>1, <1>2

LEMMA NoticesApart == "notices" \in Actors /\ "eraser" \in Actors /\ "closer" \in Actors
                        /\ Handlers \subseteq Actors /\ "notices" \notin Handlers
                        /\ "eraser" \notin Handlers /\ "closer" \notin Handlers
BY CallsAssumption DEF Actors, Workers

LEMMA Appends ==
  ASSUME NEW S, NEW s \in Seq(S), NEW x \in S
  PROVE  /\ Append(s, x) \in Seq(S) /\ DOMAIN s = 1 .. Len(s) /\ Len(s) \in Nat
         /\ DOMAIN Append(s, x) = 1 .. Len(s) + 1 /\ Len(Append(s, x)) = Len(s) + 1
         /\ \A i \in DOMAIN s : Append(s, x)[i] = s[i]
         /\ Append(s, x)[Len(s) + 1] = x
<1> QED OBVIOUS

LEMMA Writes ==
  ASSUME NEW S, NEW s \in Seq(S), NEW i \in DOMAIN s, NEW x \in S
  PROVE  /\ [s EXCEPT ![i] = x] \in Seq(S) /\ DOMAIN [s EXCEPT ![i] = x] = DOMAIN s
         /\ [s EXCEPT ![i] = x][i] = x
         /\ \A j \in DOMAIN s \ {i} : [s EXCEPT ![i] = x][j] = s[j]
<1> QED OBVIOUS

LEMMA WritesAnywhere ==
  ASSUME NEW S, NEW s \in Seq(S), NEW i, NEW x \in S
  PROVE  /\ [s EXCEPT ![i] = x] \in Seq(S) /\ DOMAIN [s EXCEPT ![i] = x] = DOMAIN s
         /\ \A j \in DOMAIN s : [s EXCEPT ![i] = x][j] = x \/ [s EXCEPT ![i] = x][j] = s[j]
<1>1. CASE i \in DOMAIN s
  BY <1>1, Writes
<1>2. CASE i \notin DOMAIN s
  <2>1. [s EXCEPT ![i] = x] = s
    <3>1. s = [j \in DOMAIN s |-> s[j]]
      OBVIOUS
    <3> QED BY <1>2, <3>1
  <2> QED BY <2>1
<1> QED BY <1>1, <1>2

LEMMA ReachedStays ==
  ASSUME MessagesKept, NEW i, Reached(i)
  PROVE  Reached(i)'
BY DEF MessagesKept, Reached

LEMMA CopyStays ==
  ASSUME MessagesKept, DOMAIN inquiry \subseteq DOMAIN inquiry', NEW i, NEW r, Copy(i, r)
  PROVE  Copy(i, r)'
BY ReachedStays DEF Copy

LEMMA DeskCallStays ==
  ASSUME MessagesKept, DOMAIN inquiry \subseteq DOMAIN inquiry', NEW c, DeskCall(c)
  PROVE  DeskCall(c)'
<1>1. \A i \in DOMAIN c.rows : Copy(i, c.rows[i]) => Copy(i, c.rows[i])'
  BY CopyStays
<1>2. Copy(c.inquiry, c.row) => Copy(c.inquiry, c.row)'
  BY CopyStays
<1>3. Reached(c.inquiry) => Reached(c.inquiry)'
  BY ReachedStays
<1> QED BY <1>1, <1>2, <1>3 DEF DeskCall

LEMMA DeskGoesOn ==
  ASSUME SupportInv, NEW a \in Actors, NEW c, Moves(a, c), DeskCall(c)',
         MessagesKept, inquiry' \in Seq(InquiryRow), DOMAIN inquiry \subseteq DOMAIN inquiry',
         now' \in Nat,
         \A i \in DOMAIN inquiry' : inquiry'[i].status = "answered" => Reached(i)'
  PROVE  DeskInv'
<1>1. \A b \in Actors : DeskCall(call[b])'
  <2>1. SUFFICES ASSUME NEW b \in Actors PROVE DeskCall(call[b])'
    OBVIOUS
  <2>2. PICK d : d = IF b = a THEN c ELSE call[b]
    OBVIOUS
  <2>3. DeskCall(d)'
    <3>1. CASE b = a
      BY <2>2, <3>1
    <3>2. CASE b # a
      <4>1. DeskCall(d)
        BY <2>2, <3>2 DEF SupportInv, DeskInv
      <4> QED BY <4>1, DeskCallStays
    <3> QED BY <3>1, <3>2
  <2>4. call'[b] = d
    BY <2>2, TheCalls
  <2> QED BY <2>3, <2>4 DEF DeskCall, Copy, Reached
<1> QED BY <1>1 DEF DeskInv, MessagesKept

LEMMA NoticesWait ==
  ASSUME SupportInv, mails' = mails, call'["notices"] = call["notices"],
         message' \in Seq(MessageRow), DOMAIN message \subseteq DOMAIN message',
         \A m \in DOMAIN message : message'[m] = message[m]
  PROVE  NoticeInv'
<1>1. NoticeInv
  BY DEF SupportInv
<1>2. Pending \subseteq Pending' /\ Pending' \cap DOMAIN message = Pending
  BY DEF Pending
<1>3. NoticeCall(call["notices"])'
  BY <1>1, <1>2 DEF NoticeInv, NoticeCall
<1>4. \A i \in DOMAIN mails : /\ mails[i].ids \subseteq DOMAIN message'
                              /\ mails[i].settled => mails[i].ids \cap Pending' = {}
  BY <1>1, <1>2 DEF NoticeInv
<1> QED BY <1>1, <1>3, <1>4 DEF NoticeInv, MailedOncePerReply

LEMMA ToldStays ==
  ASSUME SupportInv, NEW a \in Actors, NEW c, Moves(a, c), mailed \subseteq mailed',
         call[a].at = "qmail" => call[a].question \in mailed', NEW q, Told(q)
  PROVE  Told(q)'
<1>1. ASSUME NEW h \in Handlers, At(h, "qmail"), call[h].question = q PROVE Told(q)'
  <2>1. CASE h = a
    BY <1>1, <2>1 DEF Told, At
  <2>2. CASE h # a
    <3>1. call'[h] = call[h]
      BY <2>2, TheCalls, NoticesApart
    <3> QED BY <1>1, <3>1 DEF Told, At
  <2> QED BY <2>1, <2>2
<1> QED BY <1>1 DEF Told

\* What is saved in the end is either nothing new or somebody is told.
LEMMA QuestionsGoOn ==
  ASSUME SupportInv, NEW a \in Actors, NEW c, Moves(a, c), QuestionCall(c)', mailed \subseteq mailed',
         call[a].at = "qmail" => call[a].question \in mailed',
         question' \in Seq(QuestionRow \cup {NoQuestion}), DOMAIN question \subseteq DOMAIN question',
         \A q \in DOMAIN question' :
           question'[q].here /\ question'[q].answered /\ question'[q].email =>
             \/ Told(q)'
             \/ q \in DOMAIN question /\ question[q] = question'[q]
  PROVE  QuestionInv'
<1>1. \A q : Told(q) => Told(q)'
  BY ToldStays
<1>2. QuestionInv
  BY DEF SupportInv
<1>3. \A q \in DOMAIN question' :
        question'[q].here /\ question'[q].answered /\ question'[q].email => Told(q)'
  BY <1>1, <1>2 DEF QuestionInv
<1>4. \A b \in Actors : QuestionCall(call[b])'
  <2>1. SUFFICES ASSUME NEW b \in Actors PROVE QuestionCall(call[b])'
    OBVIOUS
  <2>2. CASE b = a
    BY <2>2, TheCalls DEF QuestionCall, Told, At
  <2>3. CASE b # a
    <3>1. PICK d : d = call[b]
      OBVIOUS
    <3>2. QuestionCall(d)
      BY <3>1, <1>2 DEF QuestionInv
    <3>3. QuestionCall(d)'
      BY <3>2, <1>1 DEF QuestionCall
    <3>4. call'[b] = d
      BY <2>3, <3>1, TheCalls
    <3> QED BY <3>3, <3>4 DEF QuestionCall, Told, At
  <2> QED BY <2>2, <2>3
<1> QED BY <1>3, <1>4 DEF QuestionInv

LEMMA QuestionsWait ==
  ASSUME SupportInv, NEW a \in Actors, NEW c, Moves(a, c), call[a].at # "qmail",
         c.at \notin {"qsave", "qforget"}, UNCHANGED questionVars
  PROVE  QuestionInv'
<1>1. question' = question /\ mailed' = mailed
  BY DEF questionVars
<1>2. QuestionCall(c)'
  BY DEF QuestionCall
<1>3. question \in Seq(QuestionRow \cup {NoQuestion})
  BY DEF SupportInv, QuestionInv
<1> QED BY <1>1, <1>2, <1>3, QuestionsGoOn

\* A step at the desk, by anyone but the notice job.
LEMMA DeskStep ==
  ASSUME SupportInv, NEW a \in Actors \ {"notices"}, NEW c, Moves(a, c), DeskCall(c)',
         call[a].at # "qmail", c.at \notin {"qsave", "qforget"},
         inquiry' \in Seq(InquiryRow), DOMAIN inquiry \subseteq DOMAIN inquiry',
         \A i \in DOMAIN inquiry' : inquiry'[i].status = "answered" => Reached(i)',
         \/ message' = message
         \/ \E m \in MessageRow : message' = Append(message, m),
         now' \in Nat, mails' = mails, UNCHANGED questionVars
  PROVE  SupportInv'
<1>1. message \in Seq(MessageRow)
  BY DEF SupportInv, DeskInv
<1>2. /\ message' \in Seq(MessageRow) /\ DOMAIN message \subseteq DOMAIN message'
      /\ \A m \in DOMAIN message : message'[m] = message[m]
  <2>1. CASE message' = message
    BY <1>1, <2>1
  <2>2. ASSUME NEW m \in MessageRow, message' = Append(message, m)
        PROVE  /\ message' \in Seq(MessageRow) /\ DOMAIN message \subseteq DOMAIN message'
               /\ \A k \in DOMAIN message : message'[k] = message[k]
    <3>1. message' \in Seq(MessageRow)
      BY <1>1, <2>2
    <3>2. DOMAIN message = 1 .. Len(message) /\ DOMAIN message' = 1 .. Len(message) + 1 /\ Len(message) \in Nat
      BY <1>1, <2>2
    <3>3. DOMAIN message \subseteq DOMAIN message'
      BY <3>2
    <3>4. ASSUME NEW k \in DOMAIN message PROVE message'[k] = message[k]
      <4>1. k \in 1 .. Len(message)
        BY <3>2
      <4>2. Append(message, m)[k] = message[k]
        BY <1>1, <3>2, <4>1
      <4> QED BY <2>2, <4>2
    <3> QED BY <3>1, <3>3, <3>4
  <2> QED BY <2>1, <2>2
<1>3. MessagesKept
  BY <1>2 DEF MessagesKept
<1>4. DeskInv'
  BY <1>3, DeskGoesOn
<1>5. call'["notices"] = call["notices"]
  BY TheCalls, NoticesApart
<1>6. NoticeInv'
  BY <1>2, <1>5, NoticesWait
<1>7. QuestionInv'
  BY QuestionsWait
<1>8. call' = [b \in Actors |-> call'[b]]
  BY TheCalls
<1> QED BY <1>4, <1>6, <1>7, <1>8 DEF SupportInv

LEMMA DeskReads ==
  ASSUME SupportInv, NEW a \in Actors \ {"notices"}, NEW c, Moves(a, c), DeskCall(c),
         call[a].at # "qmail", c.at \notin {"qsave", "qforget"},
         inquiry' = inquiry, message' = message, now' \in Nat, mails' = mails, UNCHANGED questionVars
  PROVE  SupportInv'
<1>1. /\ inquiry \in Seq(InquiryRow) /\ message \in Seq(MessageRow)
      /\ \A i \in DOMAIN inquiry : inquiry[i].status = "answered" => Reached(i)
  BY DEF SupportInv, DeskInv
<1>2. MessagesKept
  BY <1>1 DEF MessagesKept
<1>3. DeskCall(c)'
  BY <1>2, DeskCallStays
<1>4. \A i \in DOMAIN inquiry' : inquiry'[i].status = "answered" => Reached(i)'
  BY <1>1 DEF Reached
<1> QED BY <1>1, <1>3, <1>4, DeskStep

\* A row is saved as it was read, or not at all.
LEMMA RowIsSaved ==
  ASSUME SupportInv, NEW i, NEW r, Copy(i, r), SaveInquiry(i, r), message' = message
  PROVE  /\ inquiry' \in Seq(InquiryRow) /\ DOMAIN inquiry' = DOMAIN inquiry
         /\ \A j \in DOMAIN inquiry' : inquiry'[j].status = "answered" => Reached(j)'
<1>1. /\ inquiry \in Seq(InquiryRow)
      /\ \A j \in DOMAIN inquiry : inquiry[j].status = "answered" => Reached(j)
  BY DEF SupportInv, DeskInv
<1>2. \A j : Reached(j)' <=> Reached(j)
  BY DEF Reached
<1>3. i \in DOMAIN inquiry /\ r \in InquiryRow /\ (r.status = "answered" => Reached(i))
  BY DEF Copy
<1>4. CASE inquiry' = inquiry
  BY <1>1, <1>2, <1>4
<1>5. CASE inquiry' = [inquiry EXCEPT ![i] = r]
  BY <1>1, <1>2, <1>3, <1>5, Writes
<1> QED BY <1>4, <1>5 DEF SaveInquiry

\* Somebody saves a row read earlier and moves on.
LEMMA DeskSaves ==
  ASSUME SupportInv, NEW a \in Actors \ {"notices"}, NEW c, Moves(a, c), DeskCall(c),
         call[a].at # "qmail", c.at \notin {"qsave", "qforget"},
         NEW i, NEW r, Copy(i, r), SaveInquiry(i, r),
         UNCHANGED <<conversation, message, now, mails, faults>>, UNCHANGED questionVars
  PROVE  SupportInv'
<1>1. /\ inquiry' \in Seq(InquiryRow) /\ DOMAIN inquiry' = DOMAIN inquiry
      /\ \A j \in DOMAIN inquiry' : inquiry'[j].status = "answered" => Reached(j)'
  BY RowIsSaved
<1>2. message \in Seq(MessageRow) /\ now \in Nat
  BY DEF SupportInv, DeskInv
<1>3. MessagesKept
  BY <1>2 DEF MessagesKept
<1>4. DeskCall(c)'
  BY <1>1, <1>3, DeskCallStays
<1> QED BY <1>1, <1>2, <1>4, DeskStep

LEMMA IdleCall == DeskCall(Idle) /\ Idle.at = "idle"
BY DEF DeskCall, Idle

----------------------------------------------------------------------------
(* Shoppers                                                                 *)

LEMMA WhatIsUnderWay ==
  ASSUME SupportInv, NEW a \in Actors
  PROVE  DeskCall(call[a]) /\ "at" \in DOMAIN call[a]
BY DEF SupportInv, DeskInv, DeskCall

LEMMA WriteKeeps ==
  ASSUME SupportInv, NEW h \in Handlers, UNCHANGED questionVars,
         \/ \E c \in Chats, what \in {"send", "type", "tap"} : BeginWrite(h, c, what)
         \/ Touch(h) \/ Seek(h)
  PROVE  SupportInv'
<1>0. now \in Nat /\ DeskCall(call[h]) /\ h \in Actors \ {"notices"}
  BY NoticesApart DEF SupportInv, DeskInv
<1>1. ASSUME NEW c \in Chats, NEW what, BeginWrite(h, c, what) PROVE SupportInv'
  <2>0. PICK first, as : Moves(h, [at |-> "touch", chat |-> c, what |-> what, first |-> first, as |-> as])
    BY <1>1 DEF BeginWrite, Turn, Moves
  <2>1. PICK n : /\ n = [at |-> "touch", chat |-> c, what |-> what, first |-> first, as |-> as]
                 /\ Moves(h, n)
    BY <2>0
  <2>2. DeskCall(n)
    BY <2>1 DEF DeskCall
  <2> QED BY <1>0, <1>1, <2>1, <2>2, DeskReads DEF BeginWrite, Takes, consultationVars
<1>2. CASE Touch(h)
  <2>1. call[h].at = "touch" /\ call[h].chat \in Chats
    BY <1>0, <1>2 DEF Touch, At, DeskCall
  <2>2. PICK n : Moves(h, n) /\ (n = Idle \/ n = [at |-> "seek", chat |-> call[h].chat, what |-> call[h].what])
    BY <1>2 DEF Touch, Ends, Proceed, Turn, Moves
  <2>3. DeskCall(n) /\ n.at \in {"idle", "seek"}
    BY <2>1, <2>2, IdleCall DEF DeskCall
  <2> QED BY <1>0, <1>2, <2>1, <2>2, <2>3, DeskReads DEF Touch
<1>3. CASE Seek(h)
  <2>1. call[h].at = "seek" /\ call[h].chat \in Chats /\ {"at", "chat"} \subseteq DOMAIN call[h]
    BY <1>0, <1>3 DEF Seek, At, DeskCall
  <2>2. PICK n : /\ Moves(h, n)
                 /\ \/ n = Idle
                    \/ \E i \in Nat : n = FileIn(call[h].chat, i)
                    \/ n = [call[h] EXCEPT !.at = "open"]
    <3>1. inquiry \in Seq(InquiryRow)
      BY DEF SupportInv, DeskInv
    <3>2. DOMAIN inquiry \subseteq Nat
      BY <3>1
    <3>3. CASE \E i \in OpenOf(call[h].chat) : Proceed(h, FileIn(call[h].chat, i))
      BY <3>2, <3>3 DEF Proceed, Turn, Moves, OpenOf
    <3>4. CASE Ends(h)
      BY <3>4 DEF Ends, Proceed, Turn, Moves
    <3>5. CASE Proceed(h, FileIn(call[h].chat, 0))
      BY <3>5 DEF Proceed, Turn, Moves
    <3>6. CASE Proceed(h, [call[h] EXCEPT !.at = "open"])
      BY <3>6 DEF Proceed, Turn, Moves
    <3> QED BY <1>3, <3>3, <3>4, <3>5, <3>6 DEF Seek
  <2>3. DeskCall(n) /\ n.at \in {"idle", "file", "open"}
    BY <2>1, <2>2, IdleCall DEF DeskCall, FileIn
  <2> QED BY <1>0, <1>3, <2>1, <2>2, <2>3, DeskReads DEF Seek, consultationVars
<1> QED BY <1>1, <1>2, <1>3

LEMMA OpenInquiryKeeps ==
  ASSUME SupportInv, NEW h \in Handlers, UNCHANGED questionVars, OpenInquiry(h)
  PROVE  SupportInv'
<1>1. /\ now \in Nat /\ h \in Actors \ {"notices"} /\ inquiry \in Seq(InquiryRow)
      /\ message \in Seq(MessageRow)
      /\ \A i \in DOMAIN inquiry : inquiry[i].status = "answered" => Reached(i)
  BY NoticesApart DEF SupportInv, DeskInv
<1>2. call[h].at = "open" /\ call[h].chat \in Chats
  BY <1>1, WhatIsUnderWay DEF OpenInquiry, At, DeskCall
<1>3. PICK n : Moves(h, n) /\ (n = Idle \/ n = FileIn(call[h].chat, Len(inquiry) + 1))
  BY DEF OpenInquiry, Ends, Proceed, Turn, Moves
<1>4. DeskCall(n) /\ n.at \in {"idle", "file"}
  BY <1>1, <1>2, <1>3, IdleCall DEF DeskCall, FileIn
<1>5. message' = message /\ now' = now /\ mails' = mails
  BY DEF OpenInquiry
<1>6. CASE inquiry' = inquiry
  BY <1>1, <1>2, <1>3, <1>4, <1>5, <1>6, DeskReads
<1>7. CASE inquiry' = Append(inquiry, NewInquiry(call[h].chat))
  <2>1. PICK r \in InquiryRow : r = NewInquiry(call[h].chat)
    BY <1>2 DEF NewInquiry, InquiryRow
  <2>2. r.status = "open"
    BY <2>1 DEF NewInquiry
  <2>3. /\ inquiry' \in Seq(InquiryRow) /\ DOMAIN inquiry \subseteq DOMAIN inquiry'
        /\ \A i \in DOMAIN inquiry' : inquiry'[i].status = "answered" => Reached(i)
    BY <1>1, <1>7, <2>1, <2>2, Appends
  <2>4. \A i \in DOMAIN inquiry' : inquiry'[i].status = "answered" => Reached(i)'
    BY <1>5, <2>3 DEF Reached
  <2>5. MessagesKept
    BY <1>1, <1>5 DEF MessagesKept
  <2>6. DeskCall(n)'
    BY <1>4, <2>3, <2>5, DeskCallStays
  <2> QED BY <1>1, <1>2, <1>3, <1>4, <1>5, <2>3, <2>4, <2>6, DeskStep
<1> QED BY <1>6, <1>7 DEF OpenInquiry

\* A message is appended.
LEMMA MessageIsAdded ==
  ASSUME SupportInv, NEW m \in MessageRow, message' = Append(message, m), inquiry' = inquiry
  PROVE  /\ MessagesKept
         /\ m.reply /\ m.delivered => Reached(m.inquiry)'
         /\ \A i \in DOMAIN inquiry' : inquiry'[i].status = "answered" => Reached(i)'
<1>1. /\ message \in Seq(MessageRow)
      /\ \A i \in DOMAIN inquiry : inquiry[i].status = "answered" => Reached(i)
  BY DEF SupportInv, DeskInv
<1>2. MessagesKept
  BY <1>1, Appends DEF MessagesKept
<1>3. m.reply /\ m.delivered => Reached(m.inquiry)'
  <2>1. Len(message) + 1 \in DOMAIN message' /\ message'[Len(message) + 1] = m
    BY <1>1, Appends
  <2> QED BY <2>1 DEF Reached
<1> QED BY <1>1, <1>2, <1>3, ReachedStays

LEMMA FileKeeps ==
  ASSUME SupportInv, NEW h \in Handlers, UNCHANGED questionVars, File(h)
  PROVE  SupportInv'
<1>1. /\ now \in Nat /\ h \in Actors \ {"notices"} /\ inquiry \in Seq(InquiryRow)
  BY NoticesApart DEF SupportInv, DeskInv
<1>2. call[h].at = "file" /\ call[h].chat \in Chats /\ call[h].inquiry \in Nat
  BY <1>1, WhatIsUnderWay DEF File, At, DeskCall
<1>0. Inbound(call[h].chat, call[h].inquiry) \in MessageRow
  BY <1>2 DEF Inbound, MessageRow, Notice
<1>3. PICK m \in MessageRow : m = Inbound(call[h].chat, call[h].inquiry)
  BY <1>0
<1>4. /\ message' = Append(message, m) /\ inquiry' = inquiry /\ now' = now /\ mails' = mails
      /\ Moves(h, Idle)
  BY <1>3 DEF File, AppendMessage, Ends, Proceed, Turn, Moves
<1>5. MessagesKept /\ \A i \in DOMAIN inquiry' : inquiry'[i].status = "answered" => Reached(i)'
  BY <1>4, MessageIsAdded
<1>6. DeskCall(Idle)' /\ Idle.at = "idle"
  BY IdleCall DEF DeskCall, Idle
<1> QED BY <1>1, <1>2, <1>4, <1>5, <1>6, DeskStep

LEMMA ReadKeeps ==
  ASSUME SupportInv, NEW h \in Handlers, UNCHANGED questionVars,
         (\E c \in WebChats : BeginRead(h, c)) \/ StampRead(h) \/ MarkRead(h)
  PROVE  SupportInv'
<1>1. now \in Nat /\ h \in Actors \ {"notices"} /\ "at" \in DOMAIN call[h]
  BY NoticesApart, WhatIsUnderWay DEF SupportInv, DeskInv
<1>2. ASSUME NEW c \in WebChats, BeginRead(h, c) PROVE SupportInv'
  <2>1. PICK as : Moves(h, [at |-> "stamp", chat |-> c, as |-> as])
    BY <1>2 DEF BeginRead, Turn, Moves
  <2>2. PICK n : n = [at |-> "stamp", chat |-> c, as |-> as] /\ Moves(h, n)
    BY <2>1
  <2>3. DeskCall(n) /\ n.at = "stamp"
    BY <2>2 DEF DeskCall
  <2> QED BY <1>1, <1>2, <2>2, <2>3, DeskReads DEF BeginRead, Takes, consultationVars
<1>3. CASE StampRead(h)
  <2>1. PICK as : Moves(h, [call[h] EXCEPT !.at = "mark", !.as = as])
    BY <1>3 DEF StampRead, Proceed, Turn, Moves
  <2>2. PICK n : n = [call[h] EXCEPT !.at = "mark", !.as = as] /\ Moves(h, n)
    BY <2>1
  <2>3. DeskCall(n) /\ n.at = "mark"
    BY <1>1, <2>2 DEF DeskCall
  <2>4. now' \in Nat /\ inquiry' = inquiry /\ message' = message /\ mails' = mails /\ call[h].at # "qmail"
    BY <1>1, <1>3 DEF StampRead, At
  <2> QED BY <1>1, <2>2, <2>3, <2>4, DeskReads
<1>4. CASE MarkRead(h)
  <2>1. Moves(h, Idle)
    BY <1>4 DEF MarkRead, Ends, Proceed, Turn, Moves
  <2> QED BY <1>1, <1>4, <2>1, IdleCall, DeskReads DEF MarkRead, At
<1> QED BY <1>2, <1>3, <1>4

----------------------------------------------------------------------------
(* Managers, and who closes                                                 *)

LEMMA AssignedShape ==
  ASSUME NEW r \in InquiryRow, NEW m \in Managers \cup {Nobody}
  PROVE  /\ Assigned(r, m) \in InquiryRow
         /\ Assigned(r, m).status = "answered" => r.status = "answered"
         /\ Closed(r, m) \in InquiryRow /\ Closed(r, m).status = "closed"
BY DEF Assigned, Closed, InquiryRow

LEMMA DeskBegins ==
  ASSUME SupportInv, NEW h \in Handlers, UNCHANGED questionVars,
         NEW i \in DOMAIN inquiry, NEW m \in Managers, NEW replies, BeginDesk(h, i, m, replies)
  PROVE  SupportInv'
<1>1. /\ now \in Nat /\ h \in Actors \ {"notices"} /\ inquiry \in Seq(InquiryRow)
      /\ inquiry[i].status = "answered" => Reached(i)
  BY NoticesApart DEF SupportInv, DeskInv
<1>2. PICK r : r = Assigned(inquiry[i], m)
  OBVIOUS
<1>3. inquiry[i] \in InquiryRow
  BY <1>1
<1>4. Copy(i, r)
  BY <1>1, <1>2, <1>3, AssignedShape DEF Copy
<1>5. PICK at \in {"compose", "assign"} :
        Moves(h, [at |-> at, inquiry |-> i, row |-> r, replies |-> replies])
  <2>1. Turn(h, [at |-> IF inquiry[i].by = m /\ inquiry[i].status = "assigned" THEN "compose" ELSE "assign",
                 inquiry |-> i, row |-> r, replies |-> replies])
    BY <1>2 DEF BeginDesk
  <2> QED BY <2>1 DEF Turn, Moves
<1>6. PICK n : n = [at |-> at, inquiry |-> i, row |-> r, replies |-> replies] /\ Moves(h, n)
  BY <1>5
<1>7. DeskCall(n) /\ n.at \in {"compose", "assign"}
  BY <1>4, <1>6 DEF DeskCall
<1> QED BY <1>1, <1>6, <1>7, DeskReads DEF BeginDesk, Takes, consultationVars

LEMMA DeskWorks ==
  ASSUME SupportInv, NEW h \in Handlers, UNCHANGED questionVars, Assign(h) \/ Compose(h) \/ Answered(h)
  PROVE  SupportInv'
<1>1. /\ now \in Nat /\ h \in Actors \ {"notices"} /\ DeskCall(call[h])
  BY NoticesApart, WhatIsUnderWay DEF SupportInv, DeskInv
<1>2. CASE Assign(h)
  <2>1. call[h].at = "assign" /\ Copy(call[h].inquiry, call[h].row)
        /\ {"at", "inquiry", "row"} \subseteq DOMAIN call[h]
    BY <1>1, <1>2 DEF Assign, At, DeskCall
  <2>2. PICK n : Moves(h, n) /\ (n = Idle \/ n = [call[h] EXCEPT !.at = "compose"])
    BY <1>2 DEF Assign, Ends, Proceed, Turn, Moves
  <2>3. DeskCall(n) /\ n.at \in {"idle", "compose"}
    BY <2>1, <2>2, IdleCall DEF DeskCall
  <2>4. SaveInquiry(call[h].inquiry, call[h].row) /\ UNCHANGED <<conversation, message, now, mails, faults>>
    BY <1>2 DEF Assign
  <2> QED BY <1>1, <2>1, <2>2, <2>3, <2>4, DeskSaves
<1>3. CASE Compose(h)
  <2>1. call[h].at = "compose" /\ Copy(call[h].inquiry, call[h].row)
    BY <1>1, <1>3 DEF Compose, At, DeskCall
  <2>2. PICK stamp \in Nat, ok \in BOOLEAN, notice \in Notice :
          /\ Moves(h, ReplyOf(call[h], [chat |-> call[h].row.chat, inquiry |-> call[h].inquiry,
                                        reply |-> TRUE, at |-> stamp, delivered |-> ok, notice |-> notice]))
          /\ now' \in Nat
    <3>1. CASE call[h].row.chat \in WebChats
      <4>0. call[h].row.chat \notin BotChats
        BY <3>1, ConsultationAssumption
      <4>1. Moves(h, ReplyOf(call[h], [chat |-> call[h].row.chat, inquiry |-> call[h].inquiry, reply |-> TRUE,
                                       at |-> now', delivered |-> TRUE, notice |-> "pending"]))
            /\ now' = now + 1
        BY <1>3, <3>1, <4>0 DEF Compose, Proceed, Turn, Moves
      <4>2. now' \in Nat /\ TRUE \in BOOLEAN /\ "pending" \in Notice
        BY <1>1, <4>1 DEF Notice
      <4>3. PICK stamp \in Nat : stamp = now'
        BY <4>2
      <4> QED BY <4>1, <4>2, <4>3
    <3>2. CASE call[h].row.chat \notin WebChats
      <4>1. PICK b \in BOOLEAN :
              Moves(h, ReplyOf(call[h], [chat |-> call[h].row.chat, inquiry |-> call[h].inquiry, reply |-> TRUE,
                                         at |-> 0, delivered |-> b, notice |-> "none"]))
              /\ now' = now
        BY <1>3, <3>2 DEF Compose, Proceed, Turn, Moves
      <4> QED BY <1>1, <4>1 DEF Notice
    <3> QED BY <3>1, <3>2
  <2>3. PICK draft : draft = [chat |-> call[h].row.chat, inquiry |-> call[h].inquiry, reply |-> TRUE,
                              at |-> stamp, delivered |-> ok, notice |-> notice]
    OBVIOUS
  <2>4. inquiry \in Seq(InquiryRow)
    BY DEF SupportInv, DeskInv
  <2>5. draft \in MessageRow /\ draft.reply /\ draft.inquiry = call[h].inquiry
    BY <2>1, <2>3, <2>4 DEF Copy, InquiryRow, MessageRow, Notice
  <2>6. PICK n : n = ReplyOf(call[h], draft) /\ Moves(h, n)
    BY <2>2, <2>3
  <2>7. DeskCall(n) /\ n.at = "reply"
    BY <2>1, <2>5, <2>6 DEF DeskCall, ReplyOf
  <2> QED BY <1>1, <1>3, <2>1, <2>2, <2>6, <2>7, DeskReads DEF Compose
<1>4. CASE Answered(h)
  <2>1. /\ call[h].at = "answered" /\ call[h].inquiry \in DOMAIN inquiry
        /\ call[h].row \in InquiryRow /\ Reached(call[h].inquiry)
    BY <1>1, <1>4 DEF Answered, At, DeskCall
  <2>2. PICK r : r = [call[h].row EXCEPT !.status = "answered"]
    OBVIOUS
  <2>3. Copy(call[h].inquiry, r)
    BY <2>1, <2>2 DEF Copy, InquiryRow
  <2>4. Moves(h, Idle) /\ SaveInquiry(call[h].inquiry, r)
        /\ UNCHANGED <<conversation, message, now, mails, faults>>
    BY <1>4, <2>2 DEF Answered, Ends, Proceed, Turn, Moves
  <2> QED BY <1>1, <2>1, <2>3, <2>4, IdleCall, DeskSaves
<1> QED BY <1>2, <1>3, <1>4

LEMMA ReplyKeeps ==
  ASSUME SupportInv, NEW h \in Handlers, UNCHANGED questionVars, Reply(h)
  PROVE  SupportInv'
<1>1. now \in Nat /\ h \in Actors \ {"notices"} /\ inquiry \in Seq(InquiryRow) /\ DeskCall(call[h])
  BY NoticesApart, WhatIsUnderWay DEF SupportInv, DeskInv
<1>2. /\ call[h].at = "reply" /\ Copy(call[h].inquiry, call[h].row)
      /\ call[h].draft \in MessageRow /\ call[h].draft.reply
      /\ call[h].draft.inquiry = call[h].inquiry
  BY <1>1 DEF Reply, At, DeskCall
<1>3. PICK m \in MessageRow : m = call[h].draft
  BY <1>2
<1>4. message' = Append(message, m) /\ inquiry' = inquiry /\ now' = now /\ mails' = mails
  BY <1>3 DEF Reply, AppendMessage
<1>8. PICK i, r : i = call[h].inquiry /\ r = call[h].row
  OBVIOUS
<1>5. /\ MessagesKept /\ \A k \in DOMAIN inquiry' : inquiry'[k].status = "answered" => Reached(k)'
      /\ m.delivered => Reached(i)'
  <2>1. m.inquiry = i /\ m.reply
    BY <1>2, <1>3, <1>8
  <2> QED BY <1>4, <2>1, MessageIsAdded DEF Reached
<1>6. PICK n : /\ Moves(h, n)
               /\ \/ n = Idle
                  \/ m.delivered /\ n = [at |-> "answered", inquiry |-> call[h].inquiry, row |-> call[h].row]
  BY <1>3 DEF Reply, CountsAsAnswer, Ends, Proceed, Turn, Moves
<1>7. DeskCall(n)' /\ n.at \in {"idle", "answered"}
  <2>2. i \in DOMAIN inquiry' /\ r \in InquiryRow /\ (m.delivered => Reached(i)')
    BY <1>2, <1>4, <1>5, <1>8 DEF Copy
  <2>3. CASE n = Idle
    BY <2>3 DEF DeskCall, Idle
  <2>4. CASE m.delivered /\ n = [at |-> "answered", inquiry |-> i, row |-> r]
    BY <2>2, <2>4 DEF DeskCall
  <2> QED BY <1>6, <1>8, <2>3, <2>4
<1> QED BY <1>1, <1>2, <1>4, <1>5, <1>6, <1>7, DeskStep

LEMMA CloseBegins ==
  ASSUME SupportInv, UNCHANGED questionVars, NEW a \in Actors \ {"notices"}, call[a].at = "idle",
         NEW rows, \A i \in DOMAIN rows : i \in DOMAIN inquiry /\ \E m \in Managers \cup {Nobody} : rows[i] = Closed(inquiry[i], m),
         Moves(a, [at |-> "close", rows |-> rows]), UNCHANGED consultationVars
  PROVE  SupportInv'
<1>1. inquiry \in Seq(InquiryRow) /\ now \in Nat
  BY DEF SupportInv, DeskInv
<1>2. ASSUME NEW i \in DOMAIN rows PROVE Copy(i, rows[i])
  <2>1. PICK m \in Managers \cup {Nobody} : rows[i] = Closed(inquiry[i], m)
    OBVIOUS
  <2>2. inquiry[i] \in InquiryRow
    BY <1>1
  <2> QED BY <2>1, <2>2, AssignedShape DEF Copy
<1>3. PICK n : n = [at |-> "close", rows |-> rows] /\ Moves(a, n)
  OBVIOUS
<1>4. DeskCall(n) /\ n.at = "close"
  BY <1>2, <1>3 DEF DeskCall
<1> QED BY <1>1, <1>3, <1>4, DeskReads DEF consultationVars

LEMMA CloseKeeps ==
  ASSUME SupportInv, UNCHANGED questionVars, NEW a \in Actors \ {"notices"},
         NEW i \in DOMAIN call[a].rows, CloseInquiry(a, i)
  PROVE  SupportInv'
<1>1. DeskCall(call[a]) /\ "at" \in DOMAIN call[a]
  BY WhatIsUnderWay
<1>2. /\ call[a].at = "close" /\ "rows" \in DOMAIN call[a]
      /\ \A j \in DOMAIN call[a].rows : Copy(j, call[a].rows[j])
  BY <1>1 DEF CloseInquiry, At, DeskCall
<1>3. PICK rest : rest = [j \in DOMAIN call[a].rows \ {i} |-> call[a].rows[j]]
  OBVIOUS
<1>4. PICK n : Moves(a, n) /\ (n = Idle \/ n = [call[a] EXCEPT !.rows = rest])
  BY <1>3 DEF CloseInquiry, Ends, Proceed, Turn, Moves
<1>5. \A j \in DOMAIN rest : Copy(j, rest[j])
  BY <1>2, <1>3
<1>6. DeskCall(n) /\ n.at \in {"idle", "close"}
  <2>1. CASE n = Idle
    BY <2>1, IdleCall
  <2>2. CASE n = [call[a] EXCEPT !.rows = rest]
    <3>1. n.at = "close" /\ "at" \in DOMAIN n
      BY <1>1, <1>2, <2>2
    <3>2. n.rows = rest /\ "rows" \in DOMAIN n
      BY <1>2, <2>2
    <3> QED BY <1>5, <3>1, <3>2 DEF DeskCall
  <2> QED BY <1>4, <2>1, <2>2
<1>7. SaveInquiry(i, call[a].rows[i]) /\ UNCHANGED <<conversation, message, now, mails, faults>>
  BY DEF CloseInquiry
<1> QED BY <1>2, <1>4, <1>6, <1>7, DeskSaves

LEMMA ConsultsKeeps ==
  ASSUME SupportInv, UNCHANGED questionVars, NEW h \in Handlers, Consults(h)
  PROVE  SupportInv'
<1>0. h \in Actors \ {"notices"}
  BY NoticesApart
<1>1. ASSUME NEW i \in DOMAIN inquiry, NEW m \in Managers \cup {Nobody}, BeginClose(h, i, m) PROVE SupportInv'
  <2>1. PICK rows : rows = [j \in {i} |-> Closed(inquiry[j], m)]
    OBVIOUS
  <2>2. Moves(h, [at |-> "close", rows |-> rows]) /\ UNCHANGED consultationVars /\ call[h].at = "idle"
    BY <1>1, <2>1 DEF BeginClose, Takes, Turn, Moves
  <2>3. \A j \in DOMAIN rows : j \in DOMAIN inquiry /\ rows[j] = Closed(inquiry[j], m)
    BY <2>1
  <2> QED BY <1>0, <2>2, <2>3, CloseBegins
<1>2. ASSUME At(h, "close"), \E i \in DOMAIN call[h].rows : CloseInquiry(h, i) PROVE SupportInv'
  BY <1>0, <1>2, CloseKeeps
<1>3. ASSUME \E i \in DOMAIN inquiry, m \in Managers, replies \in BOOLEAN : BeginDesk(h, i, m, replies)
      PROVE SupportInv'
  BY <1>3, DeskBegins
<1>4. ASSUME Assign(h) \/ Compose(h) \/ Reply(h) \/ Answered(h) PROVE SupportInv'
  BY <1>4, DeskWorks, ReplyKeeps
<1>5. ASSUME \/ \E c \in Chats, what \in {"send", "type", "tap"} : BeginWrite(h, c, what)
             \/ Touch(h) \/ Seek(h)
      PROVE SupportInv'
  BY <1>5, WriteKeeps
<1>6. ASSUME OpenInquiry(h) \/ File(h) \/ (\E c \in WebChats : BeginRead(h, c)) \/ StampRead(h) \/ MarkRead(h)
      PROVE SupportInv'
  BY <1>6, OpenInquiryKeeps, FileKeeps, ReadKeeps
<1> QED BY <1>1, <1>2, <1>3, <1>4, <1>5, <1>6 DEF Consults

LEMMA SweepsKeeps ==
  ASSUME SupportInv, UNCHANGED questionVars, Sweeps
  PROVE  SupportInv'
<1>0. "closer" \in Actors \ {"notices"}
  BY NoticesApart
<1>1. ASSUME NEW stale \in SUBSET DOMAIN inquiry, BeginSweep(stale) PROVE SupportInv'
  <2>1. PICK rows : rows = [i \in stale |-> Closed(inquiry[i], Nobody)]
    OBVIOUS
  <2>2. /\ Moves("closer", [at |-> "close", rows |-> rows]) /\ UNCHANGED consultationVars
        /\ call["closer"].at = "idle"
    BY <1>1, <2>1 DEF BeginSweep, At, Turn, Moves
  <2>3. \A j \in DOMAIN rows : j \in DOMAIN inquiry /\ rows[j] = Closed(inquiry[j], Nobody)
    BY <2>1
  <2> QED BY <1>0, <2>2, <2>3, CloseBegins
<1>2. ASSUME NEW i \in DOMAIN call["closer"].rows, CloseInquiry("closer", i) PROVE SupportInv'
  BY <1>0, <1>2, CloseKeeps
<1> QED BY <1>1, <1>2 DEF Sweeps

----------------------------------------------------------------------------
(* The notice job                                                           *)

\* Whatever the job does, the desk and the questions are none of its business.
LEMMA JobStep ==
  ASSUME SupportInv, NEW c, Moves("notices", c), "at" \in DOMAIN c,
         c.at \in {"idle", "look", "verdict", "record"}, call["notices"].at # "qmail",
         MessagesKept, inquiry' = inquiry, now' \in Nat, UNCHANGED questionVars, NoticeInv'
  PROVE  SupportInv'
<1>1. DeskCall(c)'
  BY DEF DeskCall
<1>2. /\ inquiry \in Seq(InquiryRow)
      /\ \A i \in DOMAIN inquiry : inquiry[i].status = "answered" => Reached(i)
  BY DEF SupportInv, DeskInv
<1>3. \A i \in DOMAIN inquiry' : inquiry'[i].status = "answered" => Reached(i)'
  BY <1>2, ReachedStays
<1>4. DeskInv'
  BY <1>1, <1>2, <1>3, NoticesApart, DeskGoesOn
<1>5. QuestionInv'
  BY NoticesApart, QuestionsWait
<1>6. call' = [b \in Actors |-> call'[b]]
  BY NoticesApart, TheCalls
<1> QED BY <1>4, <1>5, <1>6 DEF SupportInv

\* The job reads, or notes a failure; nothing was mailed and no status set.
LEMMA JobReads ==
  ASSUME SupportInv, NEW c, Moves("notices", c), "at" \in DOMAIN c,
         c.at \in {"idle", "look", "verdict", "record"}, call["notices"].at # "qmail", NoticeCall(c),
         message' = message, mails' = mails, inquiry' = inquiry, now' = now, UNCHANGED questionVars
  PROVE  SupportInv'
<1>1. call'["notices"] = c
  BY NoticesApart, TheCalls
<1>2. NoticeCall(call["notices"])'
  BY <1>1 DEF NoticeCall, Pending
<1>3. NoticeInv'
  BY <1>2 DEF SupportInv, NoticeInv, Pending, MailedOncePerReply
<1>4. MessagesKept /\ now \in Nat
  BY DEF SupportInv, DeskInv, MessagesKept
<1> QED BY <1>3, <1>4, JobStep

LEMMA TheJob ==
  ASSUME SupportInv
  PROVE  /\ NoticeCall(call["notices"]) /\ "at" \in DOMAIN call["notices"]
         /\ mails \in Seq(MailRow) /\ message \in Seq(MessageRow) /\ now \in Nat
BY NoticesApart, WhatIsUnderWay DEF SupportInv, NoticeInv, DeskInv

\* What is left of the batch still waits.
LEMMA GroupIsDone ==
  ASSUME SupportInv, NEW done, call["notices"].due \subseteq Pending
  PROVE  /\ NextGroup(done).at \in {"idle", "look"} /\ "at" \in DOMAIN NextGroup(done)
         /\ NextGroup(done).at = "look" => NextGroup(done).due = call["notices"].due \ done
BY DEF NextGroup, Idle

LEMMA LooksKeep ==
  ASSUME SupportInv, UNCHANGED questionVars,
         \/ \E upTo \in 1 .. now : ListDue(upTo)
         \/ \E c \in WebChats : Look(c) \/ LookFails(c)
         \/ MailRefused \/ NoticesDie
  PROVE  SupportInv'
<1>0. NoticeCall(call["notices"]) /\ "at" \in DOMAIN call["notices"]
  BY TheJob
<1>1. ASSUME NEW upTo, ListDue(upTo) PROVE SupportInv'
  <2>1. PICK due \in SUBSET Pending : Moves("notices", [at |-> "look", due |-> due])
    BY <1>1 DEF ListDue, Proceed, Turn, Moves
  <2>2. PICK n : n = [at |-> "look", due |-> due] /\ Moves("notices", n)
    BY <2>1
  <2>3. NoticeCall(n) /\ n.at = "look" /\ "at" \in DOMAIN n
    BY <2>2 DEF NoticeCall
  <2> QED BY <1>1, <2>2, <2>3, JobReads DEF ListDue, At, consultationVars
<1>2. ASSUME NEW c, Look(c) \/ LookFails(c) PROVE SupportInv'
  <2>1. PICK ids, status, as :
          /\ ids \subseteq call["notices"].due /\ status \in {"mail", "skipped"}
          /\ Moves("notices", [at |-> "verdict", due |-> call["notices"].due, ids |-> ids,
                               status |-> status, as |-> as])
    <3>1. PICK ids : ids = {m \in call["notices"].due : message[m].chat = c}
      OBVIOUS
    <3>2. ids \subseteq call["notices"].due
      BY <3>1
    <3>3. PICK status \in {"mail", "skipped"} : Proceed("notices", Verdict(ids, status, conversation[c]))
      <4>1. CASE Look(c)
        <5>1. Proceed("notices", Verdict(ids, IF NeedsNotice(conversation[c], Newest(ids)) /\ conversation[c].email
                                                THEN "mail" ELSE "skipped", conversation[c]))
          BY <3>1, <4>1 DEF Look
        <5>2. CASE NeedsNotice(conversation[c], Newest(ids)) /\ conversation[c].email
          BY <5>1, <5>2
        <5>3. CASE ~ (NeedsNotice(conversation[c], Newest(ids)) /\ conversation[c].email)
          BY <5>1, <5>3
        <5> QED BY <5>2, <5>3
      <4>2. CASE LookFails(c)
        BY <3>1, <4>2 DEF LookFails
      <4> QED BY <1>2, <4>1, <4>2
    <3> QED BY <3>2, <3>3 DEF Proceed, Turn, Moves, Verdict
  <2>2. PICK n : /\ n = [at |-> "verdict", due |-> call["notices"].due, ids |-> ids, status |-> status, as |-> as]
                 /\ Moves("notices", n)
    BY <2>1
  <2>3. call["notices"].at = "look"
    BY <1>2 DEF Look, LookFails, At
  <2>4. NoticeCall(n) /\ n.at = "verdict" /\ "at" \in DOMAIN n
    BY <1>0, <2>1, <2>2, <2>3 DEF NoticeCall
  <2>5. UNCHANGED <<conversation, inquiry, message, now, mails>>
    BY <1>2 DEF Look, LookFails, consultationVars
  <2> QED BY <2>2, <2>3, <2>4, <2>5, JobReads
<1>3. CASE MailRefused
  <2>1. call["notices"].at = "verdict" /\ call["notices"].status = "mail"
    BY <1>3 DEF MailRefused, At
  <2>2. PICK n : n = [call["notices"] EXCEPT !.status = "failed"] /\ Moves("notices", n)
    BY <1>3 DEF MailRefused, Proceed, Turn, Moves
  <2>3. NoticeCall(n) /\ n.at = "verdict" /\ "at" \in DOMAIN n
    BY <1>0, <2>1, <2>2 DEF NoticeCall
  <2> QED BY <1>3, <2>1, <2>2, <2>3, JobReads DEF MailRefused
<1>4. CASE NoticesDie
  <2>1. Moves("notices", Idle) /\ Idle.at = "idle" /\ "at" \in DOMAIN Idle
    BY <1>4 DEF NoticesDie, Ends, Proceed, Turn, Moves, Idle
  <2>2. NoticeCall(Idle)
    BY <2>1 DEF NoticeCall
  <2>3. call["notices"].at # "qmail"
    BY <1>0 DEF NoticeCall
  <2> QED BY <1>4, <2>1, <2>2, <2>3, JobReads DEF NoticesDie
<1> QED BY <1>1, <1>2, <1>3, <1>4

LEMMA MailKeeps ==
  ASSUME SupportInv, UNCHANGED questionVars, Mail
  PROVE  SupportInv'
<1>0. /\ NoticeCall(call["notices"]) /\ "at" \in DOMAIN call["notices"]
      /\ mails \in Seq(MailRow) /\ message \in Seq(MessageRow) /\ now \in Nat
  BY TheJob
<1>1. call["notices"].at = "verdict" /\ call["notices"].status = "mail"
  BY DEF Mail, At
<1>2. PICK ids : ids = call["notices"].ids
  OBVIOUS
<1>3. ids \subseteq Pending /\ call["notices"].due \subseteq Pending /\ ids \subseteq call["notices"].due
      /\ {"at", "due", "ids", "status", "as"} \subseteq DOMAIN call["notices"]
  BY <1>0, <1>1, <1>2 DEF NoticeCall
<1>4. Pending \subseteq DOMAIN message /\ DOMAIN message \subseteq Nat
  BY <1>0 DEF Pending
<1>5. PICK mail \in MailRow : mail = [ids |-> ids, settled |-> FALSE]
  BY <1>3, <1>4 DEF MailRow
<1>6. mail.ids = ids /\ ~ mail.settled
  BY <1>5
<1>7. /\ mails' = Append(mails, mail) /\ message' = message /\ inquiry' = inquiry /\ now' = now + 1
  BY <1>2, <1>5 DEF Mail
<1>8. PICK as : Moves("notices", [call["notices"] EXCEPT !.at = "record", !.as = as])
  BY DEF Mail, Proceed, Turn, Moves
<1>9. PICK n : n = [call["notices"] EXCEPT !.at = "record", !.as = as] /\ Moves("notices", n)
  BY <1>8
<1>10. /\ n.at = "record" /\ "at" \in DOMAIN n /\ n.ids = ids /\ n.due = call["notices"].due
       /\ n.status = "mail" /\ {"due", "ids", "status", "as"} \subseteq DOMAIN n
  BY <1>1, <1>2, <1>3, <1>9
<1>11. /\ mails' \in Seq(MailRow) /\ DOMAIN mails = 1 .. Len(mails) /\ Len(mails) \in Nat
       /\ DOMAIN mails' = 1 .. Len(mails) + 1 /\ Len(mails') = Len(mails) + 1
       /\ \A i \in DOMAIN mails : mails'[i] = mails[i]
       /\ mails'[Len(mails) + 1] = mail
  BY <1>0, <1>7, Appends
<1>12. Pending' = Pending
  BY <1>7 DEF Pending
<1>13. NoticeCall(call["notices"])'
  <2>1. call'["notices"] = n
    BY <1>9, NoticesApart, TheCalls
  <2>2. mails' # <<>> /\ mails'[Len(mails')].ids = ids
    BY <1>6, <1>11
  <2> QED BY <1>3, <1>10, <1>12, <2>1, <2>2 DEF NoticeCall
<1>14. \A i \in DOMAIN mails : /\ mails[i].ids \subseteq DOMAIN message
                               /\ mails[i].settled => mails[i].ids \cap Pending = {}
  BY DEF SupportInv, NoticeInv
<1>15. \A i \in DOMAIN mails' : /\ mails'[i].ids \subseteq DOMAIN message'
                                /\ mails'[i].settled => mails'[i].ids \cap Pending' = {}
  BY <1>3, <1>4, <1>6, <1>7, <1>11, <1>12, <1>14
<1>16. ASSUME NEW i \in DOMAIN mails', NEW j \in DOMAIN mails', i < j, mails'[i].ids \cap mails'[j].ids # {}
       PROVE  ~ mails'[i].settled
  <2>1. i \in DOMAIN mails /\ mails'[i] = mails[i]
    BY <1>11, <1>16
  <2>2. CASE j \in DOMAIN mails
    BY <1>11, <1>16, <2>1, <2>2 DEF SupportInv, NoticeInv, MailedOncePerReply
  <2>3. CASE j \notin DOMAIN mails
    <3>1. mails'[j].ids \subseteq Pending
      BY <1>3, <1>6, <1>11, <2>3
    <3> QED BY <1>14, <1>16, <2>1, <3>1
  <2> QED BY <2>2, <2>3
<1>17. NoticeInv'
  BY <1>11, <1>13, <1>15, <1>16 DEF NoticeInv, MailedOncePerReply
<1>18. MessagesKept /\ now' \in Nat
  BY <1>0, <1>7 DEF MessagesKept
<1> QED BY <1>1, <1>7, <1>9, <1>10, <1>17, <1>18, JobStep

LEMMA RecordKeeps ==
  ASSUME SupportInv, UNCHANGED questionVars, RecordNotice
  PROVE  SupportInv'
<1>0. /\ NoticeCall(call["notices"]) /\ "at" \in DOMAIN call["notices"]
  BY TheJob
<1>1. call["notices"].at = "record"
  BY DEF RecordNotice, At
<1>2. PICK n : n = [call["notices"] EXCEPT !.at = "verdict", !.status = "sent"] /\ Moves("notices", n)
  BY DEF RecordNotice, Proceed, Turn, Moves
<1>3. NoticeCall(n) /\ n.at = "verdict" /\ "at" \in DOMAIN n
  BY <1>0, <1>1, <1>2 DEF NoticeCall
<1> QED BY <1>1, <1>2, <1>3, JobReads DEF RecordNotice

LEMMA SetStatusKeeps ==
  ASSUME SupportInv, UNCHANGED questionVars, SetNoticeStatus
  PROVE  SupportInv'
<1>0. /\ NoticeCall(call["notices"]) /\ "at" \in DOMAIN call["notices"]
      /\ mails \in Seq(MailRow) /\ message \in Seq(MessageRow) /\ now \in Nat
  BY TheJob
<1>1. call["notices"].at = "verdict" /\ call["notices"].status \in {"skipped", "failed", "sent"}
  BY <1>0 DEF SetNoticeStatus, At, NoticeCall
<1>2. PICK ids, status : ids = call["notices"].ids /\ status = call["notices"].status
  OBVIOUS
<1>3. call["notices"].due \subseteq Pending /\ ids \subseteq Pending /\ status \in Notice /\ status # "pending"
  BY <1>0, <1>1, <1>2 DEF NoticeCall, Notice
<1>4. /\ inquiry' = inquiry /\ now' = now
      /\ message' = [m \in DOMAIN message |-> IF m \in ids THEN [message[m] EXCEPT !.notice = status] ELSE message[m]]
      /\ mails' = IF status = "sent" THEN [mails EXCEPT ![Len(mails)].settled = TRUE] ELSE mails
  BY <1>2 DEF SetNoticeStatus, SettledReplies
<1>5. ASSUME NEW m \in DOMAIN message
      PROVE  /\ message'[m] \in MessageRow
             /\ message'[m].reply = message[m].reply /\ message'[m].delivered = message[m].delivered
             /\ message'[m].inquiry = message[m].inquiry
             /\ message'[m].notice = IF m \in ids THEN status ELSE message[m].notice
  <2>1. message[m] \in MessageRow
    BY <1>0
  <2>2. PICK r \in MessageRow : r = message[m]
    BY <2>1
  <2>3. message'[m] = IF m \in ids THEN [r EXCEPT !.notice = status] ELSE r
    BY <1>4, <2>2
  <2> QED BY <1>3, <2>2, <2>3 DEF MessageRow
<1>6. DOMAIN message' = DOMAIN message /\ message' \in Seq(MessageRow)
  <2>1. DOMAIN message' = 1 .. Len(message) /\ Len(message) \in Nat /\ DOMAIN message = 1 .. Len(message)
    BY <1>0, <1>4
  <2>2. message' = [m \in 1 .. Len(message) |-> message'[m]]
    BY <1>4, <2>1
  <2> QED BY <1>5, <2>1, <2>2
<1>7. MessagesKept
  BY <1>5, <1>6 DEF MessagesKept
<1>8. Pending' = Pending \ ids
  BY <1>3, <1>5, <1>6 DEF Pending
<1>9. PICK n : n = NextGroup(ids) /\ Moves("notices", n)
  BY <1>2 DEF SetNoticeStatus, Proceed, Turn, Moves
<1>10. n.at \in {"idle", "look"} /\ "at" \in DOMAIN n /\ (n.at = "look" => n.due = call["notices"].due \ ids)
  BY <1>3, <1>9, GroupIsDone
<1>11. NoticeCall(call["notices"])'
  <2>1. call'["notices"] = n
    BY <1>9, NoticesApart, TheCalls
  <2> QED BY <1>3, <1>8, <1>10, <2>1 DEF NoticeCall
<1>12. /\ \A i \in DOMAIN mails : /\ mails[i].ids \subseteq DOMAIN message
                                  /\ mails[i].settled => mails[i].ids \cap Pending = {}
       /\ MailedOncePerReply
  BY DEF SupportInv, NoticeInv
<1>13. /\ mails' \in Seq(MailRow)
       /\ \A i \in DOMAIN mails' : /\ mails'[i].ids \subseteq DOMAIN message'
                                   /\ mails'[i].settled => mails'[i].ids \cap Pending' = {}
       /\ MailedOncePerReply'
  <2>1. CASE status # "sent"
    BY <1>0, <1>4, <1>6, <1>8, <1>12, <2>1 DEF MailedOncePerReply
  <2>2. CASE status = "sent"
    <3>1. mails # <<>> /\ mails[Len(mails)].ids = ids
      BY <1>0, <1>1, <1>2, <2>2 DEF NoticeCall
    <3>2. Len(mails) \in DOMAIN mails /\ DOMAIN mails = 1 .. Len(mails) /\ Len(mails) \in Nat
      BY <1>0, <3>1
    <3>3. PICK old \in MailRow : old = mails[Len(mails)]
      BY <1>0, <3>2
    <3>4. PICK new \in MailRow : new = [old EXCEPT !.settled = TRUE]
      BY <3>3 DEF MailRow
    <3>5. mails' = [mails EXCEPT ![Len(mails)] = new]
      BY <1>4, <2>2, <3>3, <3>4
    <3>6. new.ids = ids
      BY <3>1, <3>3, <3>4 DEF MailRow
    <3>7. /\ mails' \in Seq(MailRow) /\ DOMAIN mails' = DOMAIN mails /\ mails'[Len(mails)] = new
          /\ \A j \in DOMAIN mails \ {Len(mails)} : mails'[j] = mails[j]
      BY <1>0, <3>2, <3>5, Writes
    <3>8. \A i \in DOMAIN mails' : mails'[i].ids = mails[i].ids
      BY <3>1, <3>6, <3>7
    <3>9. \A i \in DOMAIN mails' : /\ mails'[i].ids \subseteq DOMAIN message'
                                   /\ mails'[i].settled => mails'[i].ids \cap Pending' = {}
      BY <1>6, <1>8, <1>12, <3>6, <3>7, <3>8
    <3>10. ASSUME NEW i \in DOMAIN mails', NEW j \in DOMAIN mails', i < j, mails'[i].ids \cap mails'[j].ids # {}
           PROVE  ~ mails'[i].settled
      <4>1. i \in DOMAIN mails \ {Len(mails)}
        BY <3>2, <3>7, <3>10
      <4>2. mails'[i] = mails[i]
        BY <3>7, <4>1
      <4>3. i \in DOMAIN mails /\ j \in DOMAIN mails /\ i < j /\ mails[i].ids \cap mails[j].ids # {}
        BY <3>7, <3>8, <3>10
      <4>4. ~ mails[i].settled
        BY <1>12, <4>3 DEF MailedOncePerReply
      <4> QED BY <4>2, <4>4
    <3> QED BY <3>7, <3>9, <3>10 DEF MailedOncePerReply
  <2> QED BY <2>1, <2>2
<1>14. NoticeInv'
  BY <1>11, <1>13 DEF NoticeInv
<1> QED BY <1>0, <1>1, <1>4, <1>7, <1>9, <1>10, <1>14, JobStep

LEMMA NotifiesKeeps ==
  ASSUME SupportInv, UNCHANGED questionVars, Notifies
  PROVE  SupportInv'
BY LooksKeep, MailKeeps, RecordKeeps, SetStatusKeeps DEF Notifies, Jobs, Lists, Looks

----------------------------------------------------------------------------
(* Deleted customers                                                        *)

LEMMA ErasesKeeps ==
  ASSUME SupportInv, UNCHANGED questionVars, Erases
  PROVE  SupportInv'
<1>0. /\ now \in Nat /\ "eraser" \in Actors \ {"notices"} /\ inquiry \in Seq(InquiryRow)
      /\ DeskCall(call["eraser"])
  BY NoticesApart, WhatIsUnderWay DEF SupportInv, DeskInv
<1>1. ASSUME NEW c \in WebChats, BeginErase(c) PROVE SupportInv'
  <2>1. UNCHANGED consultationVars /\ call["eraser"].at = "idle"
    BY <1>1 DEF BeginErase, At
  <2>2. CASE \E at \in {"questions", "forget"} : Moves("eraser", [at |-> at, chat |-> c])
    <3>1. PICK at \in {"questions", "forget"} : Moves("eraser", [at |-> at, chat |-> c])
      BY <2>2
    <3>2. PICK n : n = [at |-> at, chat |-> c] /\ Moves("eraser", n)
      BY <3>1
    <3>3. DeskCall(n) /\ n.at \in {"questions", "forget"}
      BY <3>2 DEF DeskCall
    <3> QED BY <1>0, <2>1, <3>2, <3>3, DeskReads DEF consultationVars
  <2>3. CASE conversation[c].here /\ OpenOf(c) # {}
    <3>1. PICK i : i = CHOOSE j \in OpenOf(c) : TRUE
      OBVIOUS
    <3>2. i \in DOMAIN inquiry
      BY <2>3, <3>1 DEF OpenOf
    <3>3. PICK r : r = [inquiry[i] EXCEPT !.status = "closed"]
      OBVIOUS
    <3>4. inquiry[i] \in InquiryRow
      BY <1>0, <3>2
    <3>5. Copy(i, r)
      BY <3>2, <3>3, <3>4 DEF Copy, InquiryRow
    <3>6. PICK n : n = [at |-> "end", chat |-> c, inquiry |-> i, row |-> r] /\ Moves("eraser", n)
      BY <1>1, <2>3, <3>1, <3>3 DEF BeginErase, Turn, Moves
    <3>7. DeskCall(n) /\ n.at = "end"
      BY <3>5, <3>6 DEF DeskCall
    <3> QED BY <1>0, <2>1, <3>6, <3>7, DeskReads DEF consultationVars
  <2> QED BY <1>1, <2>2, <2>3 DEF BeginErase, Turn, Moves
<1>2. CASE EraserCloses
  <2>1. call["eraser"].at = "end" /\ Copy(call["eraser"].inquiry, call["eraser"].row)
    BY <1>0, <1>2 DEF EraserCloses, At, DeskCall
  <2>2. PICK n : n = [at |-> "forget", chat |-> call["eraser"].chat] /\ Moves("eraser", n)
    BY <1>2 DEF EraserCloses, Proceed, Turn, Moves
  <2>3. DeskCall(n) /\ n.at = "forget"
    BY <2>2 DEF DeskCall
  <2>4. /\ SaveInquiry(call["eraser"].inquiry, call["eraser"].row)
        /\ UNCHANGED <<conversation, message, now, mails, faults>>
    BY <1>2 DEF EraserCloses
  <2> QED BY <1>0, <2>1, <2>2, <2>3, <2>4, DeskSaves
<1>3. CASE ForgetEmail
  <2>1. PICK n : n = [at |-> "questions", chat |-> call["eraser"].chat] /\ Moves("eraser", n)
    BY <1>3 DEF ForgetEmail, Proceed, Turn, Moves
  <2>2. DeskCall(n) /\ n.at = "questions"
    BY <2>1 DEF DeskCall
  <2> QED BY <1>0, <1>3, <2>1, <2>2, DeskReads DEF ForgetEmail, At
<1> QED BY <1>1, <1>2, <1>3 DEF Erases

----------------------------------------------------------------------------
(* Product questions                                                        *)

LEMMA QuestionStep ==
  ASSUME SupportInv, UNCHANGED consultationVars, NEW a \in Actors \ {"notices"}, NEW c, Moves(a, c),
         DeskCall(c), QuestionCall(c)', mailed \subseteq mailed',
         call[a].at = "qmail" => call[a].question \in mailed',
         question' \in Seq(QuestionRow \cup {NoQuestion}), DOMAIN question \subseteq DOMAIN question',
         \A q \in DOMAIN question' :
           question'[q].here /\ question'[q].answered /\ question'[q].email =>
             \/ Told(q)'
             \/ q \in DOMAIN question /\ question[q] = question'[q]
  PROVE  SupportInv'
<1>1. QuestionInv'
  BY QuestionsGoOn
<1>2. /\ inquiry' = inquiry /\ message' = message /\ mails' = mails /\ now' = now
  BY DEF consultationVars
<1>3. /\ inquiry \in Seq(InquiryRow) /\ message \in Seq(MessageRow) /\ now \in Nat
      /\ \A i \in DOMAIN inquiry : inquiry[i].status = "answered" => Reached(i)
  BY DEF SupportInv, DeskInv
<1>4. MessagesKept
  BY <1>2, <1>3 DEF MessagesKept
<1>5. DeskCall(c)'
  BY <1>2, <1>4, DeskCallStays
<1>6. \A i \in DOMAIN inquiry' : inquiry'[i].status = "answered" => Reached(i)'
  BY <1>2, <1>3, <1>4, ReachedStays
<1>7. DeskInv'
  BY <1>2, <1>3, <1>4, <1>5, <1>6, DeskGoesOn
<1>8. call'["notices"] = call["notices"] /\ call' = [b \in Actors |-> call'[b]]
  BY NoticesApart, TheCalls
<1>9. NoticeInv'
  BY <1>2, <1>3, <1>8, NoticesWait
<1> QED BY <1>1, <1>7, <1>8, <1>9 DEF SupportInv

LEMMA AskKeeps ==
  ASSUME SupportInv, UNCHANGED consultationVars, NEW h \in Handlers, Ask(h)
  PROVE  SupportInv'
<1>0. question \in Seq(QuestionRow \cup {NoQuestion}) /\ QuestionInv
  BY DEF SupportInv, QuestionInv
<1>1. PICK r \in QuestionRow \cup {NoQuestion} : r = Asked /\ ~ r.answered
  <2>1. Asked \in QuestionRow /\ ~ Asked.answered
    BY DEF Asked, QuestionRow
  <2> QED BY <2>1
<1>2. call' = call /\ mailed' = mailed /\ question' = Append(question, r)
  BY <1>1 DEF Ask
<1>3. PICK n : n = call[h] /\ Moves(h, n)
  BY <1>2, NoticesApart DEF Moves, SupportInv
<1>4. DeskCall(n) /\ QuestionCall(n)
  BY <1>0, <1>3, NoticesApart, WhatIsUnderWay DEF QuestionInv
<1>5. \A q : Told(q)' <=> Told(q)
  BY <1>2 DEF Told, At
<1>6. /\ question' \in Seq(QuestionRow \cup {NoQuestion}) /\ DOMAIN question \subseteq DOMAIN question'
      /\ \A q \in DOMAIN question' : (q \in DOMAIN question /\ question'[q] = question[q]) \/ question'[q] = r
  BY <1>0, <1>1, <1>2, Appends
<1>7. QuestionCall(n)'
  BY <1>4, <1>5, <1>6 DEF QuestionCall
<1>8. call[h].at # "qmail"
  BY DEF Ask, Takes
<1>9. h \in Actors \ {"notices"}
  BY NoticesApart
<1> QED BY <1>1, <1>2, <1>3, <1>4, <1>6, <1>7, <1>8, <1>9, QuestionStep

\* A row is copied, for an edit, an answer or its hiding.
LEMMA CopyKeeps ==
  ASSUME SupportInv, UNCHANGED consultationVars, UNCHANGED questionVars, NEW h \in Handlers,
         call[h].at = "idle", NEW q \in DOMAIN question, NEW r \in QuestionRow, NEW mail \in BOOLEAN,
         r.answered /\ r.email => mail \/ Told(q), Moves(h, SaveOf(q, r, mail))
  PROVE  SupportInv'
<1>1. PICK n : n = [at |-> "qsave", question |-> q, row |-> r, mail |-> mail] /\ Moves(h, n)
  BY DEF SaveOf
<1>2. question' = question /\ mailed' = mailed
  BY DEF questionVars
<1>3. h \in Actors \ {"notices"} /\ question \in Seq(QuestionRow \cup {NoQuestion})
  BY NoticesApart DEF SupportInv, QuestionInv
<1>4. Told(q) => Told(q)'
  BY <1>1, <1>2, <1>3, ToldStays
<1>5. DeskCall(n) /\ QuestionCall(n)'
  BY <1>1, <1>2, <1>4 DEF DeskCall, QuestionCall
<1> QED BY <1>1, <1>2, <1>3, <1>5, QuestionStep

LEMMA HeldRow ==
  ASSUME SupportInv, NEW q, Held(q)
  PROVE  /\ q \in DOMAIN question /\ question[q] \in QuestionRow
         /\ question[q].answered /\ question[q].email => Told(q)
<1>1. /\ question \in Seq(QuestionRow \cup {NoQuestion}) /\ q \in DOMAIN question /\ question[q].here
      /\ question[q].here /\ question[q].answered /\ question[q].email => Told(q)
  BY DEF SupportInv, QuestionInv, Held
<1>2. question[q] \in QuestionRow \cup {NoQuestion}
  BY <1>1
<1>3. question[q] # NoQuestion
  BY <1>1 DEF NoQuestion
<1> QED BY <1>1, <1>2, <1>3

LEMMA CopiesKeep ==
  ASSUME SupportInv, UNCHANGED consultationVars, NEW h \in Handlers, NEW q \in DOMAIN question,
         BeginEdit(h, q) \/ BeginAnswer(h, q) \/ \E hidden \in BOOLEAN : BeginHide(h, q, hidden)
  PROVE  SupportInv'
<1>1. Held(q) /\ call[h].at = "idle" /\ UNCHANGED questionVars
  BY DEF BeginEdit, BeginAnswer, BeginHide, Takes
<1>2. PICK r \in QuestionRow : r = question[q] /\ (r.answered /\ r.email => Told(q))
  BY <1>1, HeldRow
<1>3. CASE BeginEdit(h, q)
  <2>1. Moves(h, SaveOf(q, r, FALSE)) /\ ~ r.answered
    BY <1>2, <1>3 DEF BeginEdit, Turn, Moves
  <2> QED BY <1>1, <2>1, CopyKeeps
<1>4. CASE BeginAnswer(h, q)
  <2>0. [r EXCEPT !.answered = TRUE] \in QuestionRow /\ [r EXCEPT !.answered = TRUE].email = r.email
    BY DEF QuestionRow
  <2>1. PICK new \in QuestionRow : new = [r EXCEPT !.answered = TRUE] /\ new.email = r.email
    BY <2>0
  <2>2. PICK mail \in BOOLEAN : mail = FirstAnswer(r) /\ (~ mail => r.answered)
    BY DEF FirstAnswer, QuestionRow
  <2>3. Moves(h, SaveOf(q, new, mail))
    BY <1>2, <1>4, <2>1, <2>2 DEF BeginAnswer, Turn, Moves
  <2> QED BY <1>1, <1>2, <2>1, <2>2, <2>3, CopyKeeps
<1>5. ASSUME NEW hidden \in BOOLEAN, BeginHide(h, q, hidden) PROVE SupportInv'
  <2>1. PICK new \in QuestionRow : /\ new = [r EXCEPT !.hidden = hidden]
                                   /\ new.email = r.email /\ new.answered = r.answered
    <3>1. /\ [r EXCEPT !.hidden = hidden] \in QuestionRow
          /\ [r EXCEPT !.hidden = hidden].email = r.email
          /\ [r EXCEPT !.hidden = hidden].answered = r.answered
      BY DEF QuestionRow
    <3> QED BY <3>1
  <2>2. Moves(h, SaveOf(q, new, FALSE))
    BY <1>2, <1>5, <2>1 DEF BeginHide, Turn, Moves
  <2> QED BY <1>1, <1>2, <2>1, <2>2, CopyKeeps
<1> QED BY <1>3, <1>4, <1>5

LEMMA WithdrawKeeps ==
  ASSUME SupportInv, UNCHANGED consultationVars, NEW h \in Handlers,
         (\E q \in DOMAIN question : BeginWithdraw(h, q)) \/ DeleteQuestion(h)
  PROVE  SupportInv'
<1>0. h \in Actors \ {"notices"} /\ question \in Seq(QuestionRow \cup {NoQuestion})
  BY NoticesApart DEF SupportInv, QuestionInv
<1>1. ASSUME NEW q \in DOMAIN question, BeginWithdraw(h, q) PROVE SupportInv'
  <2>1. PICK n : n = [at |-> "qdelete", question |-> q] /\ Moves(h, n)
    BY <1>1 DEF BeginWithdraw, Turn, Moves
  <2>2. DeskCall(n) /\ QuestionCall(n)'
    BY <2>1 DEF DeskCall, QuestionCall
  <2>3. question' = question /\ mailed' = mailed /\ call[h].at = "idle"
    BY <1>1 DEF BeginWithdraw, Takes, questionVars
  <2> QED BY <1>0, <2>1, <2>2, <2>3, QuestionStep
<1>2. CASE DeleteQuestion(h)
  <2>1. /\ Moves(h, Idle) /\ mailed' = mailed /\ call[h].at = "qdelete"
        /\ question' = [question EXCEPT ![call[h].question] = NoQuestion]
    BY <1>2 DEF DeleteQuestion, Ends, Proceed, Turn, Moves, At
  <2>2. DeskCall(Idle) /\ QuestionCall(Idle)'
    BY IdleCall DEF QuestionCall, Idle
  <2>3. /\ question' \in Seq(QuestionRow \cup {NoQuestion}) /\ DOMAIN question' = DOMAIN question
        /\ \A q \in DOMAIN question' : question'[q] = NoQuestion \/ question'[q] = question[q]
    BY <1>0, <2>1, WritesAnywhere
  <2>4. ~ NoQuestion.here
    BY DEF NoQuestion
  <2> QED BY <1>0, <2>1, <2>2, <2>3, <2>4, QuestionStep
<1> QED BY <1>1, <1>2

LEMMA SaveKeeps ==
  ASSUME SupportInv, UNCHANGED consultationVars, NEW h \in Handlers, SaveQuestion(h)
  PROVE  SupportInv'
<1>0. h \in Actors \ {"notices"} /\ question \in Seq(QuestionRow \cup {NoQuestion}) /\ QuestionCall(call[h])
  BY NoticesApart DEF SupportInv, QuestionInv
<1>1. PICK q, r, mail : q = call[h].question /\ r = call[h].row /\ mail = call[h].mail
  OBVIOUS
<1>2. /\ q \in DOMAIN question /\ r \in QuestionRow /\ mail \in BOOLEAN
      /\ r.answered /\ r.email => mail \/ Told(q)
      /\ call[h].at = "qsave"
  BY <1>0, <1>1 DEF SaveQuestion, At, QuestionCall
<1>3. question' = [question EXCEPT ![q] = r] /\ mailed' = mailed
  BY <1>1 DEF SaveQuestion
<1>4. PICK n : /\ n = IF mail /\ r.email THEN [at |-> "qmail", question |-> q] ELSE Idle
               /\ Moves(h, n)
  BY <1>1 DEF SaveQuestion, Ends, Proceed, Turn, Moves
<1>5. /\ DeskCall(n) /\ QuestionCall(n)'
      /\ mail /\ r.email => n.at = "qmail" /\ n.question = q
  BY <1>4, IdleCall DEF DeskCall, QuestionCall, Idle
<1>6. /\ question' \in Seq(QuestionRow \cup {NoQuestion}) /\ DOMAIN question' = DOMAIN question
      /\ question'[q] = r /\ \A p \in DOMAIN question' \ {q} : question'[p] = question[p]
  BY <1>0, <1>2, <1>3, Writes
<1>7. r.answered /\ r.email => Told(q)'
  <2>1. CASE mail /\ r.email
    <3>1. call'[h] = n
      BY <1>0, <1>4, TheCalls
    <3> QED BY <1>5, <2>1, <3>1 DEF Told, At
  <2>2. CASE Told(q)
    BY <1>0, <1>2, <1>3, <1>4, <2>2, ToldStays
  <2> QED BY <1>2, <2>1, <2>2
<1> QED BY <1>0, <1>2, <1>3, <1>4, <1>5, <1>6, <1>7, QuestionStep

LEMMA MailAnswerKeeps ==
  ASSUME SupportInv, UNCHANGED consultationVars, NEW h \in Handlers, MailAnswer(h)
  PROVE  SupportInv'
<1>0. h \in Actors \ {"notices"} /\ question \in Seq(QuestionRow \cup {NoQuestion})
  BY NoticesApart DEF SupportInv, QuestionInv
<1>1. question' = question /\ mailed' = mailed \cup {call[h].question} /\ Moves(h, Idle)
  BY DEF MailAnswer, Ends, Proceed, Turn, Moves
<1>2. DeskCall(Idle) /\ QuestionCall(Idle)'
  BY IdleCall DEF QuestionCall, Idle
<1> QED BY <1>0, <1>1, <1>2, QuestionStep

LEMMA ErasesQuestionsKeeps ==
  ASSUME SupportInv, UNCHANGED consultationVars, ErasesQuestions
  PROVE  SupportInv'
<1>0. /\ "eraser" \in Actors \ {"notices"} /\ question \in Seq(QuestionRow \cup {NoQuestion})
      /\ QuestionCall(call["eraser"])
  BY NoticesApart DEF SupportInv, QuestionInv
<1>1. CASE ListQuestions
  <2>1. PICK listed : listed = {q \in DOMAIN question : question[q].here}
    OBVIOUS
  <2>2. PICK rows : rows = [q \in listed |-> [question[q] EXCEPT !.email = FALSE]]
    OBVIOUS
  <2>3. \A q \in DOMAIN rows : rows[q] \in QuestionRow /\ ~ rows[q].email
    <3>1. SUFFICES ASSUME NEW q \in listed PROVE rows[q] \in QuestionRow /\ ~ rows[q].email
      BY <2>2
    <3>2. question[q] \in QuestionRow
      BY <2>1, HeldRow DEF Held
    <3> QED BY <2>2, <3>2 DEF QuestionRow
  <2>4. PICK n : Moves("eraser", n) /\ (n = Idle \/ n = [at |-> "qforget", rows |-> rows])
    BY <1>1, <2>1, <2>2 DEF ListQuestions, Proceed, Turn, Moves
  <2>5. DeskCall(n) /\ QuestionCall(n)'
    BY <2>3, <2>4, IdleCall DEF DeskCall, QuestionCall, Idle
  <2>6. question' = question /\ mailed' = mailed /\ call["eraser"].at = "questions"
    BY <1>1 DEF ListQuestions, At, questionVars
  <2> QED BY <1>0, <2>4, <2>5, <2>6, QuestionStep
<1>2. ASSUME NEW q \in DOMAIN call["eraser"].rows, ForgetQuestion(q) PROVE SupportInv'
  <2>1. PICK rows : rows = call["eraser"].rows
    OBVIOUS
  <2>2. call["eraser"].at = "qforget" /\ \A p \in DOMAIN rows : rows[p] \in QuestionRow /\ ~ rows[p].email
    BY <1>0, <1>2, <2>1 DEF ForgetQuestion, At, QuestionCall
  <2>3. PICK rest : rest = [p \in DOMAIN rows \ {q} |-> rows[p]]
    OBVIOUS
  <2>4. PICK n : Moves("eraser", n) /\ (n = Idle \/ n = [at |-> "qforget", rows |-> rest])
    BY <1>2, <2>1, <2>3 DEF ForgetQuestion, Proceed, Turn, Moves
  <2>5. DeskCall(n) /\ QuestionCall(n)'
    BY <2>2, <2>3, <2>4, IdleCall DEF DeskCall, QuestionCall, Idle
  <2>6. question' = [question EXCEPT ![q] = rows[q]] /\ mailed' = mailed
    BY <1>2, <2>1 DEF ForgetQuestion
  <2>7. /\ question' \in Seq(QuestionRow \cup {NoQuestion}) /\ DOMAIN question' = DOMAIN question
        /\ \A p \in DOMAIN question' : question'[p] = question[p] \/ ~ question'[p].email
    <3>1. PICK r \in QuestionRow : r = rows[q] /\ ~ r.email
      BY <1>2, <2>1, <2>2
    <3>2. question' = [question EXCEPT ![q] = r]
      BY <2>6, <3>1
    <3> QED BY <1>0, <3>1, <3>2, WritesAnywhere
  <2> QED BY <1>0, <2>2, <2>4, <2>5, <2>6, <2>7, QuestionStep
<1> QED BY <1>1, <1>2 DEF ErasesQuestions

LEMMA QuestionsKeep ==
  ASSUME SupportInv, UNCHANGED consultationVars, NEW h \in Handlers, Questions(h)
  PROVE  SupportInv'
BY AskKeeps, CopiesKeep, WithdrawKeeps, SaveKeeps, MailAnswerKeeps DEF Questions

----------------------------------------------------------------------------
(* The theorems.                                                            *)

LEMMA SupportStarts == SupportInit => SupportInv
<1> SUFFICES ASSUME SupportInit PROVE SupportInv
  OBVIOUS
<1>1. /\ call = [a \in Actors |-> Idle] /\ now = 0 /\ mails = <<>> /\ question = <<>> /\ mailed = {}
  BY DEF SupportInit, CallsInit, ConsultationInit, QuestionsInit
<1>2. \A a \in Actors : call[a] = Idle
  BY <1>1
<1>3. DeskInv
  <2>1. /\ inquiry \in Seq(InquiryRow) /\ message \in Seq(MessageRow)
        /\ \A i \in DOMAIN inquiry : inquiry[i].status = "open"
    <3>1. CASE inquiry = <<>> /\ message = <<>>
      BY <3>1
    <3>2. ASSUME NEW o \in OldChats, inquiry = << NewInquiry(o) >>, message = << Inbound(o, 1) >>
          PROVE  /\ inquiry \in Seq(InquiryRow) /\ message \in Seq(MessageRow)
                 /\ \A i \in DOMAIN inquiry : inquiry[i].status = "open"
      <4>1. o \in Chats
        BY ConsultationAssumption DEF Chats
      <4>2. NewInquiry(o) \in InquiryRow /\ NewInquiry(o).status = "open"
        BY <4>1 DEF NewInquiry, InquiryRow
      <4>3. Inbound(o, 1) \in MessageRow
        BY <4>1 DEF Inbound, MessageRow, Notice
      <4> QED BY <3>2, <4>2, <4>3
    <3> QED BY <3>1, <3>2 DEF SupportInit, ConsultationInit
  <2> QED BY <1>1, <1>2, <2>1, IdleCall DEF DeskInv
<1>4. NoticeInv
  BY <1>1, <1>2, NoticesApart DEF NoticeInv, MailedOncePerReply, NoticeCall, Idle
<1>5. QuestionInv
  BY <1>1, <1>2 DEF QuestionInv, QuestionCall, Idle
<1> QED BY <1>1, <1>3, <1>4, <1>5 DEF SupportInv

LEMMA SupportStays ==
  ASSUME SupportInv, [SupportNext]_vars
  PROVE  SupportInv'
<1>1. CASE ConsultationNext
  BY <1>1, ConsultsKeeps, SweepsKeeps, NotifiesKeeps, ErasesKeeps DEF ConsultationNext
<1>2. CASE QuestionsNext
  BY <1>2, QuestionsKeep, ErasesQuestionsKeeps DEF QuestionsNext
<1>3. CASE UNCHANGED vars
  <2>1. /\ UNCHANGED <<call, inquiry, message, now, mails>> /\ UNCHANGED questionVars
    BY <1>3 DEF vars, callVars, consultationVars
  <2>2. PICK n : n = call["closer"] /\ Moves("closer", n)
    BY <2>1, NoticesApart DEF Moves, SupportInv
  <2>3. /\ DeskInv' /\ NoticeInv' /\ QuestionInv'
    <3>1. DeskInv'
      BY <2>1 DEF SupportInv, DeskInv, DeskCall, Copy, Reached
    <3>2. NoticeInv'
      BY <2>1 DEF SupportInv, NoticeInv, NoticeCall, MailedOncePerReply, Pending
    <3>3. QuestionInv'
      BY <2>1 DEF SupportInv, QuestionInv, QuestionCall, Told, At, questionVars
    <3> QED BY <3>1, <3>2, <3>3
  <2> QED BY <2>1, <2>3 DEF SupportInv
<1> QED BY <1>1, <1>2, <1>3 DEF SupportNext

LEMMA SupportAlways == SupportSpec => []SupportInv
<1>1. SupportInit => SupportInv
  BY SupportStarts
<1>2. SupportInv /\ [SupportNext]_vars => SupportInv'
  BY SupportStays
<1> QED BY <1>1, <1>2, PTL DEF SupportSpec

(* Whoever takes over, answers, closes or saves an inquiry as read long ago, *)
(* and whatever Telegram refuses: an inquiry counts as answered only if a    *)
(* reply in it was delivered; and an answered question's author was mailed,  *)
(* whichever copy of the row is saved last (reply, SaveQuestion).            *)
THEOREM AnsweredMeansTold == SupportSpec => []AnsweredWasTold
<1>1. SupportInv => AnsweredWasTold
  BY DEF SupportInv, DeskInv, QuestionInv, AnsweredWasTold, AnsweredWasReached, AnsweredWasMailed,
         Reached, Told, Held
<1> QED BY <1>1, SupportAlways, PTL

(* Whatever fails or dies in the notice job, and whatever is read and saved  *)
(* meanwhile: once a reply's notice is written down, it is not mailed again  *)
(* (SendDueNotices).                                                        *)
THEOREM RepliesMailedOnce == SupportSpec => []MailedOncePerReply
<1>1. SupportInv => MailedOncePerReply
  BY DEF SupportInv, NoticeInv
<1> QED BY <1>1, SupportAlways, PTL
============================================================================
