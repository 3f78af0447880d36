------------------------------- MODULE Alerts -------------------------------
(***************************************************************************)
(* The notification service: which Telegram chats get an ops alert.  Chats  *)
(* register themselves with /start, managers decide over them, and every    *)
(* alert is routed by the table and then filtered by a list of allowed      *)
(* chats that each task caches.  Two tasks overlap during a deploy.         *)
(*                                                                         *)
(* One alert class (order) and one message of it stand for all; a label is  *)
(* named by the chat whose title it is.                                    *)
(***************************************************************************)
EXTENDS Naturals, Functions

CONSTANTS
  Chat, User,
  Sender,         \* who writes /start in a chat; a user may write in several
  Task, Msg,      \* processes; /start messages
  None,           \* no value
  Installations,  \* the installations considered
  MaxRows         \* bound: rows

(* An installation: its TELEGRAM_ORDER_CHAT_ID, tasks and messages; whom      *)
(* managers may enter by hand and how they may set the order flag; bounds    *)
(* on their requests, on stops, on failed reads and on alerts.              *)
Installation ==
  [env : SUBSET Chat, tasks : SUBSET Task, msgs : SUBSET Msg, manual : SUBSET User, flags : SUBSET BOOLEAN,
   changes : Nat, stops : Nat, misses : Nat, alerts : {0, 1}]

ASSUME AlertsAssumption ==
  /\ Sender \in [Chat -> User] /\ MaxRows \in Nat
  /\ Installations \subseteq Installation

VARIABLES
  site,       \* the installation, fixed at the start
  row,        \* telegram_subscriptions, by chat_id
  lastId,
  up,         \* tasks that run
  allowed,    \* per task: TelegramAccess, the chats and users it lists
  refresh,    \* per task and caller: a rebuild of it in progress
  msg,        \* handlers of /start messages
  acks,       \* history: <<message, row id, chat>> of "your request was received"
  alert,      \* one published event and how far it got
  changes, stops, misses

tableVars == <<row, lastId>>
taskVars  == <<site, up, allowed, refresh, stops>>
alertVars == <<tableVars, taskVars, msg, acks, alert, changes, misses>>

NoRefresh == [step |-> "idle", chats |-> {}]

IsAccepted(rows, c) == c \in DOMAIN rows /\ rows[c].status = "accepted"
Accepted(rows) == {c \in DOMAIN rows : rows[c].status = "accepted"}

\* What Refresh puts on the list.
Listed(rows) == site.env \cup Accepted(rows) \cup ({rows[c].user : c \in Accepted(rows)} \cap User)

(* RoutingChats: the chats of the environment and the accepted ones with     *)
(* the flag, each once, without those that muted the message.               *)
Muted(rows)  == {c \in Accepted(rows) : rows[c].muted}
Routed(rows) == (site.env \cup {c \in Accepted(rows) : rows[c].order}) \ Muted(rows)

NoAlert == [state |-> "none", task |-> None, to |-> {}, got |-> {}, failed |-> {}, passed |-> {},
            always |-> {}, ever |-> {}, blind |-> FALSE]
NoMsg   == [step |-> "none", task |-> None, chat |-> None, welcomed |-> FALSE, accepted |-> FALSE]

AlertsInit ==
  /\ site \in Installations
  /\ row = [c \in {} |-> NoMsg]
  /\ lastId = 0
  /\ IF site.tasks = {} THEN up = {} ELSE \E t \in site.tasks : up = {t}
  /\ allowed = [t \in site.tasks |-> IF t \in up THEN Listed(row) ELSE {}]
  /\ refresh = [t \in site.tasks |-> [by \in {"request", "ticker"} |-> NoRefresh]]
  /\ msg = [m \in site.msgs |-> NoMsg]
  /\ acks = {}
  /\ alert = NoAlert
  /\ changes = 0
  /\ stops = 0
  /\ misses = 0

(* A change of the table, seen by what is under way: for which chats the     *)
(* alert was due always or ever, and whether a chat stayed accepted.        *)
SetRows(rows) ==
  /\ row' = rows
  /\ alert' = IF alert.state = "published"
              THEN [alert EXCEPT !.always = @ \cap Routed(rows), !.ever = @ \cup Routed(rows)]
              ELSE alert

Watched(ms, rows) == [m \in site.msgs |-> [ms[m] EXCEPT !.accepted = @ /\ IsAccepted(rows, ms[m].chat)]]

----------------------------------------------------------------------------
(* Requests of managers.  The row is changed by one statement; the task that *)
(* served it then rebuilds its list.                                        *)

Request(t, rows) ==
  /\ t \in up
  /\ refresh[t]["request"] = NoRefresh
  /\ changes < site.changes
  /\ changes' = changes + 1
  /\ refresh' = [refresh EXCEPT ![t]["request"] = [step |-> "read", chats |-> {}]]
  /\ SetRows(rows)
  /\ msg' = Watched(msg, rows)
  /\ UNCHANGED <<site, up, allowed, stops, acks, misses>>

Accept(t, c, order) ==
  /\ c \in DOMAIN row /\ row[c].status = "pending"
  /\ Request(t, [row EXCEPT ![c].status = "accepted", ![c].order = order])
  /\ UNCHANGED lastId

Reject(t, c) ==
  /\ c \in DOMAIN row /\ row[c].status = "pending"
  /\ Request(t, [row EXCEPT ![c].status = "rejected"])
  /\ UNCHANGED lastId

UpdateAlerts(t, c, order, muted) ==
  /\ c \in DOMAIN row /\ row[c].status # "rejected"
  /\ <<order, muted>> # <<row[c].order, row[c].muted>>
  /\ Request(t, [row EXCEPT ![c].order = order, ![c].muted = muted])
  /\ UNCHANGED lastId

Delete(t, c) ==
  /\ c \in DOMAIN row
  /\ Request(t, Restrict(row, DOMAIN row \ {c}))
  /\ UNCHANGED lastId

(* CreateAccepted inserts, or takes over the row of the chat; a user that is *)
(* registered with another chat is refused by the unique index.             *)
Created(c, u, order) ==
  IF c \in DOMAIN row
  THEN [row EXCEPT ![c].user = IF u = None THEN @ ELSE u, ![c].status = "accepted", ![c].order = order]
  ELSE [d \in DOMAIN row \cup {c} |->
          IF d # c THEN row[d]
          ELSE [id |-> lastId + 1, user |-> u, label |-> None, status |-> "accepted", order |-> order, muted |-> FALSE]]

CreateManual(t, c, u, order) ==
  /\ \A d \in DOMAIN row \ {c} : u = None \/ row[d].user # u
  /\ c \in DOMAIN row \/ lastId < MaxRows
  /\ lastId' = IF c \in DOMAIN row THEN lastId ELSE lastId + 1
  /\ Request(t, Created(c, u, order))

----------------------------------------------------------------------------
(* Refresh: one read of the table, then the list is replaced.  It runs in a  *)
(* request and on a ticker, and the two do not wait for each other.         *)

ReadAccepted(t, by) ==
  /\ t \in up
  /\ refresh[t][by].step = (IF by = "ticker" THEN "idle" ELSE "read")
  /\ refresh' = [refresh EXCEPT ![t][by] = [step |-> "store", chats |-> Listed(row)]]
  /\ UNCHANGED <<tableVars, site, up, allowed, stops, msg, acks, alert, changes, misses>>

\* Slip: chats are only ever added.
StoreMore(t, by) ==
  /\ t \in up
  /\ refresh[t][by].step = "store"
  /\ allowed' = [allowed EXCEPT ![t] = @ \cup refresh[t][by].chats]
  /\ refresh' = [refresh EXCEPT ![t][by] = NoRefresh]
  /\ UNCHANGED <<tableVars, site, up, stops, msg, acks, alert, changes, misses>>

Store(t, by) ==
  /\ t \in up
  /\ refresh[t][by].step = "store"
  /\ allowed' = [allowed EXCEPT ![t] = refresh[t][by].chats]
  /\ refresh' = [refresh EXCEPT ![t][by] = NoRefresh]
  /\ UNCHANGED <<tableVars, site, up, stops, msg, acks, alert, changes, misses>>

Misses == misses < site.misses /\ misses' = misses + 1

\* A read that fails leaves the list as it is.
ReadFails(t, by) ==
  /\ t \in up
  /\ refresh[t][by].step = "read" \/ by = "ticker"
  /\ Misses
  /\ refresh' = [refresh EXCEPT ![t][by] = NoRefresh]
  /\ UNCHANGED <<tableVars, site, up, allowed, stops, msg, acks, alert, changes>>

----------------------------------------------------------------------------
(* A rolling deploy.  The list is built once before the task subscribes to   *)
(* events; a failed read leaves it empty.                                   *)

Boot(t) ==
  /\ t \notin up
  /\ up' = up \cup {t}
  /\ \/ allowed' = [allowed EXCEPT ![t] = Listed(row)] /\ UNCHANGED misses
     \/ Misses /\ allowed' = [allowed EXCEPT ![t] = {}]
  /\ UNCHANGED <<tableVars, site, refresh, stops, msg, acks, alert, changes>>

\* What the task was doing is lost: NATS and Telegram deliver once.
Stop(t) ==
  /\ t \in up /\ up # {t}
  /\ stops < site.stops
  /\ stops' = stops + 1
  /\ up' = up \ {t}
  /\ refresh' = [refresh EXCEPT ![t] = [by \in {"request", "ticker"} |-> NoRefresh]]
  /\ msg' = [m \in site.msgs |-> IF msg[m].task = t /\ msg[m].step # "done" THEN [NoMsg EXCEPT !.step = "lost"] ELSE msg[m]]
  /\ alert' = IF alert.task = t /\ alert.state = "sending" THEN [NoAlert EXCEPT !.state = "lost"] ELSE alert
  /\ UNCHANGED <<tableVars, site, allowed, acks, changes, misses>>

----------------------------------------------------------------------------
(* A /start message (UpdateProcessor.Handle).                               *)

Handling(m, step) == msg[m].step = step /\ msg[m].task \in up

Receive(m, t, c) ==
  /\ msg[m].step = "none" /\ t \in up
  /\ msg' = [msg EXCEPT ![m] = [step |-> "by chat", task |-> t, chat |-> c, welcomed |-> FALSE,
                                accepted |-> IsAccepted(row, c)]]
  /\ UNCHANGED <<tableVars, taskVars, acks, alert, changes, misses>>

Finish(m, welcome) == msg' = [msg EXCEPT ![m].step = "done", ![m].welcomed = welcome]

(* A known row: its display fields are refreshed from the message; it is     *)
(* welcomed if accepted.                                                    *)
Known(m, d) ==
  /\ SetRows([row EXCEPT ![d].label = msg[m].chat])
  /\ Finish(m, row[d].status = "accepted")

ByUser(m) == {d \in DOMAIN row : row[d].user = Sender[msg[m].chat]}

\* Slip: the user's row is looked for first.
FindByUserFirst(m) ==
  /\ Handling(m, "by chat")
  /\ \/ \E d \in ByUser(m) : Known(m, d)
     \/ /\ ByUser(m) = {}
        /\ msg' = [msg EXCEPT ![m].step = "by user"]
        /\ UNCHANGED <<row, alert>>
  /\ UNCHANGED <<lastId, taskVars, acks, changes, misses>>

FindByChat(m) ==
  /\ Handling(m, "by chat")
  /\ \/ /\ msg[m].chat \in DOMAIN row
        /\ Known(m, msg[m].chat)
     \/ /\ msg[m].chat \notin DOMAIN row
        /\ msg' = [msg EXCEPT ![m].step = "by user"]
        /\ UNCHANGED <<row, alert>>
  /\ UNCHANGED <<lastId, taskVars, acks, changes, misses>>

FindByUser(m) ==
  /\ Handling(m, "by user")
  /\ \/ \E d \in ByUser(m) : Known(m, d)
     \/ /\ ByUser(m) = {}
        /\ IF {msg[m].chat, Sender[msg[m].chat]} \cap allowed[msg[m].task] # {}
           THEN Finish(m, TRUE)
           ELSE msg' = [msg EXCEPT ![m].step = "register"]
        /\ UNCHANGED <<row, alert>>
  /\ UNCHANGED <<lastId, taskVars, acks, changes, misses>>

(* UpsertPending looks again before it inserts, and hands out a row it finds. *)
Answer(m, d) ==
  IF row[d].status = "accepted" THEN Finish(m, TRUE) /\ UNCHANGED acks
  ELSE Finish(m, FALSE) /\ acks' = acks \cup {<<m, row[d].id, msg[m].chat>>}

LookAgain(m) ==
  /\ Handling(m, "register")
  /\ \/ msg[m].chat \in DOMAIN row /\ Answer(m, msg[m].chat)
     \/ msg[m].chat \notin DOMAIN row /\ \E d \in ByUser(m) : Answer(m, d)
     \/ /\ msg[m].chat \notin DOMAIN row /\ ByUser(m) = {}
        /\ msg' = [msg EXCEPT ![m].step = "insert"]
        /\ UNCHANGED acks
  /\ UNCHANGED <<tableVars, taskVars, alert, changes, misses>>

Insert(m) ==
  /\ Handling(m, "insert")
  /\ LET c == msg[m].chat IN
     \/ /\ c \notin DOMAIN row /\ ByUser(m) = {} /\ lastId < MaxRows
        /\ lastId' = lastId + 1
        /\ SetRows([d \in DOMAIN row \cup {c} |->
             IF d # c THEN row[d]
             ELSE [id |-> lastId + 1, user |-> Sender[c], label |-> c, status |-> "pending", order |-> FALSE, muted |-> FALSE]])
        /\ Finish(m, FALSE)
        /\ acks' = acks \cup {<<m, lastId + 1, c>>}
     \/ \* refused by a unique index: no answer
        /\ c \in DOMAIN row \/ ByUser(m) # {}
        /\ Finish(m, FALSE)
        /\ UNCHANGED <<tableVars, alert, acks>>
  /\ UNCHANGED <<taskVars, changes, misses>>

----------------------------------------------------------------------------
(* An alert.                                                                *)

PublishEvent ==
  /\ alert.state = "none" /\ site.alerts = 1
  /\ alert' = [NoAlert EXCEPT !.state = "published", !.always = Routed(row), !.ever = Routed(row)]
  /\ UNCHANGED <<tableVars, taskVars, msg, acks, changes, misses>>

Route(t, chats, blind) ==
  /\ alert.state = "published" /\ t \in up
  /\ alert' = [alert EXCEPT !.state = "sending", !.task = t, !.to = chats, !.blind = blind]
  /\ UNCHANGED <<tableVars, taskVars, msg, acks, changes>>

\* Slip: the cached list is taken for the accepted chats.
RouteByList(t) ==
  \/ Route(t, allowed[t] \cap Chat, FALSE) /\ UNCHANGED misses
  \/ Route(t, site.env, TRUE) /\ Misses

(* The queue group hands the event to one task, which reads the table; with  *)
(* a failed read the chats of the environment remain, unmuted.              *)
RouteAlert(t) ==
  \/ Route(t, Routed(row), FALSE) /\ UNCHANGED misses
  \/ Route(t, site.env, TRUE) /\ Misses

(* Send: a chat that is not on the task's list is passed over without an     *)
(* error; one that fails does not keep the others from their message.       *)
Send(c) ==
  /\ alert.state = "sending" /\ c \in alert.to
  /\ \/ /\ c \in allowed[alert.task]
        /\ \/ alert' = [alert EXCEPT !.to = @ \ {c}, !.got = @ \cup {c}]
           \/ alert' = [alert EXCEPT !.to = @ \ {c}, !.failed = @ \cup {c}]
     \/ /\ c \notin allowed[alert.task]
        /\ alert' = [alert EXCEPT !.to = @ \ {c}, !.passed = @ \cup {c}]
  /\ UNCHANGED <<tableVars, taskVars, msg, acks, changes, misses>>

----------------------------------------------------------------------------
AlertsNext ==
  \/ \E t \in site.tasks, c \in Chat :
       \/ Reject(t, c)
       \/ Delete(t, c)
       \/ \E order \in site.flags : Accept(t, c, order)
       \/ \E order \in site.flags, muted \in BOOLEAN : UpdateAlerts(t, c, order, muted)
       \/ \E u \in {None} \cup site.manual, order \in site.flags : CreateManual(t, c, u, order)
  \/ \E t \in site.tasks, by \in {"request", "ticker"} : ReadAccepted(t, by) \/ Store(t, by) \/ ReadFails(t, by)
  \/ \E t \in site.tasks : Boot(t) \/ Stop(t) \/ RouteAlert(t)
  \/ \E m \in site.msgs, t \in site.tasks, c \in Chat : Receive(m, t, c)
  \/ \E m \in site.msgs : FindByChat(m) \/ FindByUser(m) \/ LookAgain(m) \/ Insert(m)
  \/ PublishEvent
  \/ \E c \in Chat : Send(c)

(* A request finishes what it began; the ticker of a task that runs fires.   *)
AlertsFairness ==
  \A t \in Task, by \in {"request", "ticker"} :
    WF_alertVars(t \in site.tasks /\ (ReadAccepted(t, by) \/ Store(t, by)))

AlertsSpec == AlertsInit /\ [][AlertsNext]_alertVars /\ AlertsFairness

----------------------------------------------------------------------------
(* A chat gets an alert only if, at some moment between the event and its     *)
(* routing, it was to have it: an answered delete or mute holds although     *)
(* other tasks still list the chat.  Only the environment's chats are told   *)
(* when the table cannot be read.                                           *)
RevokedStaysSilent ==
  alert.got \subseteq alert.ever \cup (IF alert.blind THEN site.env ELSE {})

Delivered == alert.got \cup alert.failed
Over      == alert.state = "sending" /\ alert.to = {}

(* One unreachable chat cannot silence the rest (sendAll): whoever was to    *)
(* have the alert all the time has it, or is reported, or was not on the     *)
(* list of the task when its turn came.                                     *)
NobodyForgotten ==
  Over /\ ~alert.blind => alert.always \subseteq Delivered \cup alert.passed

(* Both halves of it: an alert reaches those it was due for, and no others.  *)
AlertReachesWhoIsDue == RevokedStaysSilent /\ NobodyForgotten

(* /start in a chat that stays accepted is answered with a welcome, whatever *)
(* else its user registered.                                                *)
AcceptedChatWelcomed ==
  \A m \in site.msgs : msg[m].step = "done" /\ msg[m].accepted => msg[m].welcomed

(* "takes effect on the others within that window" (RunRefresher): when the  *)
(* managers are through, every task lists exactly the accepted chats.       *)
ListsCatchUp ==
  <>[](\A t \in up : allowed[t] = Listed(row))

----------------------------------------------------------------------------
(* Statements of comments that do not hold (see README).                     *)

(* "The pending acknowledgement is sent once, when the row is created"       *)
(* (processor.go:41).                                                       *)
AcknowledgedOnce ==
  \A a, b \in acks : a[2] = b[2] => a = b

(* "refreshMetadata keeps the stored display fields in step with the chat"   *)
(* (processor.go:94).                                                       *)
LabelOfItsChat ==
  \A c \in DOMAIN row : row[c].label \in {None, c}

(* "A failed read still alerts the env chats" (telegram_subscriptions.go).   *)
EnvChatsAlerted ==
  Over => site.env \cap alert.always \subseteq Delivered
============================================================================
