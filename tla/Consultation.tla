---------------------------- MODULE Consultation ----------------------------
(***************************************************************************)
(* Consultations: the web chat, the Telegram bot and the managers' inbox   *)
(* over three tables of the support service. Conversations, one per chat,  *)
(* are upserted by chat id; inquiries are saved whole, status and assignee *)
(* as read, under a unique index that lets one be open per chat; messages  *)
(* are only appended, then marked with what became of their notice.        *)
(*                                                                         *)
(* Every statement is a step. Time stamps that are compared (a reply, the  *)
(* read mark, the notified mark) are drawn from now, 0 stands for NULL.    *)
(* The text of a message and its purge, the shop's own system lines, which *)
(* count as no reply, the menu, the cards of products and orders, and live *)
(* updates are left out.                                                   *)
(***************************************************************************)
EXTENDS SupportCalls

CONSTANTS
  WebChats, BotChats,   \* chats in the storefront and on Telegram
  Managers,
  OldChats,             \* web chats that may have an open inquiry at the start
  MaxInquiries,         \* bound: inquiries
  MaxMessages,          \* bound: messages
  MaxFaults             \* bound: failures of the notice job

ASSUME ConsultationAssumption ==
  /\ OldChats \subseteq WebChats /\ WebChats \cap BotChats = {}
  /\ {MaxInquiries, MaxMessages, MaxFaults} \subseteq Nat

VARIABLES
  conversation,   \* support_conversations, by chat
  inquiry,        \* support_inquiries, by id
  message,        \* support_messages, by id
  now,            \* the clock
  mails,          \* history: the reply notices sent
  faults          \* failures of the notice job so far

consultationVars == <<conversation, inquiry, message, now, mails, faults>>

Chats          == WebChats \cup BotChats
Nobody         == "nobody"
NoConversation == [here |-> FALSE]
Fresh          == [here |-> TRUE, email |-> FALSE, readAt |-> 0, notifiedAt |-> 0]
NewInquiry(c)  == [chat |-> c, status |-> "open", by |-> Nobody]
Inbound(c, i)  == [chat |-> c, inquiry |-> i, reply |-> FALSE, at |-> 0, delivered |-> TRUE,
                   notice |-> "none"]

\* Empty tables, or a shopper whose question nobody has taken yet.
ConsultationInit ==
  /\ now = 0 /\ mails = <<>> /\ faults = 0
  /\ \/ /\ conversation = [c \in Chats |-> NoConversation]
        /\ inquiry = <<>> /\ message = <<>>
     \/ \E o \in OldChats :
          /\ conversation = [c \in Chats |-> IF c = o THEN [Fresh EXCEPT !.email = TRUE]
                                                      ELSE NoConversation]
          /\ inquiry = <<NewInquiry(o)>> /\ message = <<Inbound(o, 1)>>

OpenOf(c) == {i \in DOMAIN inquiry : inquiry[i].chat = c /\ inquiry[i].status # "closed"}

----------------------------------------------------------------------------
(* The statements *)

\* The upsert: a mark or an email that the writer has replaces the row's, one
\* it has not leaves it.
Coalesced(old, new) ==
  [here       |-> TRUE,
   email      |-> new.email \/ old.email,
   readAt     |-> IF new.readAt # 0 THEN new.readAt ELSE old.readAt,
   notifiedAt |-> IF new.notifiedAt # 0 THEN new.notifiedAt ELSE old.notifiedAt]

SaveConversation(c, new) ==
  conversation' = [conversation EXCEPT ![c] = IF @.here THEN Coalesced(@, new) ELSE new]

\* support_inquiries_one_open_per_chat.
OneOpenAllows(i, row) == row.status # "closed" => OpenOf(row.chat) \subseteq {i}

\* The statement fails when the index refuses the row.
SaveInquiry(i, row) ==
  inquiry' = IF OneOpenAllows(i, row) THEN [inquiry EXCEPT ![i] = row] ELSE inquiry

AppendMessage(m) == Len(message) < MaxMessages /\ message' = Append(message, m)

----------------------------------------------------------------------------
(* What a shopper writes *)

\* Send on the web; typed text or a tap for a person on Telegram. The
\* conversation is read, and saved with what the request knows.
BeginWrite(h, c, what) ==
  /\ Takes(h, "send")
  /\ what \in (IF c \in WebChats THEN {"send"} ELSE {"type", "tap"})
  /\ Turn(h, [at |-> "touch", chat |-> c, what |-> what, first |-> ~ conversation[c].here,
              as |-> IF conversation[c].here THEN conversation[c] ELSE Fresh])
  /\ UNCHANGED consultationVars

\* Of two first messages the second has an id that is not the row's: what it
\* would insert next names no conversation, and the request fails.
Touch(h) ==
  LET c == call[h].chat
  IN
  /\ At(h, "touch")
  /\ SaveConversation(c, [call[h].as EXCEPT !.email = @ \/ c \in WebChats])
  /\ IF call[h].first /\ conversation[c].here
       THEN Ends(h)
       ELSE Proceed(h, [at |-> "seek", chat |-> c, what |-> call[h].what])
  /\ UNCHANGED <<inquiry, message, now, mails, faults>>

FileIn(c, i) == [at |-> "file", chat |-> c, inquiry |-> i]

\* A message joins the open inquiry; a tap needs no second one; text on
\* Telegram opens none.
Seek(h) ==
  LET open == OpenOf(call[h].chat)
      what == call[h].what
  IN
  /\ At(h, "seek")
  /\ \/ /\ open # {} /\ what # "tap"
        /\ \E i \in open : Proceed(h, FileIn(call[h].chat, i))
     \/ open # {} /\ what = "tap" /\ Ends(h)
     \/ open = {} /\ what = "type" /\ Proceed(h, FileIn(call[h].chat, 0))
     \/ open = {} /\ what # "type" /\ Proceed(h, [call[h] EXCEPT !.at = "open"])
  /\ UNCHANGED consultationVars

\* A refused insert fails the request, and with it the message.
OpenInquiry(h) ==
  LET c == call[h].chat
  IN
  /\ At(h, "open")
  /\ IF OpenOf(c) = {}
       THEN /\ Len(inquiry) < MaxInquiries
            /\ inquiry' = Append(inquiry, NewInquiry(c))
            /\ IF call[h].what = "tap" THEN Ends(h)
               ELSE Proceed(h, FileIn(c, Len(inquiry) + 1))
       ELSE Ends(h) /\ UNCHANGED inquiry
  /\ UNCHANGED <<conversation, message, now, mails, faults>>

File(h) ==
  /\ At(h, "file")
  /\ AppendMessage(Inbound(call[h].chat, call[h].inquiry))
  /\ Ends(h)
  /\ UNCHANGED <<conversation, inquiry, now, mails, faults>>

\* MarkRead: the row is read, the time taken, the row saved.
BeginRead(h, c) ==
  /\ Takes(h, "read") /\ c \in WebChats /\ conversation[c].here
  /\ Turn(h, [at |-> "stamp", chat |-> c, as |-> conversation[c]])
  /\ UNCHANGED consultationVars

StampRead(h) ==
  /\ At(h, "stamp")
  /\ now' = now + 1
  /\ Proceed(h, [call[h] EXCEPT !.at = "mark", !.as.readAt = now'])
  /\ UNCHANGED <<conversation, inquiry, message, mails, faults>>

MarkRead(h) ==
  /\ At(h, "mark")
  /\ SaveConversation(call[h].chat, call[h].as)
  /\ Ends(h)
  /\ UNCHANGED <<inquiry, message, now, mails, faults>>

----------------------------------------------------------------------------
(* Managers *)

Assigned(row, m) == [row EXCEPT !.by = m, !.status = IF @ = "open" THEN "assigned" ELSE @]

\* Claim, and the claim that a reply begins with. A manager who has it assigned
\* saves nothing. An inquiry that is closed may be replied to as well.
BeginDesk(h, i, m, replies) ==
  LET mine == inquiry[i].by = m /\ inquiry[i].status = "assigned"
  IN
  /\ Takes(h, "desk")
  /\ mine => replies
  /\ Turn(h, [at |-> IF mine THEN "compose" ELSE "assign",
              inquiry |-> i, row |-> Assigned(inquiry[i], m), replies |-> replies])
  /\ UNCHANGED consultationVars

Assign(h) ==
  LET i == call[h].inquiry
  IN
  /\ At(h, "assign")
  /\ SaveInquiry(i, call[h].row)
  /\ IF call[h].replies /\ OneOpenAllows(i, call[h].row)
       THEN Proceed(h, [call[h] EXCEPT !.at = "compose"]) ELSE Ends(h)
  /\ UNCHANGED <<conversation, message, now, mails, faults>>

ReplyOf(c, draft) == [at |-> "reply", inquiry |-> c.inquiry, row |-> c.row, draft |-> draft]

\* On the web the reply gets its time stamp; Telegram is asked to deliver it,
\* and the shopper may have blocked the bot.
Compose(h) ==
  LET c == call[h].row.chat
      Draft(stamp, ok) == [chat |-> c, inquiry |-> call[h].inquiry, reply |-> TRUE, at |-> stamp,
                           delivered |-> ok, notice |-> IF c \in WebChats THEN "pending" ELSE "none"]
  IN
  /\ At(h, "compose")
  /\ \/ /\ c \in WebChats
        /\ now' = now + 1
        /\ Proceed(h, ReplyOf(call[h], Draft(now', TRUE)))
     \/ /\ c \in BotChats
        /\ \E ok \in BOOLEAN : Proceed(h, ReplyOf(call[h], Draft(0, ok)))
        /\ UNCHANGED now
  /\ UNCHANGED <<conversation, inquiry, message, mails, faults>>

\* Slip: whether the bot delivered it is not asked.
CountsAsAnswerAnyway(c) == c.row.status = "assigned"

CountsAsAnswer(c) == c.row.status = "assigned" /\ c.draft.delivered

Reply(h) ==
  /\ At(h, "reply")
  /\ AppendMessage(call[h].draft)
  /\ IF CountsAsAnswer(call[h])
       THEN Proceed(h, [at |-> "answered", inquiry |-> call[h].inquiry, row |-> call[h].row])
       ELSE Ends(h)
  /\ UNCHANGED <<conversation, inquiry, now, mails, faults>>

Answered(h) ==
  /\ At(h, "answered")
  /\ SaveInquiry(call[h].inquiry, [call[h].row EXCEPT !.status = "answered"])
  /\ Ends(h)
  /\ UNCHANGED <<conversation, message, now, mails, faults>>

----------------------------------------------------------------------------
(* Closing *)

Closed(row, m) == [row EXCEPT !.status = "closed", !.by = IF @ = Nobody THEN m ELSE @]

\* A manager, or the shopper on the web, ends an inquiry that is open.
BeginClose(h, i, m) ==
  /\ inquiry[i].status # "closed"
  /\ IF m = Nobody THEN Takes(h, "end") /\ inquiry[i].chat \in WebChats ELSE Takes(h, "desk")
  /\ Turn(h, [at |-> "close", rows |-> [j \in {i} |-> Closed(inquiry[j], m)]])
  /\ UNCHANGED consultationVars

\* CloseStale lists what has been quiet for seven days.
BeginSweep(stale) ==
  /\ At("closer", "idle")
  /\ stale # {} /\ \A i \in stale : inquiry[i].status # "closed"
  /\ Counts
  /\ Turn("closer", [at |-> "close", rows |-> [i \in stale |-> Closed(inquiry[i], Nobody)]])
  /\ UNCHANGED consultationVars

\* One row after the other, as read.
CloseInquiry(a, i) ==
  LET rows == call[a].rows
      rest == DOMAIN rows \ {i}
  IN
  /\ At(a, "close") /\ i \in DOMAIN rows
  /\ SaveInquiry(i, rows[i])
  /\ IF rest = {} THEN Ends(a) ELSE Proceed(a, [call[a] EXCEPT !.rows = [j \in rest |-> rows[j]]])
  /\ UNCHANGED <<conversation, message, now, mails, faults>>

----------------------------------------------------------------------------
(* SendDueNotices *)

Pending == {m \in DOMAIN message : message[m].notice = "pending"}

Newest(replies) == CHOOSE m \in replies : \A k \in replies : message[k].at <= message[m].at

\* The replies that are due are those up to some time.
ListDue(upTo) ==
  LET due == {m \in Pending : message[m].at <= upTo}
  IN
  /\ At("notices", "idle") /\ due # {}
  /\ Proceed("notices", [at |-> "look", due |-> due])
  /\ UNCHANGED consultationVars

UnreadBy(m, readAt) == message[m].reply /\ message[m].at > readAt

NeedsNotice(c, m) ==
  /\ UnreadBy(m, c.readAt)
  /\ c.notifiedAt = 0 \/ c.notifiedAt < c.readAt

\* What is left of the batch once the replies in done are dealt with.
NextGroup(done) ==
  LET rest == call["notices"].due \ done
  IN  IF rest = {} THEN Idle ELSE [at |-> "look", due |-> rest]

Fails == faults < MaxFaults /\ faults' = faults + 1

Verdict(ids, status, c) == [at |-> "verdict", due |-> call["notices"].due, ids |-> ids,
                            status |-> status, as |-> c]

\* Slip: replies that need no notice get no status.
LookPassesOver(c) ==
  LET ids == {m \in call["notices"].due : message[m].chat = c}
      as  == conversation[c]
  IN
  /\ At("notices", "look") /\ ids # {}
  /\ Proceed("notices", IF NeedsNotice(as, Newest(ids)) /\ as.email THEN Verdict(ids, "mail", as)
                                                                    ELSE NextGroup(ids))
  /\ UNCHANGED consultationVars

\* One conversation's replies: the newest decides for all of them.
Look(c) ==
  LET ids == {m \in call["notices"].due : message[m].chat = c}
      as  == conversation[c]
  IN
  /\ At("notices", "look") /\ ids # {}
  /\ Proceed("notices", Verdict(ids, IF NeedsNotice(as, Newest(ids)) /\ as.email THEN "mail"
                                                                        ELSE "skipped", as))
  /\ UNCHANGED consultationVars

\* The conversation cannot be read: its replies count as skipped.
LookFails(c) ==
  LET ids == {m \in call["notices"].due : message[m].chat = c}
  IN
  /\ At("notices", "look") /\ ids # {} /\ Fails
  /\ Proceed("notices", Verdict(ids, "skipped", conversation[c]))
  /\ UNCHANGED <<conversation, inquiry, message, now, mails>>

\* The email goes out, and the time is taken.
Mail ==
  LET job == call["notices"]
  IN
  /\ At("notices", "verdict") /\ job.status = "mail"
  /\ now' = now + 1
  /\ mails' = Append(mails, [ids |-> job.ids, settled |-> FALSE])
  /\ Proceed("notices", [job EXCEPT !.at = "record", !.as.notifiedAt = now'])
  /\ UNCHANGED <<conversation, inquiry, message, faults>>

MailRefused ==
  /\ At("notices", "verdict") /\ call["notices"].status = "mail" /\ Fails
  /\ Proceed("notices", [call["notices"] EXCEPT !.status = "failed"])
  /\ UNCHANGED <<conversation, inquiry, message, now, mails>>

\* The conversation is saved as read, with the new mark; or that fails.
RecordNotice ==
  LET job == call["notices"]
  IN
  /\ At("notices", "record")
  /\ \/ SaveConversation(message[Newest(job.ids)].chat, job.as) /\ UNCHANGED faults
     \/ Fails /\ UNCHANGED conversation
  /\ Proceed("notices", [job EXCEPT !.at = "verdict", !.status = "sent"])
  /\ UNCHANGED <<inquiry, message, now, mails>>

\* Slip: only the reply that decided gets the status.
SettledRepliesLatest(ids) == {Newest(ids)}

SettledReplies(ids) == ids

SetNoticeStatus ==
  LET job == call["notices"]
      set == SettledReplies(job.ids)
  IN
  /\ At("notices", "verdict") /\ job.status # "mail"
  /\ message' = [m \in DOMAIN message |-> IF m \in set THEN [message[m] EXCEPT !.notice = job.status]
                                                       ELSE message[m]]
  /\ mails' = IF job.status = "sent" THEN [mails EXCEPT ![Len(mails)].settled = TRUE] ELSE mails
  /\ Proceed("notices", NextGroup(job.ids))
  /\ UNCHANGED <<conversation, inquiry, now, faults>>

\* The process dies between two steps, or the last statement fails.
NoticesDie ==
  /\ ~ At("notices", "idle") /\ Fails
  /\ Ends("notices")
  /\ UNCHANGED <<conversation, inquiry, message, now, mails>>

----------------------------------------------------------------------------
(* A deleted customer: the inquiry is closed, the words purged, the email dropped *)

BeginErase(c) ==
  /\ At("eraser", "idle") /\ c \in WebChats
  /\ Counts
  /\ Turn("eraser",
       IF ~ conversation[c].here THEN [at |-> "questions", chat |-> c]
       ELSE IF OpenOf(c) = {} THEN [at |-> "forget", chat |-> c]
       ELSE LET i == CHOOSE i \in OpenOf(c) : TRUE
            IN [at |-> "end", chat |-> c, inquiry |-> i, row |-> [inquiry[i] EXCEPT !.status = "closed"]])
  /\ UNCHANGED consultationVars

EraserCloses ==
  /\ At("eraser", "end")
  /\ SaveInquiry(call["eraser"].inquiry, call["eraser"].row)
  /\ Proceed("eraser", [at |-> "forget", chat |-> call["eraser"].chat])
  /\ UNCHANGED <<conversation, message, now, mails, faults>>

ForgetEmail ==
  LET c == call["eraser"].chat
  IN
  /\ At("eraser", "forget")
  /\ conversation' = [conversation EXCEPT ![c].email = FALSE]
  /\ Proceed("eraser", [at |-> "questions", chat |-> c])
  /\ UNCHANGED <<inquiry, message, now, mails, faults>>
============================================================================
