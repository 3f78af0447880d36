------------------------------ MODULE Support -------------------------------
(***************************************************************************)
(* The support service: consultations and product questions side by side,  *)
(* with the work on a deleted customer that runs through both.             *)
(***************************************************************************)
EXTENDS Consultation, ProductQuestions

vars == <<callVars, consultationVars, questionVars>>

SupportInit == CallsInit /\ ConsultationInit /\ QuestionsInit

Consults(h) ==
  \/ \E c \in Chats, what \in {"send", "type", "tap"} : BeginWrite(h, c, what)
  \/ Touch(h) \/ Seek(h) \/ OpenInquiry(h) \/ File(h)
  \/ \E c \in WebChats : BeginRead(h, c)
  \/ StampRead(h) \/ MarkRead(h)
  \/ \E i \in DOMAIN inquiry, m \in Managers, replies \in BOOLEAN : BeginDesk(h, i, m, replies)
  \/ Assign(h) \/ Compose(h) \/ Reply(h) \/ Answered(h)
  \/ \E i \in DOMAIN inquiry, m \in Managers \cup {Nobody} : BeginClose(h, i, m)
  \/ At(h, "close") /\ \E i \in DOMAIN call[h].rows : CloseInquiry(h, i)

Sweeps ==
  \/ \E stale \in SUBSET DOMAIN inquiry : BeginSweep(stale)
  \/ At("closer", "close") /\ \E i \in DOMAIN call["closer"].rows : CloseInquiry("closer", i)

Lists    == \E t \in 1 .. now : ListDue(t)
Looks    == \E c \in WebChats : Look(c)
Jobs     == Lists \/ Looks \/ Mail \/ RecordNotice \/ SetNoticeStatus
Notifies == \/ Jobs
            \/ \E c \in WebChats : LookFails(c)
            \/ MailRefused \/ NoticesDie

Erases == \/ \E c \in WebChats : BeginErase(c)
          \/ EraserCloses \/ ForgetEmail

Questions(h) ==
  \/ Ask(h)
  \/ \E q \in DOMAIN question : \/ BeginEdit(h, q) \/ BeginWithdraw(h, q) \/ BeginAnswer(h, q)
                                \/ \E hidden \in BOOLEAN : BeginHide(h, q, hidden)
  \/ SaveQuestion(h) \/ MailAnswer(h) \/ DeleteQuestion(h)

ErasesQuestions ==
  \/ ListQuestions
  \/ At("eraser", "qforget") /\ \E q \in DOMAIN call["eraser"].rows : ForgetQuestion(q)

ConsultationNext ==
  /\ \/ \E h \in Handlers : Consults(h)
     \/ Sweeps \/ Notifies \/ Erases
  /\ UNCHANGED questionVars

QuestionsNext ==
  /\ \/ \E h \in Handlers : Questions(h)
     \/ ErasesQuestions
  /\ UNCHANGED consultationVars

SupportNext == ConsultationNext \/ QuestionsNext

\* The notice job ticks every minute and works its list off.
NoticeFairness == WF_vars(Jobs /\ UNCHANGED questionVars)

SupportSpec == SupportInit /\ [][SupportNext]_vars /\ NoticeFairness

----------------------------------------------------------------------------
(* An inquiry counts as answered only if a reply in it reached the shopper, *)
(* whoever took it over, closed it or saved it as read long ago, and        *)
(* whatever Telegram refused: TestAnUndeliverableReplyDoesNotMarkTheInquiryAnswered. *)
AnsweredWasReached ==
  \A i \in DOMAIN inquiry :
    inquiry[i].status = "answered" =>
      \E m \in DOMAIN message : message[m].reply /\ message[m].delivered /\ message[m].inquiry = i

(* A shopper whose question shows an answer, and whose address is still     *)
(* there, was told, unless somebody is about to: whichever of the edits,    *)
(* answers, hidings and erasures under way saves its copy of the row last.  *)
AnsweredWasMailed ==
  \A q \in DOMAIN question :
    Held(q) /\ question[q].answered /\ question[q].email =>
      \/ q \in mailed
      \/ \E h \in Handlers : At(h, "qmail") /\ call[h].question = q

(* Answered means told, on either side of the desk.                         *)
AnsweredWasTold == AnsweredWasReached /\ AnsweredWasMailed

(* No reply is mailed about twice, unless the job could not write down what *)
(* became of the first email: the batch it listed, the read mark and the    *)
(* notified mark are all read earlier, and saved over by other requests.    *)
MailedOncePerReply ==
  \A i, j \in DOMAIN mails :
    i < j /\ mails[i].ids \cap mails[j].ids # {} => ~ mails[i].settled

(* Every reply on the web is dealt with: mailed, refused, or skipped;  *)
(* whenever one waits, there comes a moment when none does.                 *)
NoticeIsDecided == Pending # {} ~> Pending = {}

----------------------------------------------------------------------------
(* Statements of the docs that do not hold (see README).                    *)

(* "The next notice can only follow a read" (docs/support-web-chat.md:94).  *)
NoticeFollowsRead ==
  [][\A c \in WebChats : conversation[c].here => conversation'[c].notifiedAt >= conversation[c].notifiedAt]_vars

(* "An answered question can no longer be changed" by its author            *)
(* (product_questions.go:29): an edit that read it before writes it back.   *)
AnsweredIsLocked ==
  [][\A q \in DOMAIN question : Held(q) /\ question[q].answered => question'[q].here /\ question'[q].answered]_vars
============================================================================
