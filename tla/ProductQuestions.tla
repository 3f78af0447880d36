-------------------------- MODULE ProductQuestions --------------------------
(***************************************************************************)
(* Questions shoppers ask about a product from its page: one table, every  *)
(* row read, changed and saved whole by whoever asks, edits, answers,      *)
(* hides or erases it. Save is an upsert, so it also brings back a row     *)
(* that was withdrawn since.                                               *)
(*                                                                         *)
(* Of a row the model keeps whether the shopper's address is there,        *)
(* whether it is answered and whether it is hidden; the words and their    *)
(* purge are left out. The owner and the staff are any request; the type,  *)
(* the variant and its check in the catalog are left out.                  *)
(***************************************************************************)
EXTENDS SupportCalls

CONSTANT MaxQuestions   \* bound: questions

ASSUME QuestionsAssumption == MaxQuestions \in Nat

VARIABLES
  question,   \* support_product_questions, by id
  mailed      \* history: questions whose answer was mailed (or tried)

questionVars == <<question, mailed>>

NoQuestion == [here |-> FALSE]
Asked      == [here |-> TRUE, email |-> TRUE, answered |-> FALSE, hidden |-> FALSE]

QuestionsInit == question = <<>> /\ mailed = {}

Held(q) == q \in DOMAIN question /\ question[q].here

Ask(h) ==
  /\ Takes(h, "ask") /\ Len(question) < MaxQuestions
  /\ question' = Append(question, Asked)
  /\ UNCHANGED <<call, roster, mailed>>

SaveOf(q, row, mail) == [at |-> "qsave", question |-> q, row |-> row, mail |-> mail]

\* The shopper's own, while it is not answered.
BeginEdit(h, q) ==
  /\ Takes(h, "ask") /\ Held(q) /\ ~ question[q].answered
  /\ Turn(h, SaveOf(q, question[q], FALSE))
  /\ UNCHANGED questionVars

BeginWithdraw(h, q) ==
  /\ Takes(h, "ask") /\ Held(q) /\ ~ question[q].answered
  /\ Turn(h, [at |-> "qdelete", question |-> q])
  /\ UNCHANGED questionVars

BeginHide(h, q, hidden) ==
  /\ Takes(h, "answer") /\ Held(q)
  /\ Turn(h, SaveOf(q, [question[q] EXCEPT !.hidden = hidden], FALSE))
  /\ UNCHANGED questionVars

FirstAnswer(row) == ~ row.answered

\* A correction is not mailed.
BeginAnswer(h, q) ==
  /\ Takes(h, "answer") /\ Held(q)
  /\ Turn(h, SaveOf(q, [question[q] EXCEPT !.answered = TRUE], FirstAnswer(question[q])))
  /\ UNCHANGED questionVars

SaveQuestion(h) ==
  LET c == call[h]
  IN
  /\ At(h, "qsave")
  /\ question' = [question EXCEPT ![c.question] = c.row]
  /\ IF c.mail /\ c.row.email THEN Proceed(h, [at |-> "qmail", question |-> c.question]) ELSE Ends(h)
  /\ UNCHANGED mailed

MailAnswer(h) ==
  /\ At(h, "qmail")
  /\ mailed' = mailed \cup {call[h].question}
  /\ Ends(h)
  /\ UNCHANGED question

DeleteQuestion(h) ==
  /\ At(h, "qdelete")
  /\ question' = [question EXCEPT ![call[h].question] = NoQuestion]
  /\ Ends(h)
  /\ UNCHANGED mailed

\* ForgetCustomer: the customer's questions are listed, then saved one by one.
ListQuestions ==
  LET listed == {q \in DOMAIN question : question[q].here}
  IN
  /\ At("eraser", "questions")
  /\ Proceed("eraser",
       IF listed = {} THEN Idle
       ELSE [at |-> "qforget", rows |-> [q \in listed |-> [question[q] EXCEPT !.email = FALSE]]])
  /\ UNCHANGED questionVars

ForgetQuestion(q) ==
  LET rows == call["eraser"].rows
      rest == DOMAIN rows \ {q}
  IN
  /\ At("eraser", "qforget") /\ q \in DOMAIN rows
  /\ question' = [question EXCEPT ![q] = rows[q]]
  /\ Proceed("eraser", IF rest = {} THEN Idle ELSE [at |-> "qforget", rows |-> [p \in rest |-> rows[p]]])
  /\ UNCHANGED mailed
============================================================================
