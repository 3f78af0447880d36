----------------------------- MODULE MCTelegram -----------------------------
(* Two services with a Telegram bot of their own that share nothing: the      *)
(* desk, at an installation without tasks, or the alerts of a shop whose      *)
(* desk nobody serves.                                                       *)
EXTENDS Support, Alerts

CONSTANTS private, group, ann, t1, t2, m1, m2

mcChat    == {private, group}
mcSender  == [c \in mcChat |-> ann]

NoDesk    == [h1 |-> {}, h2 |-> {}]
mcRosters == {[h1 |-> {"send", "read"}, h2 |-> {"desk"}],
              [h1 |-> {"send"}, h2 |-> {"send", "end"}],
              [h1 |-> {"desk"}, h2 |-> {"desk"}],
              [h1 |-> {"ask", "answer"}, h2 |-> {"ask", "answer"}],
              NoDesk}

(* No alerts; one alert while managers change its chats, and one that may     *)
(* find the table unreadable; lists through a deploy; one /start message of   *)
(* a user, and two.                                                         *)
NoAlerts == [env |-> {}, tasks |-> {}, msgs |-> {}, manual |-> {}, flags |-> {TRUE},
             changes |-> 0, stops |-> 0, misses |-> 0, alerts |-> 0]
mcInstallations ==
  {NoAlerts,
   [NoAlerts EXCEPT !.env = {group}, !.tasks = {t1, t2}, !.changes = 2, !.alerts = 1],
   [NoAlerts EXCEPT !.env = {group}, !.tasks = {t1}, !.flags = BOOLEAN, !.changes = 2, !.misses = 1, !.alerts = 1],
   [NoAlerts EXCEPT !.env = {group}, !.tasks = {t1, t2}, !.changes = 2, !.stops = 1, !.misses = 1],
   [NoAlerts EXCEPT !.tasks = {t1}, !.msgs = {m1}, !.manual = {ann}, !.changes = 2],
   [NoAlerts EXCEPT !.tasks = {t1}, !.msgs = {m1, m2}, !.manual = {ann}, !.changes = 1]}

MCInit == SupportInit /\ AlertsInit /\ (site = NoAlerts <=> roster # NoDesk) /\ (site # NoAlerts => inquiry = <<>>)

MCNext ==
  \/ site = NoAlerts /\ SupportNext /\ UNCHANGED alertVars
  \/ site # NoAlerts /\ AlertsNext /\ UNCHANGED vars

MCSpec == MCInit /\ [][MCNext]_<<vars, alertVars>> /\ NoticeFairness /\ AlertsFairness
============================================================================
