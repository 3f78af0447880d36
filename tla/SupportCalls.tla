---------------------------- MODULE SupportCalls ----------------------------
(***************************************************************************)
(* Work under way in the support service: the requests of shoppers and     *)
(* managers, and the goroutines that close stale inquiries, mail notices   *)
(* of unread replies and erase deleted customers. Whatever a piece of work *)
(* has read and will use later travels in call.                            *)
(***************************************************************************)
EXTENDS Naturals, FiniteSets, SequencesExt

CONSTANTS
  Handlers,     \* requests at a time
  Rosters,      \* who serves which kinds of request: the divisions considered
  MaxRequests   \* bound: requests, passes of the closer and of the eraser

Kinds   == {"send", "read", "end", "desk", "ask", "answer"}
Workers == {"closer", "notices", "eraser"}

ASSUME CallsAssumption ==
  /\ Rosters \subseteq [Handlers -> SUBSET Kinds] /\ MaxRequests \in Nat
  /\ Handlers \cap Workers = {}

VARIABLES
  call,     \* what each handler and worker is doing
  served,   \* requests and passes begun
  roster    \* the division of work, fixed at the start

callVars == <<call, served, roster>>
Actors   == Handlers \cup Workers
Idle     == [at |-> "idle"]

CallsInit == call = [a \in Actors |-> Idle] /\ served = 0 /\ roster \in Rosters

Counts         == served < MaxRequests /\ served' = served + 1
Takes(h, kind) == kind \in roster[h] /\ call[h].at = "idle" /\ Counts

At(a, step)   == call[a].at = step
Turn(a, c)    == call' = [call EXCEPT ![a] = c] /\ UNCHANGED roster
Proceed(a, c) == Turn(a, c) /\ UNCHANGED served
Ends(a)       == Proceed(a, Idle)
============================================================================
