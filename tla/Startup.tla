------------------------------ MODULE Startup ------------------------------
(***************************************************************************)
(* How a service starts.  There is no migration tool: before it serves, a   *)
(* service changes its schema and its old rows by a list of statements,     *)
(* each committed on its own (the migrate functions of order, cart,         *)
(* product and auth).  The process may die between any two of them; a       *)
(* statement the database refuses ends the process with an error.  Either   *)
(* way Docker starts it again from the first statement.                     *)
(***************************************************************************)
EXTENDS Naturals

CONSTANTS
  Service,       \* processes that migrate, and tools run beside them
  Casts,         \* sets of them that are looked at together
  MaxCrashes,    \* bound on deaths between two statements
  MaxDeploys     \* bound on planned restarts

ASSUME StartupAssumption ==
  /\ {MaxCrashes, MaxDeploys} \subseteq Nat
  /\ Casts \subseteq SUBSET Service

VARIABLES
  at,            \* the statement a process is at, <<name>> or <<name, table>>; Down; Serving
  crashes, deploys,
  refused        \* history: <<service, why>> of statements the database refused

Down    == <<"down">>
Serving == <<"up">>

startupVars == <<at, crashes, deploys, refused>>

StartupInit ==
  /\ \E cast \in Casts : at = [s \in Service |-> IF s \in cast THEN Down ELSE <<"absent">>]
  /\ crashes = 0
  /\ deploys = 0
  /\ refused = {}

Goto(s, next) == at' = [at EXCEPT ![s] = next]

BeginStart(s, first) == at[s] = Down /\ Goto(s, first) /\ UNCHANGED <<crashes, deploys, refused>>

\* The statement at "here" is carried out; what it changes is the caller's to say.
Run(s, here, next) == at[s] = here /\ Goto(s, next) /\ UNCHANGED <<crashes, deploys, refused>>

Refuse(s, here, why) ==
  /\ at[s] = here
  /\ Goto(s, Down)
  /\ refused' = refused \cup {<<s, why>>}
  /\ UNCHANGED <<crashes, deploys>>

Up(s) == at[s] = Serving

\* A deploy stops a process that serves; nothing is under way then.
Redeploy(s) ==
  /\ Up(s)
  /\ deploys < MaxDeploys
  /\ deploys' = deploys + 1
  /\ Goto(s, Down)
  /\ UNCHANGED <<crashes, refused>>

Crash(s) ==
  /\ at[s] \notin {Down, Serving, <<"absent">>}
  /\ crashes < MaxCrashes
  /\ crashes' = crashes + 1
  /\ Goto(s, Down)
  /\ UNCHANGED <<deploys, refused>>
============================================================================
