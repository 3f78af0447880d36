------------------------------- MODULE Wallet -------------------------------
(***************************************************************************)
(* Promotional codes for one account: definitions that managers write, the  *)
(* entitlements that give an account the right to a single-user code, and   *)
(* the three that grant them: the subscriber to registrations, a tool that   *)
(* reaches older accounts, and managers.  The column that says which codes   *)
(* a registration grants is added when product is deployed.                 *)
(*                                                                         *)
(* Of a definition only the fields are kept that are checked together or     *)
(* that an entitlement depends on.                                          *)
(***************************************************************************)
EXTENDS Startup

CONSTANTS
  Server, Tool,           \* product and the tool; both run the migration
  Manager, Customer, Code,
  SignUpCode,             \* WELCOME50, the campaign of older deploys
  InitDefs,               \* definitions there are before the deploy
  ToolCodes,              \* codes the tool is run for
  HandKeys,               \* trigger keys managers send; "manager" stands for none
  NewDefs, Patches,       \* definitions and partial updates managers send
  Never,                  \* no expiry
  None,                   \* no value
  MaxClock, MaxRequests, MaxDeliveries, MaxFaults   \* bounds on days, managers' requests, deliveries, failed statements

Fields == {"scope", "tier", "auto", "capped", "active", "ttl", "ends"}

ASSUME WalletAssumption ==
  /\ {MaxClock, MaxRequests, MaxDeliveries, MaxFaults} \subseteq Nat
  /\ {Server, Tool} \subseteq Service /\ Server # Tool
  /\ Manager \cap {"event", "tool"} = {}
  /\ SignUpCode \in Code
  /\ DOMAIN InitDefs \subseteq Code /\ ToolCodes \subseteq Code
  /\ \A p \in Patches : DOMAIN p \subseteq Fields

VARIABLES
  def,         \* promotions
  column,      \* promotions.auto_issue exists
  marked,      \* history: the sign-up campaign was carried over
  early,       \* history: the other starts that had found no column by then
  edit,        \* per manager: an update between its statements
  ent,         \* customer_promotions, by <<code, customer, trigger key>>
  insert,      \* per actor: the entitlement it is about to insert
  registered,  \* accounts auth has
  event,       \* the handler of user.registered
  users,       \* accounts the tool has yet to reach
  toolCode,    \* the code it was started with
  clock,       \* days
  requests, deliveries, faults

campaignVars == <<def, column, marked, early, edit, ent, insert, registered, event, users, toolCode,
                  clock, requests, deliveries, faults>>
walletVars == <<startupVars, campaignVars>>
dbVars     == <<def, column, marked, early, ent>>
jobVars    == <<edit, insert, event, users, toolCode>>
worldVars  == <<registered, clock, deliveries, faults>>

Issuer == {"event", "tool"} \cup Manager

NoEdit  == [step |-> "idle", code |-> None, patch |-> None, row |-> None]
NoEvent == [user |-> None, todo |-> {}, failed |-> {}, always |-> {}]

WalletInit ==
  /\ StartupInit
  /\ def = InitDefs
  /\ column = FALSE
  /\ marked = FALSE
  /\ early = {}
  /\ edit = [m \in Manager |-> NoEdit]
  /\ ent = [k \in {} |-> None]
  /\ insert = [a \in Issuer |-> None]
  /\ registered = {}
  /\ event = NoEvent
  /\ users = {}
  /\ toolCode = None
  /\ clock = 0
  /\ requests = 0
  /\ deliveries = 0
  /\ faults = 0

----------------------------------------------------------------------------
(* Definitions.                                                             *)

\* validateDefinition, the rules that join two fields.
Valid(d) ==
  /\ d.auto => d.scope = "single"
  /\ d.tier => d.scope = "single" /\ ~d.capped

Patched(d, p) == [f \in Fields |-> IF f \in DOMAIN p THEN p[f] ELSE d[f]]

\* What a registration grants: a single-user code set to be issued, not past its end.
AutoIssued(defs, now) ==
  {c \in DOMAIN defs : defs[c].auto /\ defs[c].scope = "single" /\ (defs[c].ends = Never \/ now <= defs[c].ends)}

\* The handler under way sees which codes were to be granted all along.
SetDefs(defs) ==
  /\ def' = defs
  /\ event' = [event EXCEPT !.always = @ \cap AutoIssued(defs, clock)]

Request == requests < MaxRequests /\ requests' = requests + 1 /\ Up(Server)

Create(c, d) ==
  /\ Request
  /\ Valid(d)
  /\ c \notin DOMAIN def
  /\ SetDefs([x \in DOMAIN def \cup {c} |-> IF x = c THEN d ELSE def[x]])
  /\ UNCHANGED <<startupVars, column, marked, early, ent, edit, insert, users, toolCode, worldVars>>

Delete(c) ==
  /\ Request
  /\ c \in DOMAIN def
  /\ SetDefs([x \in DOMAIN def \ {c} |-> def[x]])
  /\ UNCHANGED <<startupVars, column, marked, early, ent, edit, insert, users, toolCode, worldVars>>

\* Update judges the definition the patch would make, ...
JudgePatch(m, c, p) ==
  /\ edit[m] = NoEdit
  /\ Request
  /\ c \in DOMAIN def
  /\ Valid(Patched(def[c], p))
  /\ edit' = [edit EXCEPT ![m] = [step |-> "load", code |-> c, patch |-> p, row |-> None]]
  /\ UNCHANGED <<startupVars, dbVars, insert, event, users, toolCode, worldVars>>

\* ... the store reads the row again, ...
LoadRow(m) ==
  /\ edit[m].step = "load"
  /\ edit' = IF edit[m].code \in DOMAIN def
             THEN [edit EXCEPT ![m].step = "write", ![m].row = Patched(def[edit[m].code], edit[m].patch)]
             ELSE [edit EXCEPT ![m] = NoEdit]
  /\ UNCHANGED <<startupVars, dbVars, insert, event, users, toolCode, worldVars, requests>>

\* ... and writes every column of it; a row that is gone is not noticed.
WriteRow(m) ==
  /\ edit[m].step = "write"
  /\ SetDefs([c \in DOMAIN def |-> IF c = edit[m].code THEN edit[m].row ELSE def[c]])
  /\ edit' = [edit EXCEPT ![m] = NoEdit]
  /\ UNCHANGED <<startupVars, column, marked, early, ent, insert, users, toolCode, worldVars, requests>>

----------------------------------------------------------------------------
(* Entitlements.                                                            *)

Key(c, u, trigger) == <<c, u, trigger>>

\* Issue reads the definition, ...
Issuable(c) == c \in DOMAIN def /\ def[c].scope = "single"

Expiry(c) == IF def[c].ttl = 0 THEN Never ELSE clock + def[c].ttl

Prepare(a, k) ==
  /\ insert[a] = None
  /\ Issuable(k[1])
  /\ insert' = [insert EXCEPT ![a] = [key |-> k, until |-> Expiry(k[1])]]

\* ... and inserts, unless the trigger key is there.
Grant(k, until) ==
  ent' = IF k \in DOMAIN ent THEN ent
         ELSE [j \in DOMAIN ent \cup {k} |-> IF j = k THEN [until |-> until, revoked |-> FALSE] ELSE ent[j]]

Granted(a) ==
  /\ insert[a] # None
  /\ Grant(insert[a].key, insert[a].until)
  /\ insert' = [insert EXCEPT ![a] = None]

\* A manager's issue, with a trigger key of its own or one per customer and code.
IssueByHand(m, c, u) ==
  /\ Request
  /\ \E trigger \in HandKeys : Prepare(m, Key(c, u, trigger))
  /\ UNCHANGED <<startupVars, dbVars, edit, event, users, toolCode, worldVars>>

GrantByHand(m) ==
  /\ Granted(m)
  /\ UNCHANGED <<startupVars, def, column, marked, early, edit, event, users, toolCode, worldVars, requests>>

Revoke(k) ==
  /\ Request
  /\ k \in DOMAIN ent /\ ~ent[k].revoked
  /\ ent' = [ent EXCEPT ![k].revoked = TRUE]
  /\ UNCHANGED <<startupVars, def, column, marked, early, jobVars, worldVars>>

----------------------------------------------------------------------------
(* The subscriber.  An event comes once, again, or never: it is republished  *)
(* after a failed publish, and lost while product is down.                  *)

Register(u) ==
  /\ u \notin registered
  /\ registered' = registered \cup {u}
  /\ UNCHANGED <<startupVars, dbVars, jobVars, clock, requests, deliveries, faults>>

Deliver(u) ==
  /\ Up(Server)
  /\ event = NoEvent
  /\ u \in registered
  /\ deliveries < MaxDeliveries
  /\ deliveries' = deliveries + 1
  /\ LET codes == AutoIssued(def, clock) IN
       event' = [user |-> u, todo |-> codes, failed |-> {}, always |-> codes]
  /\ UNCHANGED <<startupVars, dbVars, edit, insert, users, toolCode, registered, clock, faults, requests>>

\* Slip: the first code that cannot be issued ends the handler.
GiveUp(c) == event' = [event EXCEPT !.todo = {}, !.failed = @ \cup {c}]

\* "One broken campaign must not cost the customer the others."
PutAside(c) == event' = [event EXCEPT !.todo = @ \ {c}, !.failed = @ \cup {c}]

TakeCode(c) ==
  /\ event.user # None /\ c \in event.todo
  /\ \/ Prepare("event", Key(c, event.user, "user.registered")) /\ UNCHANGED event
     \/ insert["event"] = None /\ ~Issuable(c) /\ PutAside(c) /\ UNCHANGED insert
  /\ UNCHANGED <<startupVars, dbVars, edit, users, toolCode, worldVars, requests>>

GrantByEvent ==
  /\ Granted("event")
  /\ event' = [event EXCEPT !.todo = @ \ {insert["event"].key[1]}]
  /\ UNCHANGED <<startupVars, def, column, marked, early, edit, users, toolCode, worldVars, requests>>

InsertFails ==
  /\ insert["event"] # None
  /\ faults < MaxFaults
  /\ faults' = faults + 1
  /\ PutAside(insert["event"].key[1])
  /\ insert' = [insert EXCEPT !["event"] = None]
  /\ UNCHANGED <<startupVars, dbVars, edit, users, toolCode, registered, clock, deliveries, requests>>

Handled == event.user # None /\ event.todo = {} /\ insert["event"] = None

EventDone ==
  /\ Handled
  /\ event' = NoEvent
  /\ UNCHANGED <<startupVars, dbVars, edit, insert, users, toolCode, worldVars, requests>>

----------------------------------------------------------------------------
(* Product and the tool start: both look for the column (migrateAutoIssue). *)

Starts(s) ==
  /\ BeginStart(s, <<"look">>)
  /\ early' = early \ {s}
  /\ UNCHANGED <<def, column, marked, ent>>

----------------------------------------------------------------------------
(* The tool (backfill-welcome-promotion): it asks auth for the accounts,     *)
(* opens the store, which migrates, and issues to one account at a time.    *)

\* Nothing has it wait for product to have started.
ToolFetch(c) ==
  /\ Starts(Tool)
  /\ users' = registered
  /\ toolCode' = c
  /\ UNCHANGED <<edit, insert, event, worldVars, requests>>

ToolChecks ==
  /\ IF Issuable(toolCode) THEN Run(Tool, <<"check">>, Serving) ELSE Run(Tool, <<"check">>, <<"ended">>)
  /\ UNCHANGED <<dbVars, jobVars, worldVars, requests>>

ToolTakes(u) ==
  /\ Up(Tool) /\ u \in users
  /\ \/ Prepare("tool", Key(toolCode, u, "backfill")) /\ UNCHANGED users
     \/ insert["tool"] = None /\ ~Issuable(toolCode) /\ users' = users \ {u} /\ UNCHANGED insert
  /\ UNCHANGED <<startupVars, dbVars, edit, event, toolCode, worldVars, requests>>

GrantByTool ==
  /\ Granted("tool")
  /\ users' = users \ {insert["tool"].key[2]}
  /\ UNCHANGED <<startupVars, def, column, marked, early, edit, event, toolCode, worldVars, requests>>

ToolEnds ==
  /\ users = {} /\ insert["tool"] = None
  /\ Redeploy(Tool)
  /\ UNCHANGED <<dbVars, jobVars, worldVars, requests>>

----------------------------------------------------------------------------
(* The deploy (migrateAutoIssue).                                           *)

Ready(s) == IF s = Tool THEN <<"check">> ELSE Serving

BeginDeploy ==
  /\ Starts(Server)
  /\ UNCHANGED <<jobVars, worldVars, requests>>

\* Slip: the campaign is marked at every start.
LookAlways(s) ==
  /\ Run(s, <<"look">>, <<"alter">>)
  /\ UNCHANGED <<dbVars, jobVars, worldVars, requests>>

LookForColumn(s) ==
  /\ Run(s, <<"look">>, IF column THEN Ready(s) ELSE <<"alter">>)
  /\ UNCHANGED <<dbVars, jobVars, worldVars, requests>>

AddColumn(s) ==
  /\ Run(s, <<"alter">>, <<"mark">>)
  /\ column' = TRUE
  /\ UNCHANGED <<def, marked, early, ent, jobVars, worldVars, requests>>

MarkCampaign(s) ==
  /\ Run(s, <<"mark">>, Ready(s))
  /\ SetDefs([c \in DOMAIN def |-> IF c = SignUpCode /\ def[c].scope = "single" THEN [def[c] EXCEPT !.auto = TRUE] ELSE def[c]])
  /\ marked' = TRUE
  /\ early' = IF marked THEN early \ {s} ELSE {u \in {Server, Tool} \ {s} : at[u] \in {<<"alter">>, <<"mark">>}}
  /\ UNCHANGED <<column, ent, edit, insert, users, toolCode, worldVars, requests>>

StartDies(s) ==
  /\ Crash(s)
  /\ UNCHANGED <<dbVars, jobVars, worldVars, requests>>

\* Whatever product was doing is lost with it.
StopProduct ==
  /\ Redeploy(Server)
  /\ edit' = [m \in Manager |-> NoEdit]
  /\ insert' = [a \in Issuer |-> IF a = "tool" THEN insert[a] ELSE None]
  /\ event' = NoEvent
  /\ UNCHANGED <<dbVars, users, toolCode, worldVars, requests>>

Tick ==
  /\ clock < MaxClock
  /\ clock' = clock + 1
  /\ event' = [event EXCEPT !.always = @ \cap AutoIssued(def, clock + 1)]
  /\ UNCHANGED <<startupVars, dbVars, edit, insert, users, toolCode, registered, requests, deliveries, faults>>

----------------------------------------------------------------------------
WalletNext ==
  \/ \E c \in Code : Delete(c) \/ \E d \in NewDefs : Create(c, d)
  \/ \E m \in Manager, c \in Code :
       \/ \E p \in Patches : JudgePatch(m, c, p)
       \/ \E u \in Customer : IssueByHand(m, c, u)
  \/ \E m \in Manager : LoadRow(m) \/ WriteRow(m) \/ GrantByHand(m)
  \/ \E k \in DOMAIN ent : Revoke(k)
  \/ \E u \in Customer : Register(u) \/ Deliver(u) \/ ToolTakes(u)
  \/ \E c \in Code : TakeCode(c)
  \/ \E c \in ToolCodes : ToolFetch(c)
  \/ GrantByEvent \/ InsertFails \/ EventDone
  \/ ToolChecks \/ GrantByTool \/ ToolEnds
  \/ BeginDeploy \/ StopProduct
  \/ \E s \in {Server, Tool} : LookForColumn(s) \/ AddColumn(s) \/ MarkCampaign(s) \/ StartDies(s)
  \/ Tick

WalletSpec == WalletInit /\ [][WalletNext]_walletVars

----------------------------------------------------------------------------
(* A new account gets every code that was to be granted all along, or the    *)
(* log says which could not be issued (WelcomePromotionIssuer.Handle).       *)
SignUpServed ==
  Handled => \A c \in event.always \ event.failed : Key(c, event.user, "user.registered") \in DOMAIN ent

(* What was withdrawn stays withdrawn.  Once the campaign was carried over, a *)
(* code is set to be issued again only by a manager who saves a row that says  *)
(* so, or by product or the tool when it had found no column just before the   *)
(* other carried the campaign over: no later deploy and no later run of the    *)
(* tool does it.  And a second delivery, a second run or a second click brings no   *)
(* entitlement back: it keeps its expiry, and one that was revoked stays       *)
(* revoked (migrateAutoIssue, Issue).                                          *)
SetsFlag(c) == \E m \in Manager : edit[m].step = "write" /\ edit[m].code = c /\ edit[m].row.auto

WithdrawnStays ==
  [][/\ \A c \in DOMAIN def \cap DOMAIN def' :
          marked /\ def'[c].auto /\ ~def[c].auto =>
            SetsFlag(c) \/ \E s \in early : at[s] = <<"mark">> /\ at'[s] # at[s]
     /\ \A k \in DOMAIN ent :
          k \in DOMAIN ent' /\ ent'[k].until = ent[k].until /\ (ent[k].revoked => ent'[k].revoked)]_walletVars

----------------------------------------------------------------------------
(* Statements of comments that do not hold (see README).                     *)

(* "a partial update that would leave the definition invalid must be refused *)
(* before it is written" (promotion_service.go:86).                          *)
DefinitionsValid == \A c \in DOMAIN def : Valid(def[c])

(* "Omitted fields keep their value" (promotion_scan.go:85).                 *)
OmittedKept ==
  [][\A m \in Manager :
       edit[m].step = "write" /\ edit'[m] = NoEdit /\ edit[m].code \in DOMAIN def' /\ Up(Server) /\ Up(Server)' =>
         \A f \in Fields \ DOMAIN edit[m].patch : def'[edit[m].code][f] = def[edit[m].code][f]]_walletVars

(* "an environment that already has that row is marked once, the first time  *)
(* the column appears, and new sign-ups keep getting it"                     *)
(* (promotion_store.go:208).                                                *)
CampaignCarriedOver == Up(Server) /\ requests = 0 => SignUpCode \in AutoIssued(def, 0)

(* "a manager who later clears the flag must not see it come back on the     *)
(* next deploy" (promotion_store.go:209).                                   *)
ClearedStaysCleared ==
  [][\A c \in DOMAIN def \cap DOMAIN def' : marked /\ def'[c].auto /\ ~def[c].auto => SetsFlag(c)]_walletVars

(* "re-running issues nothing to accounts that already have it"              *)
(* (backfill-welcome-promotion).                                            *)
BackfillAddsNothing ==
  [][\A k \in DOMAIN ent' \ DOMAIN ent : k[3] = "backfill" => ~\E j \in DOMAIN ent : j[1] = k[1] /\ j[2] = k[2]]_walletVars
============================================================================
