-------------------------- MODULE NodeTransitions --------------------------
(***************************************************************************)
(* The node state document of internal/node/state and the transitions that *)
(* may change it.  The code keeps the document as JSON and a transition as *)
(* a pair (Validate, Patch); here the document is a record of maps and a   *)
(* transition a record whose "type" is the TransitionType of types.go.     *)
(*                                                                         *)
(* A definition whose name ends in _NoXyz or the like (an underscore and   *)
(* what goes wrong) is a mutant: a plausible mistake in the definition     *)
(* before the underscore, which no specification uses.  The model checker  *)
(* puts it in that definition's place to show that a property would catch  *)
(* the mistake.                                                            *)
(*                                                                         *)
(* This module has no variables.  NodeRegistry, HabitatDB and Controller   *)
(* change their state through Accepts and Patch only.                      *)
(***************************************************************************)
EXTENDS Naturals, Functions

CONSTANTS
  UserId,     \* keys of "users"
  RootUser,   \* constants.RootUserID
  Username,   \* user.Username
  RootName,   \* constants.RootUsername
  AppId,      \* keys of "app_installations" (uuids)
  NoApp,      \* the app_id of a rule that belongs to no app
  Package,    \* pairs (RegistryURLBase, RegistryPackageID)
  ProcUuid,   \* the uuid half of a process ID
  RuleId,     \* keys of "reverse_proxy_rules"
  Matcher     \* rule.Matcher

ASSUME RootAssumption == RootUser \in UserId /\ RootName \in Username
ASSUME NoAppAssumption == NoApp \notin AppId

LatestVersion == 8                      \* "v0.0.8"
Driver        == {"docker", "web", "noop"}
RuleType      == {"redirect", "file", "embedded_frontend"}

(***************************************************************************)
(* process.NewID concatenates the driver and a uuid with a colon, and      *)
(* driverFromID splits the ID again.                                       *)
(***************************************************************************)
ProcId          == Driver \X ProcUuid
NewID_SameUuid(drv, u) == <<drv, CHOOSE x \in ProcUuid : TRUE>>
NewID(drv, u)   == <<drv, u>>
DriverFromID(p) == p[1]

User    == [name : Username, did : BOOLEAN]
App     == [user : UserId, pkg : Package, driver : Driver,
            state : {"installing", "installed"}]
NewApp  == [user : UserId, pkg : Package, driver : Driver]   \* to be installed
Process == [app : AppId, user : UserId]
Rule    == [app : AppId \cup {NoApp}, matcher : Matcher, type : RuleType]

IsMap(f, D, R) == DOMAIN f \subseteq D /\ f \in [DOMAIN f -> R]

NoEntries      == [k \in {} |-> k]      \* the empty map

IsNodeState(s) ==
  /\ s = [version |-> s.version, users |-> s.users, apps |-> s.apps,
          procs |-> s.procs, rules |-> s.rules]
  /\ s.version \in 1..LatestVersion
  /\ IsMap(s.users, UserId, User)
  /\ IsMap(s.apps, AppId, App)
  /\ IsMap(s.procs, ProcId, Process)
  /\ IsMap(s.rules, RuleId, Rule)

-----------------------------------------------------------------------------
(***************************************************************************)
(* JSON patch operations on one map of the document: "add", which          *)
(* overwrites, "remove", and several adds at once.                         *)
(***************************************************************************)
Put(f, k, v)   == [x \in DOMAIN f \cup {k} |-> IF x = k THEN v ELSE f[x]]
Drop(f, k)     == Restrict(f, DOMAIN f \ {k})
Overlay(f, by) == [x \in DOMAIN f \cup DOMAIN by |->
                     IF x \in DOMAIN by THEN by[x] ELSE f[x]]

(***************************************************************************)
(* Schema.ValidateState: what the JSON schema of the document's own        *)
(* version asks for.  v0.0.4 introduced driver_config (which the Go struct *)
(* always writes, so no app fits an older schema) and the rules; v0.0.5    *)
(* the DID, v0.0.6 the web driver; up to v0.0.7 a process needs a driver   *)
(* field that the Go struct no longer has.                                 *)
(***************************************************************************)
SchemaDrivers(v) == IF v >= 6 THEN {"docker", "web"} ELSE {"docker"}

SchemaValid(s) ==
  /\ s.version \in 1..LatestVersion
  /\ \A u \in DOMAIN s.users : s.users[u].did => s.version >= 5
  /\ \A a \in DOMAIN s.apps :
        s.version >= 4 /\ s.apps[a].driver \in SchemaDrivers(s.version)
  /\ DOMAIN s.procs # {} => s.version >= 8
  /\ \A r \in DOMAIN s.rules :
        s.version >= 4 /\ s.rules[r].type \in {"redirect", "file"}

(***************************************************************************)
(* The effect of NodeDataMigrations between two versions: going below      *)
(* v0.0.5 clears the DIDs, going below v0.0.4 the rules, and going up to   *)
(* v0.0.4 starts with no rules.  Everything else is copied.                *)
(***************************************************************************)
MigratedData_DropsProcesses(s, target) ==
  [s EXCEPT !.version = target, !.procs = IF target < 8 THEN NoEntries ELSE @]

MigratedData(s, target) ==
  LET goesBelow(v) == target < v /\ v <= s.version
  IN [s EXCEPT !.version = target,
               !.users = IF goesBelow(5)
                         THEN [u \in DOMAIN @ |-> [@[u] EXCEPT !.did = FALSE]]
                         ELSE @,
               !.rules = IF goesBelow(4) \/ (s.version < 4 /\ 4 <= target)
                         THEN NoEntries ELSE @]

(***************************************************************************)
(* Schema.EmptyState: what the chain of up migrations makes of nothing.    *)
(***************************************************************************)
EmptyState == [version |-> LatestVersion, users |-> NoEntries,
               apps |-> NoEntries, procs |-> NoEntries, rules |-> NoEntries]

(***************************************************************************)
(* The state main.go generates at every boot: the root user, each default  *)
(* app installed and with one process of the root user, the default rules. *)
(* uuid is the fresh uuid drawn for each app's process.                    *)
(***************************************************************************)
InitialState(apps, rules, uuid) ==
  LET proc == [a \in DOMAIN apps |-> NewID(apps[a].driver, uuid[a])]
  IN [version |-> LatestVersion,
      users   |-> Put(NoEntries, RootUser, [name |-> RootName, did |-> FALSE]),
      apps    |-> [a \in DOMAIN apps |->
                     [apps[a] EXCEPT !.state = "installed"]],
      procs   |-> [p \in Range(proc) |->
                     [app |-> CHOOSE a \in DOMAIN apps : proc[a] = p,
                      user |-> RootUser]],
      rules   |-> rules]

-----------------------------------------------------------------------------
(***************************************************************************)
(* Transition records.                                                     *)
(***************************************************************************)
Initialize(init)        == [type |-> "initialize", init |-> init]
Migration(target)       == [type |-> "migration_up", target |-> target]
AddUser(id, user)       == [type |-> "add_user", id |-> id, user |-> user]
StartInstallation(id, app, config, rules) ==
  [type |-> "start_installation", id |-> id, config |-> config, rules |-> rules,
   app  |-> [user |-> app.user, pkg |-> app.pkg, driver |-> app.driver,
             state |-> "installing"]]
FinishInstallation(id)  == [type |-> "finish_installation", id |-> id]
Uninstall(id)           == [type |-> "start_uninstallation", id |-> id]
ProcessStart(id, proc)  == [type |-> "process_start", id |-> id, proc |-> proc]
ProcessStop(id)         == [type |-> "process_stop", id |-> id]
AddProxyRule(id, rule)  == [type |-> "add_reverse_proxy_rule", id |-> id,
                            rule |-> rule]

(***************************************************************************)
(* Validate of each transition.                                            *)
(***************************************************************************)
MigrationValid(s, t) ==
  /\ t.target \in 1..LatestVersion      \* a range exists, and a schema for it
  /\ t.target # s.version
  /\ SchemaValid(MigratedData(s, t.target))

AddUserValid_NoNameCheck(s, t) == t.id \notin DOMAIN s.users

AddUserValid(s, t) ==
  /\ t.id \notin DOMAIN s.users
  /\ \A u \in DOMAIN s.users : s.users[u].name # t.user.name

StartInstallationValid_NoPackageCheck(s, t) ==
  /\ t.app.user \in DOMAIN s.users
  /\ t.id \notin DOMAIN s.apps
  /\ t.config

StartInstallationValid_NoUserCheck(s, t) ==
  /\ t.id \notin DOMAIN s.apps
  /\ \A a \in DOMAIN s.apps : s.apps[a].pkg # t.app.pkg
  /\ t.config

StartInstallationValid(s, t) ==
  /\ t.app.user \in DOMAIN s.users
  /\ t.id \notin DOMAIN s.apps
  /\ \A a \in DOMAIN s.apps : s.apps[a].pkg # t.app.pkg
  /\ t.config                           \* DriverConfig is not nil

FinishInstallationValid(s, t) ==
  /\ t.id \in DOMAIN s.apps
  /\ s.apps[t.id].state = "installing"

UninstallValid(s, t) == t.id \in DOMAIN s.apps

ProcessStartValid_NoProcessCheck(s, t) ==
  /\ t.proc.app \in DOMAIN s.apps
  /\ s.apps[t.proc.app].state = "installed"
  /\ t.proc.user \in DOMAIN s.users
  /\ t.id \notin DOMAIN s.procs

ProcessStartValid_NoStateCheck(s, t) ==
  /\ t.proc.app \in DOMAIN s.apps
  /\ t.proc.user \in DOMAIN s.users
  /\ t.id \notin DOMAIN s.procs
  /\ \A p \in DOMAIN s.procs : s.procs[p].app # t.proc.app

ProcessStartValid(s, t) ==
  /\ t.proc.app \in DOMAIN s.apps
  /\ s.apps[t.proc.app].state = "installed"
  /\ t.proc.user \in DOMAIN s.users
  /\ t.id \notin DOMAIN s.procs
  /\ \A p \in DOMAIN s.procs : s.procs[p].app # t.proc.app

ProcessStopValid(s, t) == t.id \in DOMAIN s.procs

AddProxyRuleValid(s, t) ==
  /\ s.version >= 4                     \* the patch needs a rules object
  /\ t.id \notin DOMAIN s.rules
  /\ \A r \in DOMAIN s.rules : s.rules[r].matcher # t.rule.matcher

Validate(s, t) ==
  CASE t.type = "initialize"             -> TRUE
    [] t.type = "migration_up"           -> MigrationValid(s, t)
    [] t.type = "add_user"               -> AddUserValid(s, t)
    [] t.type = "start_installation"     -> StartInstallationValid(s, t)
    [] t.type = "finish_installation"    -> FinishInstallationValid(s, t)
    [] t.type = "start_uninstallation"   -> UninstallValid(s, t)
    [] t.type = "process_start"          -> ProcessStartValid(s, t)
    [] t.type = "process_stop"           -> ProcessStopValid(s, t)
    [] t.type = "add_reverse_proxy_rule" -> AddProxyRuleValid(s, t)

(***************************************************************************)
(* Patch of each transition, applied.  Removing an app touches neither its *)
(* processes nor its rules; a rule that comes with an installation         *)
(* replaces a rule that has its ID already.                                *)
(***************************************************************************)
Patch(s, t) ==
  CASE t.type = "initialize"             -> t.init
    [] t.type = "migration_up"           -> MigratedData(s, t.target)
    [] t.type = "add_user"               ->
         [s EXCEPT !.users = Put(@, t.id, t.user)]
    [] t.type = "start_installation"     ->
         [s EXCEPT !.apps = Put(@, t.id, t.app), !.rules = Overlay(@, t.rules)]
    [] t.type = "finish_installation"    ->
         [s EXCEPT !.apps[t.id].state = "installed"]
    [] t.type = "start_uninstallation"   -> [s EXCEPT !.apps = Drop(@, t.id)]
    [] t.type = "process_start"          ->
         [s EXCEPT !.procs = Put(@, t.id, t.proc)]
    [] t.type = "process_stop"           -> [s EXCEPT !.procs = Drop(@, t.id)]
    [] t.type = "add_reverse_proxy_rule" ->
         [s EXCEPT !.rules = Put(@, t.id, t.rule)]

(***************************************************************************)
(* ProposeTransitions for one transition: Validate, then apply the patch,  *)
(* which includes the check of the result against the schema.              *)
(***************************************************************************)
Accepts_NoSchemaCheck(s, t) == Validate(s, t)

Accepts(s, t) == Validate(s, t) /\ SchemaValid(Patch(s, t))

(***************************************************************************)
(* Every transition the node's clients can propose: all but "initialize",  *)
(* which only main.go creates.                                             *)
(***************************************************************************)
RuleMaps   == UNION {[ids -> Rule] : ids \in SUBSET RuleId}
Transition ==
  UNION {{Migration(v)                    : v \in 0..(LatestVersion + 1)},
         {AddUser(i, u)                   : i \in UserId, u \in User},
         {StartInstallation(i, a, c, rs)  : i \in AppId, a \in NewApp,
                                            c \in BOOLEAN, rs \in RuleMaps},
         {FinishInstallation(i)           : i \in AppId},
         {Uninstall(i)                    : i \in AppId},
         {ProcessStart(i, p)              : i \in ProcId, p \in Process},
         {ProcessStop(i)                  : i \in ProcId},
         {AddProxyRule(i, r)              : i \in RuleId, r \in Rule}}

-----------------------------------------------------------------------------
(***************************************************************************)
(* Two processes never share an app, two apps never share a package, two   *)
(* users never share a name, and whatever is owned is owned by a user.     *)
(***************************************************************************)
OneProcess(s) == \A p, q \in DOMAIN s.procs :
                    s.procs[p].app = s.procs[q].app => p = q
OnePackage(s) == \A a, b \in DOMAIN s.apps :
                    s.apps[a].pkg = s.apps[b].pkg => a = b
OneName(s)    == \A u, w \in DOMAIN s.users :
                    s.users[u].name = s.users[w].name => u = w
HaveOwners(s) == /\ \A a \in DOMAIN s.apps : s.apps[a].user \in DOMAIN s.users
                 /\ \A p \in DOMAIN s.procs : s.procs[p].user \in DOMAIN s.users

(***************************************************************************)
(* What the operator's configuration has to give main.go, which does not   *)
(* check it: every default app once, owned by the root user.               *)
(***************************************************************************)
WellConfigured(s) ==
  /\ IsNodeState(s) /\ s.version = LatestVersion
  /\ RootUser \in DOMAIN s.users
  /\ OneProcess(s) /\ OnePackage(s) /\ OneName(s) /\ HaveOwners(s)
=============================================================================
