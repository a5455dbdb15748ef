----------------------- MODULE NodeTransitionsProofs -----------------------
(***************************************************************************)
(* What one transition does to a document, for every document and every    *)
(* value of the constants: the lemmas on which the proofs about the        *)
(* registry and about the database rest.                                   *)
(***************************************************************************)
EXTENDS NodeTransitions, TLAPS

(***************************************************************************)
(* The three ways a patch changes a map keep it a map.                     *)
(***************************************************************************)
LEMMA PutMap ==
  ASSUME NEW D, NEW R, NEW f, IsMap(f, D, R), NEW k \in D, NEW v \in R
  PROVE  IsMap(Put(f, k, v), D, R)
  BY DEF IsMap, Put

(* Removing an entry keeps a map a map.                                    *)
LEMMA DropMap ==
  ASSUME NEW D, NEW R, NEW f, IsMap(f, D, R), NEW k
  PROVE  IsMap(Drop(f, k), D, R)
  BY DEF IsMap, Drop, Restrict

(* Adding the entries of another map keeps a map a map.                    *)
LEMMA OverlayMap ==
  ASSUME NEW D, NEW R, NEW f, IsMap(f, D, R), NEW g, IsMap(g, D, R)
  PROVE  IsMap(Overlay(f, g), D, R)
  BY DEF IsMap, Overlay

(* The rules that come with an installation are a map of rules.            *)
LEMMA RuleMapsAreMaps ==
  ASSUME NEW rs \in RuleMaps
  PROVE  IsMap(rs, RuleId, Rule)
  BY DEF RuleMaps, IsMap

-----------------------------------------------------------------------------
(***************************************************************************)
(* A document with its five parts replaced, and the eight kinds of         *)
(* transition a client can propose.                                        *)
(***************************************************************************)
NodeState(v, u, a, p, r) ==
  [version |-> v, users |-> u, apps |-> a, procs |-> p, rules |-> r]

(* A client's transition is one of the eight kinds.                        *)
LEMMA TransitionCases ==
  ASSUME NEW t \in Transition
  PROVE  \/ \E v \in 0..(LatestVersion + 1) : t = Migration(v)
         \/ \E i \in UserId, u \in User : t = AddUser(i, u)
         \/ \E i \in AppId, a \in NewApp, c \in BOOLEAN, rs \in RuleMaps :
               t = StartInstallation(i, a, c, rs)
         \/ \E i \in AppId : t = FinishInstallation(i)
         \/ \E i \in AppId : t = Uninstall(i)
         \/ \E i \in ProcId, p \in Process : t = ProcessStart(i, p)
         \/ \E i \in ProcId : t = ProcessStop(i)
         \/ \E i \in RuleId, r \in Rule : t = AddProxyRule(i, r)
  BY DEF Transition

(***************************************************************************)
(* Which Validate and which Patch each of them runs.                       *)
(***************************************************************************)
LEMMA MigrationEffect ==
  ASSUME NEW s, IsNodeState(s), NEW v
  PROVE  LET t == Migration(v) IN
         /\ Validate(s, t) <=> MigrationValid(s, t)
         /\ Patch(s, t) = MigratedData(s, v)
  BY DEF Migration, Validate, Patch

(* add_user: its Validate, and one more user.                              *)
LEMMA AddUserEffect ==
  ASSUME NEW s, IsNodeState(s), NEW i, NEW u
  PROVE  LET t == AddUser(i, u) IN
         /\ Validate(s, t) <=> AddUserValid(s, t)
         /\ Patch(s, t) = NodeState(s.version, Put(s.users, i, u), s.apps,
                                    s.procs, s.rules)
  BY DEF AddUser, Validate, Patch, NodeState, IsNodeState

Installing(a) == [user |-> a.user, pkg |-> a.pkg, driver |-> a.driver,
                  state |-> "installing"]

(* start_installation: one more app, and the rules that come with it.      *)
LEMMA StartInstallationEffect ==
  ASSUME NEW s, IsNodeState(s), NEW i, NEW a, NEW c, NEW rs
  PROVE  LET t == StartInstallation(i, a, c, rs) IN
         /\ Validate(s, t) <=> StartInstallationValid(s, t)
         /\ Patch(s, t) = NodeState(s.version, s.users,
                                    Put(s.apps, i, Installing(a)),
                                    s.procs, Overlay(s.rules, rs))
  BY DEF StartInstallation, Validate, Patch, NodeState, IsNodeState, Installing

(* finish_installation: the app's state becomes installed.                 *)
LEMMA FinishInstallationEffect ==
  ASSUME NEW s, IsNodeState(s), NEW i
  PROVE  LET t == FinishInstallation(i) IN
         /\ Validate(s, t) <=> FinishInstallationValid(s, t)
         /\ Patch(s, t) = NodeState(s.version, s.users,
                                    [s.apps EXCEPT ![i].state = "installed"],
                                    s.procs, s.rules)
  BY DEF FinishInstallation, Validate, Patch, NodeState, IsNodeState

(* start_uninstallation: one app less, and nothing else.                   *)
LEMMA UninstallEffect ==
  ASSUME NEW s, IsNodeState(s), NEW i
  PROVE  LET t == Uninstall(i) IN
         /\ Validate(s, t) <=> UninstallValid(s, t)
         /\ Patch(s, t) = NodeState(s.version, s.users, Drop(s.apps, i),
                                    s.procs, s.rules)
  BY DEF Uninstall, Validate, Patch, NodeState, IsNodeState

(* process_start: one more process.                                        *)
LEMMA ProcessStartEffect ==
  ASSUME NEW s, IsNodeState(s), NEW i, NEW p
  PROVE  LET t == ProcessStart(i, p) IN
         /\ Validate(s, t) <=> ProcessStartValid(s, t)
         /\ Patch(s, t) = NodeState(s.version, s.users, s.apps,
                                    Put(s.procs, i, p), s.rules)
  BY DEF ProcessStart, Validate, Patch, NodeState, IsNodeState

(* process_stop: one process less.                                         *)
LEMMA ProcessStopEffect ==
  ASSUME NEW s, IsNodeState(s), NEW i
  PROVE  LET t == ProcessStop(i) IN
         /\ Validate(s, t) <=> ProcessStopValid(s, t)
         /\ Patch(s, t) = NodeState(s.version, s.users, s.apps,
                                    Drop(s.procs, i), s.rules)
  BY DEF ProcessStop, Validate, Patch, NodeState, IsNodeState

(* add_reverse_proxy_rule: one more rule.                                  *)
LEMMA AddProxyRuleEffect ==
  ASSUME NEW s, IsNodeState(s), NEW i, NEW r
  PROVE  LET t == AddProxyRule(i, r) IN
         /\ Validate(s, t) <=> AddProxyRuleValid(s, t)
         /\ Patch(s, t) = NodeState(s.version, s.users, s.apps, s.procs,
                                    Put(s.rules, i, r))
  BY DEF AddProxyRule, Validate, Patch, NodeState, IsNodeState

(* What a migration changes and what it keeps.                             *)
LEMMA MigratedParts ==
  ASSUME NEW s, IsNodeState(s), NEW v \in 1..LatestVersion
  PROVE  LET n == MigratedData(s, v) IN
         /\ IsNodeState(n)
         /\ n.version = v /\ n.apps = s.apps /\ n.procs = s.procs
         /\ DOMAIN n.users = DOMAIN s.users
         /\ \A u \in DOMAIN s.users : n.users[u].name = s.users[u].name
  <1> DEFINE n == MigratedData(s, v)
             cleared == [u \in DOMAIN s.users |->
                           [s.users[u] EXCEPT !.did = FALSE]]
  <1>1. IsMap(cleared, UserId, User) /\ IsMap(s.users, UserId, User)
    BY DEF IsNodeState, IsMap, User
  <1>2. \A u \in DOMAIN s.users : cleared[u].name = s.users[u].name
    BY <1>1 DEF IsMap, User
  <1>3. IsMap(NoEntries, RuleId, Rule) /\ IsMap(s.rules, RuleId, Rule)
    BY DEF IsNodeState, IsMap, NoEntries
  <1>4. PICK us, rs : /\ n = NodeState(v, us, s.apps, s.procs, rs)
                      /\ us = cleared \/ us = s.users
                      /\ rs = NoEntries \/ rs = s.rules
    <2> DEFINE below(w) == v < w /\ w <= s.version
               us == IF below(5) THEN cleared ELSE s.users
               rs == IF below(4) \/ (s.version < 4 /\ 4 <= v)
                     THEN NoEntries ELSE s.rules
    <2>1. s = NodeState(s.version, s.users, s.apps, s.procs, s.rules)
      BY DEF IsNodeState, NodeState
    <2>2. n = [s EXCEPT !.version = v, !.users = us, !.rules = rs]
      BY DEF MigratedData
    <2>3. n = NodeState(v, us, s.apps, s.procs, rs)
      BY <2>1, <2>2 DEF NodeState
    <2>. QED
      BY <2>3
  <1>5. /\ n.version = v /\ n.users = us /\ n.apps = s.apps
        /\ n.procs = s.procs /\ n.rules = rs
    BY <1>4 DEF NodeState
  <1>6. /\ IsMap(n.users, UserId, User) /\ IsMap(n.rules, RuleId, Rule)
        /\ IsMap(n.apps, AppId, App) /\ IsMap(n.procs, ProcId, Process)
    BY <1>1, <1>3, <1>4, <1>5 DEF IsNodeState
  <1>7. IsNodeState(n)
    BY <1>4, <1>5, <1>6 DEF IsNodeState, NodeState
  <1>8. /\ DOMAIN n.users = DOMAIN s.users
        /\ \A u \in DOMAIN s.users : n.users[u].name = s.users[u].name
    BY <1>2, <1>4, <1>5
  <1>. QED
    BY <1>5, <1>7, <1>8
-----------------------------------------------------------------------------
(***************************************************************************)
(* The patch of a valid transition makes a document of a document.         *)
(***************************************************************************)
LEMMA NodeStateIsNodeState ==
  ASSUME NEW v \in 1..LatestVersion, NEW u, NEW a, NEW p, NEW r,
         IsMap(u, UserId, User), IsMap(a, AppId, App),
         IsMap(p, ProcId, Process), IsMap(r, RuleId, Rule)
  PROVE  IsNodeState(NodeState(v, u, a, p, r))
  BY DEF IsNodeState, NodeState

(* Whatever client's transition is valid, its patch makes a document.      *)
LEMMA PatchIsNodeState ==
  ASSUME NEW s, IsNodeState(s), NEW t \in Transition, Validate(s, t)
  PROVE  IsNodeState(Patch(s, t))
  <1>0. /\ s.version \in 1..LatestVersion
        /\ IsMap(s.users, UserId, User) /\ IsMap(s.apps, AppId, App)
        /\ IsMap(s.procs, ProcId, Process) /\ IsMap(s.rules, RuleId, Rule)
    BY DEF IsNodeState
  <1>1. CASE \E v \in 0..(LatestVersion + 1) : t = Migration(v)
    BY <1>1, MigrationEffect, MigratedParts DEF MigrationValid, Migration
  <1>2. CASE \E i \in UserId, u \in User : t = AddUser(i, u)
    BY <1>0, <1>2, AddUserEffect, PutMap, NodeStateIsNodeState
  <1>3. CASE \E i \in AppId, a \in NewApp, c \in BOOLEAN, rs \in RuleMaps :
               t = StartInstallation(i, a, c, rs)
    <2>1. PICK i \in AppId, a \in NewApp, c \in BOOLEAN, rs \in RuleMaps :
               t = StartInstallation(i, a, c, rs)
      BY <1>3
    <2>2. Installing(a) \in App
      BY DEF Installing, App, NewApp
    <2>3. /\ IsMap(Put(s.apps, i, Installing(a)), AppId, App)
          /\ IsMap(Overlay(s.rules, rs), RuleId, Rule)
      BY <1>0, <2>2, PutMap, RuleMapsAreMaps, OverlayMap
    <2>. QED
      BY <1>0, <2>1, <2>3, StartInstallationEffect, NodeStateIsNodeState
  <1>4. CASE \E i \in AppId : t = FinishInstallation(i)
    <2>1. PICK i \in AppId : t = FinishInstallation(i)
      BY <1>4
    <2>2. i \in DOMAIN s.apps
      BY <2>1, FinishInstallationEffect DEF FinishInstallationValid, FinishInstallation
    <2>3. IsMap([s.apps EXCEPT ![i].state = "installed"], AppId, App)
      BY <1>0, <2>2 DEF IsMap, App
    <2>. QED
      BY <1>0, <2>1, <2>3, FinishInstallationEffect, NodeStateIsNodeState
  <1>5. CASE \E i \in AppId : t = Uninstall(i)
    BY <1>0, <1>5, UninstallEffect, DropMap, NodeStateIsNodeState
  <1>6. CASE \E i \in ProcId, p \in Process : t = ProcessStart(i, p)
    BY <1>0, <1>6, ProcessStartEffect, PutMap, NodeStateIsNodeState
  <1>7. CASE \E i \in ProcId : t = ProcessStop(i)
    BY <1>0, <1>7, ProcessStopEffect, DropMap, NodeStateIsNodeState
  <1>8. CASE \E i \in RuleId, r \in Rule : t = AddProxyRule(i, r)
    BY <1>0, <1>8, AddProxyRuleEffect, PutMap, NodeStateIsNodeState
  <1>. QED
    BY <1>1, <1>2, <1>3, <1>4, <1>5, <1>6, <1>7, <1>8, TransitionCases

(***************************************************************************)
(* What becomes of the users: they stay, with their names, and a user that *)
(* is added has a name of its own.                                         *)
(***************************************************************************)
LEMMA PatchUsers ==
  ASSUME NEW s, IsNodeState(s), NEW t \in Transition, Validate(s, t)
  PROVE  LET n == Patch(s, t) IN
         /\ \A u \in DOMAIN s.users :
               u \in DOMAIN n.users /\ n.users[u].name = s.users[u].name
         /\ \/ DOMAIN n.users = DOMAIN s.users
            \/ \E i \in UserId :
                 /\ DOMAIN n.users = DOMAIN s.users \cup {i}
                 /\ \A u \in DOMAIN s.users : s.users[u].name # n.users[i].name
  <1> DEFINE n == Patch(s, t)
  <1>1. CASE \E v \in 0..(LatestVersion + 1) : t = Migration(v)
    BY <1>1, MigrationEffect, MigratedParts DEF MigrationValid, Migration
  <1>2. CASE \E i \in UserId, u \in User : t = AddUser(i, u)
    <2>1. PICK i \in UserId, u \in User : t = AddUser(i, u)
      BY <1>2
    <2>2. n.users = Put(s.users, i, u)
      BY <2>1, AddUserEffect DEF NodeState
    <2>3. /\ i \notin DOMAIN s.users
          /\ \A w \in DOMAIN s.users : s.users[w].name # u.name
      BY <2>1, AddUserEffect DEF AddUserValid, AddUser
    <2>. QED
      BY <2>2, <2>3 DEF Put
  <1>3. CASE \E i \in AppId, a \in NewApp, c \in BOOLEAN, rs \in RuleMaps :
               t = StartInstallation(i, a, c, rs)
    BY <1>3, StartInstallationEffect DEF NodeState
  <1>4. CASE \E i \in AppId : t = FinishInstallation(i)
    BY <1>4, FinishInstallationEffect DEF NodeState
  <1>5. CASE \E i \in AppId : t = Uninstall(i)
    BY <1>5, UninstallEffect DEF NodeState
  <1>6. CASE \E i \in ProcId, p \in Process : t = ProcessStart(i, p)
    BY <1>6, ProcessStartEffect DEF NodeState
  <1>7. CASE \E i \in ProcId : t = ProcessStop(i)
    BY <1>7, ProcessStopEffect DEF NodeState
  <1>8. CASE \E i \in RuleId, r \in Rule : t = AddProxyRule(i, r)
    BY <1>8, AddProxyRuleEffect DEF NodeState
  <1>. QED
    BY TransitionCases, <1>1, <1>2, <1>3, <1>4, <1>5, <1>6, <1>7, <1>8

(***************************************************************************)
(* What becomes of the apps.                                               *)
(***************************************************************************)
LEMMA PatchApps ==
  ASSUME NEW s, IsNodeState(s), NEW t \in Transition, Validate(s, t)
  PROVE  LET n == Patch(s, t) IN
         \/ n.apps = s.apps
         \/ \E i \in AppId, a \in App :
              /\ n.apps = Put(s.apps, i, a)
              /\ i \notin DOMAIN s.apps /\ a.user \in DOMAIN s.users
              /\ \A b \in DOMAIN s.apps : s.apps[b].pkg # a.pkg
         \/ \E i \in DOMAIN s.apps :
              /\ s.apps[i].state = "installing"
              /\ n.apps = [s.apps EXCEPT ![i].state = "installed"]
         \/ \E i \in DOMAIN s.apps : n.apps = Drop(s.apps, i)
  <1> DEFINE n == Patch(s, t)
  <1>1. CASE \E i \in AppId, a \in NewApp, c \in BOOLEAN, rs \in RuleMaps :
               t = StartInstallation(i, a, c, rs)
    <2>1. PICK i \in AppId, a \in NewApp, c \in BOOLEAN, rs \in RuleMaps :
               t = StartInstallation(i, a, c, rs)
      BY <1>1
    <2>2. Installing(a) \in App
      BY DEF Installing, App, NewApp
    <2>3. n.apps = Put(s.apps, i, Installing(a))
      BY <2>1, StartInstallationEffect DEF NodeState
    <2>4. StartInstallationValid(s, t) /\ t.app = Installing(a) /\ t.id = i
      BY <2>1, StartInstallationEffect DEF StartInstallation, Installing
    <2>. QED
      BY <2>2, <2>3, <2>4 DEF StartInstallationValid
  <1>2. CASE \E i \in AppId : t = FinishInstallation(i)
    <2>1. PICK i \in AppId : t = FinishInstallation(i)
      BY <1>2
    <2> DEFINE as == [s.apps EXCEPT ![i].state = "installed"]
    <2>2. n.apps = as
      <3>1. n = NodeState(s.version, s.users, as, s.procs, s.rules)
        BY <2>1, FinishInstallationEffect
      <3>. HIDE DEF as
      <3>. QED
        BY <3>1 DEF NodeState
    <2>3. FinishInstallationValid(s, t) /\ t.id = i
      BY <2>1, FinishInstallationEffect DEF FinishInstallation
    <2>. QED
      BY <2>2, <2>3 DEF FinishInstallationValid
  <1>3. CASE \E i \in AppId : t = Uninstall(i)
    <2>1. PICK i \in AppId : t = Uninstall(i)
      BY <1>3
    <2>2. n.apps = Drop(s.apps, i)
      BY <2>1, UninstallEffect DEF NodeState
    <2>3. UninstallValid(s, t) /\ t.id = i
      BY <2>1, UninstallEffect DEF Uninstall
    <2>. QED
      BY <2>2, <2>3 DEF UninstallValid
  <1>4. CASE \E v \in 0..(LatestVersion + 1) : t = Migration(v)
    BY <1>4, MigrationEffect, MigratedParts DEF MigrationValid, Migration
  <1>5. CASE \E i \in UserId, u \in User : t = AddUser(i, u)
    BY <1>5, AddUserEffect DEF NodeState
  <1>6. CASE \E i \in ProcId, p \in Process : t = ProcessStart(i, p)
    BY <1>6, ProcessStartEffect DEF NodeState
  <1>7. CASE \E i \in ProcId : t = ProcessStop(i)
    BY <1>7, ProcessStopEffect DEF NodeState
  <1>8. CASE \E i \in RuleId, r \in Rule : t = AddProxyRule(i, r)
    BY <1>8, AddProxyRuleEffect DEF NodeState
  <1>. QED
    BY TransitionCases, <1>1, <1>2, <1>3, <1>4, <1>5, <1>6, <1>7, <1>8

(***************************************************************************)
(* What becomes of the processes.                                          *)
(***************************************************************************)
LEMMA PatchProcesses ==
  ASSUME NEW s, IsNodeState(s), NEW t \in Transition, Validate(s, t)
  PROVE  LET n == Patch(s, t) IN
         \/ n.procs = s.procs
         \/ \E i \in ProcId, p \in Process :
              /\ n.procs = Put(s.procs, i, p)
              /\ i \notin DOMAIN s.procs /\ p.user \in DOMAIN s.users
              /\ p.app \in DOMAIN s.apps /\ s.apps[p.app].state = "installed"
              /\ \A q \in DOMAIN s.procs : s.procs[q].app # p.app
         \/ \E i \in DOMAIN s.procs : n.procs = Drop(s.procs, i)
  <1> DEFINE n == Patch(s, t)
  <1>1. CASE \E i \in ProcId, p \in Process : t = ProcessStart(i, p)
    <2>1. PICK i \in ProcId, p \in Process : t = ProcessStart(i, p)
      BY <1>1
    <2>2. n.procs = Put(s.procs, i, p)
      BY <2>1, ProcessStartEffect DEF NodeState
    <2>3. ProcessStartValid(s, t) /\ t.id = i /\ t.proc = p
      BY <2>1, ProcessStartEffect DEF ProcessStart
    <2>. QED
      BY <2>2, <2>3 DEF ProcessStartValid
  <1>2. CASE \E i \in ProcId : t = ProcessStop(i)
    <2>1. PICK i \in ProcId : t = ProcessStop(i)
      BY <1>2
    <2>2. n.procs = Drop(s.procs, i)
      BY <2>1, ProcessStopEffect DEF NodeState
    <2>3. ProcessStopValid(s, t) /\ t.id = i
      BY <2>1, ProcessStopEffect DEF ProcessStop
    <2>. QED
      BY <2>2, <2>3 DEF ProcessStopValid
  <1>3. CASE \E v \in 0..(LatestVersion + 1) : t = Migration(v)
    BY <1>3, MigrationEffect, MigratedParts DEF MigrationValid, Migration
  <1>4. CASE \E i \in UserId, u \in User : t = AddUser(i, u)
    BY <1>4, AddUserEffect DEF NodeState
  <1>5. CASE \E i \in AppId, a \in NewApp, c \in BOOLEAN, rs \in RuleMaps :
               t = StartInstallation(i, a, c, rs)
    BY <1>5, StartInstallationEffect DEF NodeState
  <1>6. CASE \E i \in AppId : t = FinishInstallation(i)
    BY <1>6, FinishInstallationEffect DEF NodeState
  <1>7. CASE \E i \in AppId : t = Uninstall(i)
    BY <1>7, UninstallEffect DEF NodeState
  <1>8. CASE \E i \in RuleId, r \in Rule : t = AddProxyRule(i, r)
    BY <1>8, AddProxyRuleEffect DEF NodeState
  <1>. QED
    BY TransitionCases, <1>1, <1>2, <1>3, <1>4, <1>5, <1>6, <1>7, <1>8
-----------------------------------------------------------------------------
(***************************************************************************)
(* What no valid transition breaks.                                        *)
(***************************************************************************)
(* One process per app, by the check of ProcessStartValid.                 *)
LEMMA PatchKeepsOneProcess ==
  ASSUME NEW s, IsNodeState(s), OneProcess(s),
         NEW t \in Transition, Validate(s, t)
  PROVE  OneProcess(Patch(s, t))
  <1> DEFINE n == Patch(s, t)
  <1>1. CASE n.procs = s.procs
    BY <1>1 DEF OneProcess
  <1>2. CASE \E i \in ProcId, p \in Process :
             /\ n.procs = Put(s.procs, i, p)
             /\ \A q \in DOMAIN s.procs : s.procs[q].app # p.app
    BY <1>2 DEF OneProcess, Put
  <1>3. CASE \E i \in DOMAIN s.procs : n.procs = Drop(s.procs, i)
    BY <1>3 DEF OneProcess, Drop, Restrict
  <1>. QED
    BY <1>1, <1>2, <1>3, PatchProcesses

(* One app per package: finishing an installation keeps its package.       *)
LEMMA PatchKeepsOnePackage ==
  ASSUME NEW s, IsNodeState(s), OnePackage(s),
         NEW t \in Transition, Validate(s, t)
  PROVE  OnePackage(Patch(s, t))
  <1> DEFINE n == Patch(s, t)
  <1>1. CASE n.apps = s.apps
    BY <1>1 DEF OnePackage
  <1>2. CASE \E i \in AppId, a \in App :
               /\ n.apps = Put(s.apps, i, a)
               /\ \A b \in DOMAIN s.apps : s.apps[b].pkg # a.pkg
    BY <1>2 DEF OnePackage, Put
  <1>3. CASE \E i \in DOMAIN s.apps :
               n.apps = [s.apps EXCEPT ![i].state = "installed"]
    <2>1. \A a \in DOMAIN s.apps : s.apps[a] \in App
      BY DEF IsNodeState, IsMap
    <2>2. /\ DOMAIN n.apps = DOMAIN s.apps
          /\ \A a \in DOMAIN s.apps : n.apps[a].pkg = s.apps[a].pkg
      BY <1>3, <2>1 DEF App
    <2>. QED
      BY <2>2 DEF OnePackage
  <1>4. CASE \E i \in DOMAIN s.apps : n.apps = Drop(s.apps, i)
    BY <1>4 DEF OnePackage, Drop, Restrict
  <1>. QED
    BY <1>1, <1>2, <1>3, <1>4, PatchApps

(* One user per name.                                                      *)
LEMMA PatchKeepsOneName ==
  ASSUME NEW s, IsNodeState(s), OneName(s), NEW t \in Transition, Validate(s, t)
  PROVE  OneName(Patch(s, t))
  BY PatchUsers DEF OneName

(* Owners are checked when a record is added, and users stay.              *)
LEMMA PatchKeepsOwners ==
  ASSUME NEW s, IsNodeState(s), HaveOwners(s),
         NEW t \in Transition, Validate(s, t)
  PROVE  HaveOwners(Patch(s, t))
  <1> DEFINE n == Patch(s, t)
  <1>1. DOMAIN s.users \subseteq DOMAIN n.users
    BY PatchUsers
  <1>2. \A a \in DOMAIN n.apps : n.apps[a].user \in DOMAIN s.users
    <2>1. CASE n.apps = s.apps
      BY <2>1 DEF HaveOwners
    <2>2. CASE \E i \in AppId, a \in App :
                 n.apps = Put(s.apps, i, a) /\ a.user \in DOMAIN s.users
      BY <2>2 DEF HaveOwners, Put
    <2>3. CASE \E i \in DOMAIN s.apps :
                 n.apps = [s.apps EXCEPT ![i].state = "installed"]
      <3>1. \A a \in DOMAIN s.apps : s.apps[a] \in App
        BY DEF IsNodeState, IsMap
      <3>2. /\ DOMAIN n.apps = DOMAIN s.apps
            /\ \A a \in DOMAIN s.apps : n.apps[a].user = s.apps[a].user
        BY <2>3, <3>1 DEF App
      <3>. QED
        BY <3>2 DEF HaveOwners
    <2>4. CASE \E i \in DOMAIN s.apps : n.apps = Drop(s.apps, i)
      BY <2>4 DEF HaveOwners, Drop, Restrict
    <2>. QED
      BY <2>1, <2>2, <2>3, <2>4, PatchApps
  <1>3. \A p \in DOMAIN n.procs : n.procs[p].user \in DOMAIN s.users
    <2>1. CASE n.procs = s.procs
      BY <2>1 DEF HaveOwners
    <2>2. CASE \E i \in ProcId, p \in Process :
               /\ n.procs = Put(s.procs, i, p)
               /\ p.user \in DOMAIN s.users
      BY <2>2 DEF HaveOwners, Put
    <2>3. CASE \E i \in DOMAIN s.procs : n.procs = Drop(s.procs, i)
      BY <2>3 DEF HaveOwners, Drop, Restrict
    <2>. QED
      BY <2>1, <2>2, <2>3, PatchProcesses
  <1>. QED
    BY <1>1, <1>2, <1>3 DEF HaveOwners
=============================================================================
