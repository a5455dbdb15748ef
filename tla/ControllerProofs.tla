--------------------------- MODULE ControllerProofs ---------------------------
(***************************************************************************)
(* The controller, for any number of threads, apps, users and boots, any   *)
(* configuration and any faults.                                           *)
(*                                                                         *)
(* The argument: a process ID is drawn once, by the start or by the boot   *)
(* that records it, and from then on until its container runs, its record  *)
(* is gone, or its handler was cut off, some handler or the boot holds it; *)
(* an app ID is drawn once, so an app that is in the document under the ID *)
(* a handler remembers is the app the handler has read.                    *)
(***************************************************************************)
EXTENDS Controller, NodeTransitionsProofs

Labels == {"idle", "record", "launch", "create", "rollback", "readrules", "route",
           "halt", "unrecord", "pull", "finish", "restart", "migrate"}

StartJobs    == [op : {"start"}, app : AppId, inst : App,
                 proc : ProcId \cup {NoProc}, rules : RuleMaps]
StopJobs     == [op : {"stop"}, proc : ProcId]
InstallJobs  == [op : {"install"}, app : AppId, req : InstallRequests]
StartingJobs == [op : {"starting"}, app : AppId]
MigrateJobs  == [op : {"migrate"}, target : Targets]
Jobs == UNION {{NoJob}, StartJobs, StopJobs, InstallJobs, StartingJobs, MigrateJobs}

Starting  == {"launch", "create", "rollback", "readrules", "route"}
Stopping  == {"halt", "unrecord"}
Launching == {"launch", "create"}                 \* the container is to come
Holding   == Launching \cup {"rollback", "unrecord"}  \* or the record to go

-----------------------------------------------------------------------------
(* What a handler's local variables hold where it is.                      *)
Placed(t) ==
  /\ pc[t] = "record" => job[t] \in StartJobs /\ job[t].app \in apps
  /\ pc[t] \in Starting => job[t] \in StartJobs /\ job[t].proc \in DOMAIN minted
  /\ pc[t] \in Stopping => job[t] \in StopJobs /\ job[t].proc \in DOMAIN minted
  /\ pc[t] \in {"pull", "finish"} => job[t] \in InstallJobs
  /\ pc[t] = "restart" => job[t] \in StartingJobs
  /\ pc[t] = "migrate" => job[t] \in MigrateJobs

(* The app a start has read is the app in the document, or that is gone.   *)
Current(t) ==
  pc[t] = "record" /\ job[t].app \in DOMAIN db.apps =>
    /\ job[t].inst.user = db.apps[job[t].app].user
    /\ job[t].inst.driver = db.apps[job[t].app].driver

(* The process of a start has no container yet.                            *)
Clear(t) == pc[t] \in Launching => running[job[t].proc] = 0

ThreadOK(t) == Placed(t) /\ Current(t) /\ Clear(t)

(* No two starts are about one process.                                    *)
Alone == \A s, t \in Thread :
           pc[s] \in Launching /\ pc[t] \in Launching /\ job[s].proc = job[t].proc
             => s = t

HasRoot(s) == RootUser \in DOMAIN s.users

(* The document has the root user once there is one, and no IDs but those  *)
(* that were drawn.                                                        *)
Document ==
  /\ db = EmptyState \/ HasRoot(db)
  /\ node # "down" => HasRoot(db)
  /\ DOMAIN db.procs \subseteq DOMAIN minted
  /\ DOMAIN db.apps \subseteq apps /\ DOMAIN DefaultApps \subseteq apps
  /\ \A p \in DOMAIN db.procs : db.procs[p].app \in apps
  /\ RecordMatchesApp

Booting ==
  /\ node \in {"down", "up"} => pending = {}
  /\ node # "up" => \A t \in Thread : pc[t] = "idle"
  /\ \A p \in pending : running[p] = 0

Containers ==
  \A p \in ProcId : running[p] <= 1 /\ (running[p] > 0 => p \in DOMAIN minted)

Held(p) == p \in pending \/ \E t \in Thread : pc[t] \in Holding /\ job[t].proc = p

(* A recorded process runs, or somebody holds it, or it is known why not.  *)
Recorded ==
  \A p \in DOMAIN db.procs \ (exited \cup cut) : running[p] > 0 \/ Held(p)

(* The inductive invariant.                                                *)
IInv ==
  /\ TypeOK /\ job \in [Thread -> Jobs]
  /\ Document /\ Booting /\ Containers /\ Recorded /\ Alone
  /\ \A t \in Thread : ThreadOK(t)

-----------------------------------------------------------------------------
(* The empty document is one.                                              *)
LEMMA EmptyStateOK == IsNodeState(EmptyState) /\ SchemaValid(EmptyState)
  BY DEF EmptyState, NoEntries, IsNodeState, IsMap, LatestVersion, SchemaValid

(* Before the first boot nothing was drawn.                                *)
LEMMA InitInv == Init => IInv
  <1>. SUFFICES ASSUME Init PROVE IInv
    OBVIOUS
  <1>1. job \in [Thread -> Jobs]
    BY DEF Init, Jobs
  <1>2. DOMAIN db.procs = {} /\ DOMAIN db.apps = {} /\ DOMAIN minted = {}
    BY DEF Init, EmptyState, NoEntries
  <1>3. IsMap(NoEntries, RuleId, Rule) /\ IsMap(NoEntries, ProcId, [app : AppId, pkg : Package])
    BY DEF IsMap, NoEntries
  <1>4. apps \subseteq AppId
    BY DefaultAssumption DEF Init, IsMap
  <1>5. TypeOK
    BY <1>2, <1>3, <1>4, EmptyStateOK, BoundAssumption DEF Init, TypeOK, NoJob
  <1>6. Document /\ Recorded
    BY <1>2 DEF Init, Document, RecordMatchesApp, Recorded
  <1>7. Booting /\ Containers /\ Alone
    BY DEF Init, Booting, Containers, Alone, Launching
  <1>8. \A t \in Thread : ThreadOK(t)
    BY DEF Init, ThreadOK, Placed, Current, Clear, Starting, Stopping, Launching
  <1>. QED
    BY <1>1, <1>5, <1>6, <1>7, <1>8 DEF IInv

-----------------------------------------------------------------------------
(* Thread t goes to label l with the variables j.                          *)
Moves(t, l, j) == pc' = [pc EXCEPT ![t] = l] /\ job' = [job EXCEPT ![t] = j]

(* A move keeps the handlers' jobs and places typed, and the others' as they were. *)
LEMMA OneMoves ==
  ASSUME IInv, NEW t \in Thread, NEW l \in Labels, NEW j \in Jobs, Moves(t, l, j)
  PROVE  /\ pc' \in [Thread -> Labels] /\ job' \in [Thread -> Jobs]
         /\ pc'[t] = l /\ job'[t] = j
         /\ \A s \in Thread \ {t} : pc'[s] = pc[s] /\ job'[s] = job[s]
  BY DEF IInv, TypeOK, Labels, Moves

(* The jobs of each kind have the operation of their kind.                 *)
LEMMA JobsHaveOps ==
  ASSUME NEW j \in Jobs
  PROVE  /\ j.op \in {"none", "start", "stop", "install", "starting", "migrate"}
         /\ j \in StartJobs => j.op = "start"
         /\ j \in StopJobs => j.op = "stop"
  BY DEF Jobs, NoJob, StartJobs, StopJobs, InstallJobs, StartingJobs, MigrateJobs

(* What the others know stays true while no app changes under its ID and   *)
(* no container of theirs comes.                                           *)
LEMMA OthersOK ==
  ASSUME NEW s \in Thread, ThreadOK(s), pc'[s] = pc[s], job'[s] = job[s],
         DOMAIN minted \subseteq DOMAIN minted', apps \subseteq apps',
         pc[s] = "record" /\ job[s].app \in DOMAIN db'.apps =>
           /\ job[s].app \in DOMAIN db.apps
           /\ db'.apps[job[s].app].user = db.apps[job[s].app].user
           /\ db'.apps[job[s].app].driver = db.apps[job[s].app].driver,
         pc[s] \in Launching => running'[job[s].proc] = running[job[s].proc]
  PROVE  ThreadOK(s)'
  <1>1. Placed(s)'
    BY DEF ThreadOK, Placed
  <1>2. Current(s)'
    BY DEF ThreadOK, Current
  <1>3. Clear(s)'
    BY DEF ThreadOK, Clear
  <1>. QED
    BY <1>1, <1>2, <1>3 DEF ThreadOK

(***************************************************************************)
(* A step of one handler that starts and ends no container and changes no  *)
(* process record.  It may change apps, but none under the ID it had; and  *)
(* it does not let go of a process.                                        *)
(***************************************************************************)
SameApps ==
  \A a \in DOMAIN db'.apps \cap apps :
    /\ a \in DOMAIN db.apps
    /\ db'.apps[a].user = db.apps[a].user
    /\ db'.apps[a].driver = db.apps[a].driver

(* Such a step keeps the invariant, if its handler is left as it should be. *)
LEMMA QuietStep ==
  ASSUME IInv, NEW t \in Thread, NEW l \in Labels, NEW j \in Jobs, Moves(t, l, j),
         answer' \in {"none", "ok", "error"},
         UNCHANGED <<minted, running, boot, exited, cut>>,
         node = "up",
         IsNodeState(db'), SchemaValid(db'), HasRoot(db'),
         db'.procs = db.procs, SameApps,
         apps \subseteq apps', apps' \subseteq AppId, DOMAIN db'.apps \subseteq apps',
         IsMap(proxy', RuleId, Rule), pulling' \subseteq Package, fetched' \subseteq Package,
         l \in Launching => pc[t] \in Launching /\ j.proc = job[t].proc,
         pc[t] \in Holding => l \in Holding /\ j.proc = job[t].proc,
         ThreadOK(t)'
  PROVE  IInv'
  <1>0. /\ TypeOK /\ Document /\ Booting /\ Containers /\ Recorded /\ Alone
        /\ \A s \in Thread : ThreadOK(s)
    BY DEF IInv
  <1>1. /\ pc' \in [Thread -> Labels] /\ job' \in [Thread -> Jobs]
        /\ pc'[t] = l /\ job'[t] = j
        /\ \A s \in Thread \ {t} : pc'[s] = pc[s] /\ job'[s] = job[s]
    BY OneMoves
  <1>2. TypeOK'
    BY <1>0, <1>1, JobsHaveOps DEF TypeOK, Labels, boot
  <1>3. Document'
    <2>1. RecordMatchesApp'
      BY <1>0 DEF Document, RecordMatchesApp, SameApps
    <2>. QED
      BY <1>0, <2>1 DEF Document
  <1>4. Booting'
    BY <1>0 DEF Booting, boot
  <1>5. Containers'
    BY <1>0 DEF Containers
  <1>6. Recorded'
    <2>1. ASSUME NEW p, Held(p) PROVE Held(p)'
      BY <1>1, <2>1 DEF Held, boot
    <2>. QED
      BY <1>0, <2>1 DEF Recorded
  <1>7. Alone'
    BY <1>0, <1>1 DEF Alone
  <1>8. \A s \in Thread : ThreadOK(s)'
    <2>1. ASSUME NEW s \in Thread \ {t} PROVE ThreadOK(s)'
      BY <1>0, <1>1, OthersOK DEF ThreadOK, Placed, SameApps
    <2>. QED
      BY <2>1
  <1>. QED
    BY <1>1, <1>2, <1>3, <1>4, <1>5, <1>6, <1>7, <1>8 DEF IInv

-----------------------------------------------------------------------------
(* The handlers propose transitions.                                       *)
LEMMA RequestsAreTransitions == Requests \subseteq Transition
  <1>1. \A r \in InstallRequests :
          /\ r.config \in BOOLEAN /\ r.rules \in RuleMaps
          /\ [user |-> r.user, pkg |-> r.pkg, driver |-> r.driver] \in NewApp
    BY RequestsAssumption DEF NewApp
  <1>2. \A a \in AppId, r \in InstallRequests :
          StartInstallation(a, r, r.config, r.rules)
            = StartInstallation(a, [user |-> r.user, pkg |-> r.pkg, driver |-> r.driver],
                                r.config, r.rules)
    BY DEF StartInstallation
  <1>3. WithDID \subseteq User
    BY DEF WithDID
  <1>4. Targets \subseteq 0..(LatestVersion + 1)
    BY RequestsAssumption
  <1>. SUFFICES ASSUME NEW tr \in Requests PROVE tr \in Transition
    OBVIOUS
  <1>5. CASE \E v \in Targets : tr = Migration(v)
    BY <1>4, <1>5 DEF Transition
  <1>6. CASE \E u \in UserId, r \in WithDID : tr = AddUser(u, r)
    BY <1>3, <1>6 DEF Transition
  <1>7. CASE \E a \in AppId, r \in InstallRequests :
               tr = StartInstallation(a, r, r.config, r.rules)
    <2>1. PICK a \in AppId, r \in InstallRequests :
               tr = StartInstallation(a, r, r.config, r.rules)
      BY <1>7
    <2>2. \E b \in NewApp : tr = StartInstallation(a, b, r.config, r.rules)
      BY <1>1, <1>2, <2>1
    <2>3. r.config \in BOOLEAN /\ r.rules \in RuleMaps
      BY <1>1
    <2>. QED
      BY <2>2, <2>3 DEF Transition
  <1>8. CASE \E a \in AppId : tr = FinishInstallation(a) \/ tr = Uninstall(a)
    BY <1>8 DEF Transition
  <1>9. CASE \E p \in ProcId : \/ tr = ProcessStop(p)
                               \/ \E r \in Process : tr = ProcessStart(p, r)
    BY <1>9 DEF Transition
  <1>. QED
    BY <1>5, <1>6, <1>7, <1>8, <1>9 DEF Requests

(* What an accepted proposal makes of the document.                        *)
LEMMA AcceptedOK ==
  ASSUME NEW s, IsNodeState(s), HasRoot(s), NEW tr \in Requests, Accepts(s, tr)
  PROVE  /\ IsNodeState(Patch(s, tr)) /\ SchemaValid(Patch(s, tr))
         /\ HasRoot(Patch(s, tr))
  <1>1. tr \in Transition /\ Validate(s, tr)
    BY RequestsAreTransitions DEF Accepts
  <1>. QED
    BY <1>1, PatchIsNodeState, PatchUsers DEF Accepts, HasRoot

(* Proposals that add no app and leave the processes alone.                *)
Sparing ==
  UNION {{Migration(v)          : v \in Targets},
         {AddUser(u, r)         : u \in UserId, r \in WithDID},
         {FinishInstallation(a) : a \in AppId},
         {Uninstall(a)          : a \in AppId}}

(* A sparing proposal keeps the records and adds or retypes no app.          *)
LEMMA SparingEffect ==
  ASSUME NEW s, IsNodeState(s), NEW tr \in Sparing, Validate(s, tr),
         NEW n, n = Patch(s, tr)
  PROVE  /\ n.procs = s.procs
         /\ \A a \in DOMAIN n.apps : /\ a \in DOMAIN s.apps
                                     /\ n.apps[a].user = s.apps[a].user
                                     /\ n.apps[a].driver = s.apps[a].driver
  <1>1. CASE \E v \in Targets : tr = Migration(v)
    <2>1. PICK v \in Targets : tr = Migration(v)
      BY <1>1
    <2>2. v \in 1..LatestVersion /\ Patch(s, tr) = MigratedData(s, v)
      BY <2>1, MigrationEffect DEF MigrationValid, Migration
    <2>. QED
      BY <2>2, MigratedParts
  <1>2. CASE \E u \in UserId, r \in WithDID : tr = AddUser(u, r)
    BY <1>2, AddUserEffect DEF NodeState
  <1>3. CASE \E a \in AppId : tr = FinishInstallation(a)
    <2>1. PICK a \in AppId : tr = FinishInstallation(a)
      BY <1>3
    <2>2. /\ a \in DOMAIN s.apps
          /\ n = NodeState(s.version, s.users,
                              [s.apps EXCEPT ![a].state = "installed"], s.procs, s.rules)
      BY <2>1, FinishInstallationEffect DEF FinishInstallationValid, FinishInstallation
    <2>3. s.apps \in [DOMAIN s.apps -> App]
      BY DEF IsNodeState, IsMap
    <2>4. n.procs = s.procs /\ n.apps = [s.apps EXCEPT ![a].state = "installed"]
      BY <2>2 DEF NodeState
    <2>. QED
      BY <2>3, <2>4 DEF App
  <1>4. CASE \E a \in AppId : tr = Uninstall(a)
    <2>1. PICK a \in AppId : tr = Uninstall(a)
      BY <1>4
    <2>2. n = NodeState(s.version, s.users, Drop(s.apps, a), s.procs, s.rules)
      BY <2>1, UninstallEffect
    <2>3. n.procs = s.procs /\ n.apps = Drop(s.apps, a)
      BY <2>2 DEF NodeState
    <2>. QED
      BY <2>3 DEF Drop, Restrict
  <1>. QED
    BY <1>1, <1>2, <1>3, <1>4 DEF Sparing

(* The sparing proposals are among those the handlers make.                  *)
LEMMA SparingAreRequests == Sparing \subseteq Requests
  BY DEF Sparing, Requests

(* A sparing proposal that is saved, or dropped.                           *)
LEMMA SparingSave ==
  ASSUME IInv, node = "up", NEW tr \in Sparing, Accepts(db, tr), Save(tr)
  PROVE  /\ IsNodeState(db') /\ SchemaValid(db') /\ HasRoot(db')
         /\ db'.procs = db.procs /\ SameApps
         /\ DOMAIN db'.apps \subseteq DOMAIN db.apps
  <1>1. IsNodeState(db) /\ SchemaValid(db) /\ HasRoot(db) /\ DOMAIN db.apps \subseteq apps
    BY DEF IInv, TypeOK, Document
  <1>2. CASE db' = db
    BY <1>1, <1>2 DEF SameApps
  <1>3. CASE db' = Patch(db, tr)
    BY <1>1, <1>3, AcceptedOK, SparingEffect, SparingAreRequests DEF SameApps, Accepts
  <1>. QED
    BY <1>2, <1>3 DEF Save

-----------------------------------------------------------------------------
(* Whoever is not idle serves a request of a node that is up.              *)
LEMMA BusyIsUp ==
  ASSUME IInv, NEW t \in Thread, pc[t] # "idle"
  PROVE  /\ node = "up" /\ pending = {} /\ HasRoot(db)
         /\ ThreadOK(t) /\ job[t] \in Jobs
  BY DEF IInv, TypeOK, Booting, Document

(* A handler that has answered knows nothing.                              *)
LEMMA IdleIsOK ==
  ASSUME NEW t \in Thread, pc'[t] = "idle"
  PROVE  ThreadOK(t)'
  BY DEF ThreadOK, Placed, Current, Clear, Starting, Stopping, Launching

(* A step of one handler that changes its own variables.                   *)
LEMMA ThreadsOnly ==
  ASSUME IInv, NEW t \in Thread, NEW l \in Labels, NEW j \in Jobs, Moves(t, l, j),
         answer' \in {"none", "ok", "error"}, node = "up",
         UNCHANGED <<store, daemon, boot, proxy, exited, cut>>,
         l \in Launching => pc[t] \in Launching /\ j.proc = job[t].proc,
         pc[t] \in Holding => l \in Holding /\ j.proc = job[t].proc,
         l = "idle" \/ ThreadOK(t)'
  PROVE  IInv'
  <1>1. /\ TypeOK /\ HasRoot(db) /\ DOMAIN db.apps \subseteq apps
    BY DEF IInv, Document
  <1>2. SameApps
    BY DEF SameApps, store
  <1>3. ThreadOK(t)'
    BY OneMoves, IdleIsOK
  <1>4. /\ IsNodeState(db') /\ SchemaValid(db') /\ HasRoot(db')
        /\ IsMap(proxy', RuleId, Rule) /\ pulling' \subseteq Package /\ fetched' \subseteq Package
        /\ apps' = apps /\ apps \subseteq AppId /\ db' = db
    BY <1>1 DEF TypeOK, store, daemon, images
  <1>5. UNCHANGED <<minted, running, boot, exited, cut>>
    BY DEF store, daemon
  <1>. QED
    BY <1>1, <1>2, <1>3, <1>4, <1>5, QuietStep

(* A handler that answers and holds nothing.                               *)
LEMMA Answers ==
  ASSUME IInv, NEW t \in Thread, NEW r \in {"ok", "error"}, Answer(t, r), node = "up",
         pc[t] \notin Holding, UNCHANGED <<store, daemon, boot, proxy, exited, cut>>
  PROVE  IInv'
  <1>1. NoJob \in Jobs /\ "idle" \in Labels /\ Moves(t, "idle", NoJob)
    BY DEF Jobs, Labels, Answer, Moves
  <1>2. answer' \in {"none", "ok", "error"}
    BY DEF Answer
  <1>. QED
    BY <1>1, <1>2, ThreadsOnly DEF Launching

(* A start that has read no rules has none to add.                           *)
LEMMA NoEntriesIsMap == NoEntries \in RuleMaps
  <1>1. NoEntries \in [{} -> Rule]
    BY DEF NoEntries
  <1>. QED
    BY <1>1 DEF RuleMaps

(* What a start reads.                                                     *)
LEMMA StartJobOK ==
  ASSUME IInv, NEW a \in DOMAIN db.apps
  PROVE  /\ StartJob(a) \in StartJobs /\ StartJob(a) \in Jobs
         /\ StartJob(a).app = a /\ StartJob(a).inst = db.apps[a] /\ a \in apps
  <1>1. a \in AppId /\ db.apps[a] \in App /\ a \in apps
    BY DEF IInv, TypeOK, IsNodeState, IsMap, Document
  <1>. QED
    BY <1>1, NoEntriesIsMap DEF StartJob, StartJobs, Jobs

(* A start that read its app holds what the document has of it.              *)
LEMMA StartReads ==
  ASSUME IInv, NEW t \in Thread, NEW a \in DOMAIN db.apps, node = "up",
         pc[t] \notin Holding, Step(t, "record", StartJob(a)),
         UNCHANGED <<store, daemon, boot, proxy, exited, cut>>
  PROVE  IInv'
  <1>1. /\ Moves(t, "record", StartJob(a)) /\ "record" \in Labels
        /\ answer' \in {"none", "ok", "error"}
    BY DEF Step, Moves, Labels
  <1>2. pc'[t] = "record" /\ job'[t] = StartJob(a)
    BY <1>1, StartJobOK, OneMoves
  <1>3. Placed(t)'
    BY <1>2, StartJobOK DEF Placed, Starting, Stopping, store
  <1>4. Current(t)' /\ Clear(t)'
    BY <1>2, StartJobOK DEF Current, Clear, Launching, store
  <1>. QED
    BY <1>1, <1>3, <1>4, StartJobOK, ThreadsOnly DEF ThreadOK, Launching

(* StartProcess keeps the invariant.                                         *)
LEMMA StartProcessStep ==
  ASSUME IInv, NEW t \in Thread, NEW a, StartProcess(t, a)
  PROVE  IInv'
  <1>1. CASE a \in DOMAIN db.apps
    BY <1>1, StartReads DEF StartProcess, Begin, Holding, Launching
  <1>2. CASE a \notin DOMAIN db.apps
    BY <1>2, Answers DEF StartProcess, Holding, Launching
  <1>. QED
    BY <1>1, <1>2

(* The start that ends an installation keeps the invariant.                  *)
LEMMA StartInstalledStep ==
  ASSUME IInv, NEW t \in Thread, StartInstalled(t)
  PROVE  IInv'
  <1>1. pc[t] = "restart" /\ node = "up" /\ pc[t] \notin Holding
    BY BusyIsUp DEF StartInstalled, Holding, Launching
  <1>. QED
    BY <1>1, StartReads, Answers DEF StartInstalled

(* A start that goes on with the process it has.                           *)
LEMMA StartGoesOn ==
  ASSUME IInv, NEW t \in Thread, pc[t] \in Starting, NEW l \in Starting,
         Step(t, l, job[t]), UNCHANGED <<store, daemon, boot, proxy, exited, cut>>,
         l \in Launching => pc[t] \in Launching,
         pc[t] \in Holding => l \in Holding
  PROVE  IInv'
  <1>1. node = "up" /\ ThreadOK(t) /\ job[t] \in Jobs
    BY BusyIsUp DEF Starting
  <1>2. Moves(t, l, job[t]) /\ l \in Labels /\ answer' \in {"none", "ok", "error"}
    BY DEF Step, Moves, Labels, Starting
  <1>3. pc'[t] = l /\ job'[t] = job[t]
    BY <1>1, <1>2, OneMoves
  <1>4. job[t] \in StartJobs /\ job[t].proc \in DOMAIN minted
    BY <1>1 DEF ThreadOK, Placed
  <1>5. Placed(t)'
    BY <1>3, <1>4 DEF Placed, Starting, Stopping, store
  <1>6. Current(t)'
    BY <1>3 DEF Current, Starting
  <1>7. Clear(t)'
    BY <1>1, <1>3 DEF Clear, ThreadOK, daemon
  <1>. QED
    BY <1>1, <1>2, <1>5, <1>6, <1>7, ThreadsOnly DEF ThreadOK

(* The check for a driver and a running container keeps the invariant. *)
LEMMA LaunchStep ==
  ASSUME IInv, NEW t \in Thread, Launch(t)
  PROVE  IInv'
  BY StartGoesOn DEF Launch, Starting, Launching, Holding

(* The rules of an app are rules.                                          *)
LEMMA SomeRules ==
  ASSUME NEW f, IsMap(f, RuleId, Rule), NEW S \in SUBSET DOMAIN f
  PROVE  Restrict(f, S) \in RuleMaps
  <1>1. S \in SUBSET RuleId /\ Restrict(f, S) \in [S -> Rule]
    BY DEF IsMap, Restrict
  <1>. QED
    BY <1>1 DEF RuleMaps

(* A start past its container, with other rules.                           *)
LEMMA Routes ==
  ASSUME IInv, NEW t \in Thread, pc[t] \in {"readrules", "route"},
         NEW rs \in RuleMaps, Step(t, "route", [job[t] EXCEPT !.rules = rs]),
         UNCHANGED <<store, daemon, boot, exited, cut>>, IsMap(proxy', RuleId, Rule)
  PROVE  IInv'
  <1> DEFINE j == [job[t] EXCEPT !.rules = rs]
  <1>1. node = "up" /\ ThreadOK(t) /\ job[t] \in Jobs
    BY BusyIsUp
  <1>2. job[t] \in StartJobs /\ job[t].proc \in DOMAIN minted
    BY <1>1 DEF ThreadOK, Placed, Starting
  <1>3. j \in StartJobs /\ j.proc = job[t].proc
    BY <1>2 DEF StartJobs
  <1>4. j \in Jobs /\ "route" \in Labels
    BY <1>3 DEF Jobs, Labels
  <1>5. Moves(t, "route", j) /\ answer' \in {"none", "ok", "error"}
    BY DEF Step, Moves
  <1>6. pc'[t] = "route" /\ job'[t] = j
    BY <1>4, <1>5, OneMoves
  <1>7. ThreadOK(t)'
    <2>1. Placed(t)'
      BY <1>2, <1>3, <1>6 DEF Placed, Starting, Stopping, store
    <2>2. Current(t)' /\ Clear(t)'
      BY <1>6 DEF Current, Clear, Launching
    <2>. QED
      BY <2>1, <2>2 DEF ThreadOK
  <1>8. SameApps /\ IsNodeState(db') /\ SchemaValid(db') /\ HasRoot(db')
        /\ DOMAIN db'.apps \subseteq apps' /\ apps' \subseteq AppId
        /\ pulling' \subseteq Package /\ fetched' \subseteq Package
    BY <1>1 DEF IInv, TypeOK, Document, SameApps, store, daemon, images
  <1>9. UNCHANGED <<minted, running, boot, exited, cut>> /\ db' = db /\ apps' = apps
    BY DEF store, daemon
  <1>. QED
    BY <1>1, <1>4, <1>5, <1>7, <1>8, <1>9, QuietStep DEF Launching, Holding

(* Reading the rules of the app keeps the invariant.                         *)
LEMMA ReadRulesStep ==
  ASSUME IInv, NEW t \in Thread, ReadRules(t)
  PROVE  IInv'
  <1>1. IsMap(db.rules, RuleId, Rule) /\ IsMap(proxy', RuleId, Rule)
    BY DEF IInv, TypeOK, IsNodeState, ReadRules
  <1> DEFINE own == {r \in DOMAIN db.rules : db.rules[r].app = job[t].app}
  <1>2. Restrict(db.rules, own) \in RuleMaps
    BY <1>1, SomeRules
  <1>. QED
    BY <1>1, <1>2, Routes DEF ReadRules

(* The entries of a map of rules are rules, and taking one leaves a map of rules. *)
LEMMA RuleMapsEntries ==
  ASSUME NEW f \in RuleMaps, NEW r \in DOMAIN f
  PROVE  r \in RuleId /\ f[r] \in Rule /\ Drop(f, r) \in RuleMaps
  <1>1. IsMap(f, RuleId, Rule)
    BY RuleMapsAreMaps
  <1>. QED
    BY <1>1, SomeRules DEF IsMap, Drop

(* Adding one rule to the proxy keeps the invariant.                         *)
LEMMA AddRuleStep ==
  ASSUME IInv, NEW t \in Thread, AddRule(t)
  PROVE  IInv'
  <1>1. node = "up" /\ pc[t] = "route" /\ job[t] \in StartJobs /\ pc[t] \notin Holding
    BY BusyIsUp DEF AddRule, ThreadOK, Placed, Starting, Holding, Launching
  <1>2. job[t].rules \in RuleMaps /\ IsMap(proxy, RuleId, Rule)
    BY <1>1 DEF StartJobs, IInv, TypeOK
  <1>3. CASE Answer(t, "ok") /\ UNCHANGED proxy
    BY <1>1, <1>3, Answers DEF AddRule
  <1>4. ASSUME NEW r \in DOMAIN job[t].rules, proxy' = Put(proxy, r, job[t].rules[r]),
               Step(t, "route", [job[t] EXCEPT !.rules = Drop(@, r)])
        PROVE  IInv'
    <2>1. IsMap(proxy', RuleId, Rule) /\ Drop(job[t].rules, r) \in RuleMaps
      BY <1>2, <1>4, RuleMapsEntries, PutMap
    <2>. QED
      BY <1>1, <1>4, <2>1, Routes DEF AddRule
  <1>. QED
    BY <1>3, <1>4 DEF AddRule

(* StopProcess keeps the invariant.                                          *)
LEMMA StopProcessStep ==
  ASSUME IInv, NEW t \in Thread, NEW p \in DOMAIN minted, StopProcess(t, p)
  PROVE  IInv'
  <1> DEFINE j == [op |-> "stop", proc |-> p]
  <1>1. node = "up" /\ pc[t] = "idle" /\ pc[t] \notin Holding
    BY DEF StopProcess, Begin, Holding, Launching
  <1>2. ASSUME NEW l \in Stopping, Begin(t, l, j) PROVE IInv'
    <2>1. p \in ProcId
      BY DEF IInv, TypeOK, IsMap
    <2>2. j \in StopJobs /\ j \in Jobs /\ l \in Labels /\ l \notin Launching
      BY <2>1 DEF StopJobs, Jobs, Labels, Stopping, Launching
    <2>3. Moves(t, l, j) /\ answer' \in {"none", "ok", "error"}
      BY <1>2 DEF Begin, Step, Moves
    <2>4. pc'[t] = l /\ job'[t] = j
      BY <2>2, <2>3, OneMoves
    <2>5. ThreadOK(t)'
      BY <2>2, <2>4 DEF ThreadOK, Placed, Current, Clear, Starting, Stopping, Launching,
                        StopProcess, store
    <2>. QED
      BY <1>1, <2>2, <2>3, <2>5, ThreadsOnly DEF StopProcess
  <1>3. CASE Answer(t, "error")
    BY <1>1, <1>3, Answers DEF StopProcess
  <1>. QED
    BY <1>2, <1>3 DEF StopProcess, Stopping

(* MigrateDB keeps the invariant.                                            *)
LEMMA MigrateDBStep ==
  ASSUME IInv, NEW t \in Thread, NEW v \in Targets, MigrateDB(t, v)
  PROVE  IInv'
  <1> DEFINE j == [op |-> "migrate", target |-> v]
  <1>1. node = "up" /\ pc[t] = "idle" /\ pc[t] \notin Holding
    BY DEF MigrateDB, Begin, Holding, Launching
  <1>2. CASE db.version # v
    <2>1. j \in MigrateJobs /\ j \in Jobs /\ "migrate" \in Labels
      BY DEF MigrateJobs, Jobs, Labels
    <2>2. Moves(t, "migrate", j) /\ answer' \in {"none", "ok", "error"}
      BY <1>2 DEF MigrateDB, Begin, Step, Moves
    <2>3. pc'[t] = "migrate" /\ job'[t] = j
      BY <2>1, <2>2, OneMoves
    <2>4. ThreadOK(t)'
      BY <2>1, <2>3 DEF ThreadOK, Placed, Current, Clear, Starting, Stopping, Launching
    <2>. QED
      BY <1>1, <2>1, <2>2, <2>4, ThreadsOnly DEF MigrateDB, Launching
  <1>3. CASE db.version = v
    BY <1>1, <1>3, Answers DEF MigrateDB
  <1>. QED
    BY <1>2, <1>3

-----------------------------------------------------------------------------
(* A handler that goes on, its package fetched or not.                     *)
LEMMA PullPackageStep ==
  ASSUME IInv, NEW t \in Thread, PullPackage(t)
  PROVE  IInv'
  <1>1. /\ node = "up" /\ pc[t] = "pull" /\ job[t] \in InstallJobs /\ job[t] \in Jobs
        /\ pc[t] \notin Holding
    BY BusyIsUp DEF PullPackage, ThreadOK, Placed, Holding, Launching
  <1>2. job[t].req.pkg \in Package
    BY <1>1, RequestsAssumption DEF InstallJobs
  <1>3. CASE Step(t, "finish", job[t])
    <2>1. Moves(t, "finish", job[t]) /\ "finish" \in Labels /\ answer' \in {"none", "ok", "error"}
      BY <1>3 DEF Step, Moves, Labels
    <2>2. pc'[t] = "finish" /\ job'[t] = job[t]
      BY <1>1, <2>1, OneMoves
    <2>3. ThreadOK(t)'
      BY <1>1, <2>2 DEF ThreadOK, Placed, Current, Clear, Starting, Stopping, Launching
    <2>4. pulling' \subseteq Package /\ fetched' \subseteq Package
      BY <1>2, <1>3 DEF PullPackage, Fetch, IInv, TypeOK, images
    <2>5. /\ SameApps /\ IsNodeState(db') /\ SchemaValid(db') /\ HasRoot(db')
          /\ DOMAIN db'.apps \subseteq apps' /\ apps' \subseteq AppId
          /\ IsMap(proxy', RuleId, Rule) /\ db' = db /\ apps' = apps
          /\ UNCHANGED <<minted, running, boot, exited, cut>>
      BY <1>1 DEF PullPackage, IInv, TypeOK, Document, SameApps, store
    <2>. QED
      BY <1>1, <2>1, <2>3, <2>4, <2>5, QuietStep DEF Launching
  <1>4. CASE Answer(t, "error") /\ UNCHANGED images
    BY <1>1, <1>4, Answers DEF PullPackage, daemon
  <1>. QED
    BY <1>3, <1>4 DEF PullPackage

(* A handler that has proposed a sparing transition.                       *)
LEMMA Proposes ==
  ASSUME IInv, NEW t \in Thread, node = "up", pc[t] \notin Holding,
         NEW tr \in Sparing, Accepts(db, tr), Save(tr),
         NEW l \in Labels, NEW j \in Jobs, Moves(t, l, j), l \notin Launching,
         answer' \in {"none", "ok", "error"},
         UNCHANGED <<minted, apps, daemon, boot, proxy, exited, cut>>,
         l = "idle" \/ ThreadOK(t)'
  PROVE  IInv'
  <1>1. /\ IsNodeState(db') /\ SchemaValid(db') /\ HasRoot(db')
        /\ db'.procs = db.procs /\ SameApps /\ DOMAIN db'.apps \subseteq DOMAIN db.apps
    BY SparingSave
  <1>2. ThreadOK(t)'
    BY OneMoves, IdleIsOK
  <1>3. /\ DOMAIN db'.apps \subseteq apps' /\ apps' \subseteq AppId
        /\ IsMap(proxy', RuleId, Rule) /\ apps' = apps
        /\ pulling' \subseteq Package /\ fetched' \subseteq Package
        /\ UNCHANGED <<minted, running, boot, exited, cut>>
    BY <1>1 DEF IInv, TypeOK, Document, daemon, images
  <1>. QED
    BY <1>1, <1>2, <1>3, QuietStep

(* A handler whose last act is a sparing proposal keeps the invariant.       *)
LEMMA ProposesAndAnswers ==
  ASSUME IInv, NEW t \in Thread, node = "up", pc[t] \notin Holding, NEW tr \in Sparing,
         IF Accepts(db, tr)
         THEN Save(tr) /\ Answer(t, "ok")
         ELSE UNCHANGED db /\ Answer(t, "error"),
         UNCHANGED <<minted, apps, daemon, boot, proxy, exited, cut>>
  PROVE  IInv'
  <1>1. NoJob \in Jobs /\ "idle" \in Labels
    BY DEF Jobs, Labels
  <1>2. CASE Accepts(db, tr)
    <2>1. Moves(t, "idle", NoJob) /\ answer' \in {"none", "ok", "error"}
      BY <1>2 DEF Answer, Moves
    <2>. QED
      BY <1>1, <1>2, <2>1, Proposes DEF Launching
  <1>3. CASE ~Accepts(db, tr)
    BY <1>3, Answers DEF store
  <1>. QED
    BY <1>2, <1>3

(* So does a handler that does nothing else.                                 *)
LEMMA ProposeOnlyStep ==
  ASSUME IInv, NEW t \in Thread, NEW tr \in Sparing, ProposeOnly(t, tr)
  PROVE  IInv'
  BY ProposesAndAnswers DEF ProposeOnly, Holding, Launching

(* Adding a user keeps the invariant.                                        *)
LEMMA AddUserStep ==
  ASSUME IInv, NEW t \in Thread, NEW n \in Username, AddUserToNode(t, n)
  PROVE  IInv'
  <1>1. PICK u \in UserId : ProposeOnly(t, AddUser(u, [name |-> n, did |-> TRUE]))
    BY DEF AddUserToNode
  <1>2. [name |-> n, did |-> TRUE] \in WithDID
    BY DEF WithDID, User
  <1>3. \A r \in WithDID : AddUser(u, r) \in Sparing
    BY DEF Sparing
  <1>. QED
    BY <1>1, <1>2, <1>3, ProposeOnlyStep

(* Uninstalling an app keeps the invariant.                                  *)
LEMMA UninstallStep ==
  ASSUME IInv, NEW t \in Thread, NEW a \in apps, UninstallApp(t, a)
  PROVE  IInv'
  <1>1. a \in AppId
    BY DEF IInv, TypeOK
  <1>. QED
    BY <1>1, ProposeOnlyStep DEF UninstallApp, Sparing

(* The migration that a handler proposes keeps the invariant.                *)
LEMMA ProposeMigrationStep ==
  ASSUME IInv, NEW t \in Thread, ProposeMigration(t)
  PROVE  IInv'
  <1>1. node = "up" /\ job[t] \in MigrateJobs /\ pc[t] \notin Holding
    BY BusyIsUp DEF ProposeMigration, ThreadOK, Placed, Holding, Launching
  <1>2. Migration(job[t].target) \in Sparing
    BY <1>1 DEF MigrateJobs, Sparing
  <1>. QED
    BY <1>1, <1>2, ProposesAndAnswers DEF ProposeMigration

(* Marking an app installed keeps the invariant.                             *)
LEMMA FinishInstallStep ==
  ASSUME IInv, NEW t \in Thread, FinishInstall(t)
  PROVE  IInv'
  <1> DEFINE a == job[t].app
             j == [op |-> "starting", app |-> a]
  <1>1. node = "up" /\ pc[t] = "finish" /\ job[t] \in InstallJobs /\ pc[t] \notin Holding
    BY BusyIsUp DEF FinishInstall, ThreadOK, Placed, Holding, Launching
  <1>2. a \in AppId /\ FinishInstallation(a) \in Sparing
    BY <1>1 DEF InstallJobs, Sparing
  <1>3. CASE Accepts(db, FinishInstallation(a)) /\ Step(t, "restart", j)
    <2>1. /\ j \in StartingJobs /\ j \in Jobs /\ "restart" \in Labels
          /\ "restart" \notin Launching
      BY <1>2 DEF StartingJobs, Jobs, Labels, Launching
    <2>2. Moves(t, "restart", j) /\ answer' \in {"none", "ok", "error"}
      BY <1>3 DEF Step, Moves
    <2>3. pc'[t] = "restart" /\ job'[t] = j
      BY <2>1, <2>2, OneMoves
    <2>4. ThreadOK(t)'
      BY <2>1, <2>3 DEF ThreadOK, Placed, Current, Clear, Starting, Stopping, Launching
    <2>5. Save(FinishInstallation(a))
      BY <1>3 DEF FinishInstall
    <2>. QED
      BY <1>1, <1>2, <1>3, <2>1, <2>2, <2>4, <2>5, Proposes DEF FinishInstall
  <1>4. CASE ~(Accepts(db, FinishInstallation(a)) /\ Step(t, "restart", j))
    BY <1>1, <1>2, <1>4, ProposesAndAnswers DEF FinishInstall, Installed
  <1>. QED
    BY <1>3, <1>4

(***************************************************************************)
(* An installation adds an app under an ID that nobody remembers.          *)
(***************************************************************************)
LEMMA InstallSave ==
  ASSUME IInv, node = "up", NEW a \in AppId \ apps, NEW req \in InstallRequests,
         LET tr == StartInstallation(a, req, req.config, req.rules)
         IN Accepts(db, tr) /\ Save(tr)
  PROVE  /\ IsNodeState(db') /\ SchemaValid(db') /\ HasRoot(db')
         /\ db'.procs = db.procs /\ SameApps
         /\ DOMAIN db'.apps \subseteq apps \cup {a}
  <1> DEFINE tr == StartInstallation(a, req, req.config, req.rules)
  <1>1. IsNodeState(db) /\ SchemaValid(db) /\ HasRoot(db) /\ DOMAIN db.apps \subseteq apps
    BY DEF IInv, TypeOK, Document
  <1>2. CASE db' = db
    BY <1>1, <1>2 DEF SameApps
  <1>3. CASE db' = Patch(db, tr)
    <2>1. tr \in Requests
      BY DEF Requests
    <2>2. IsNodeState(db') /\ SchemaValid(db') /\ HasRoot(db')
      BY <1>1, <1>3, <2>1, AcceptedOK
    <2>3. db' = NodeState(db.version, db.users, Put(db.apps, a, Installing(req)),
                          db.procs, Overlay(db.rules, req.rules))
      BY <1>1, <1>3, StartInstallationEffect
    <2>4. db'.procs = db.procs /\ db'.apps = Put(db.apps, a, Installing(req))
      BY <2>3 DEF NodeState
    <2>5. SameApps /\ DOMAIN db'.apps \subseteq apps \cup {a}
      BY <1>1, <2>4 DEF SameApps, Put
    <2>. QED
      BY <2>2, <2>4, <2>5
  <1>. QED
    BY <1>2, <1>3 DEF Save

(* Recording an app as installing keeps the invariant: its ID is new to everybody. *)
LEMMA InstallAppStep ==
  ASSUME IInv, NEW t \in Thread, NEW req \in InstallRequests, InstallApp(t, req)
  PROVE  IInv'
  <1>1. node = "up" /\ pc[t] = "idle" /\ pc[t] \notin Holding
    BY DEF InstallApp, Holding, Launching
  <1>2. PICK a \in AppId \ apps :
          LET tr == StartInstallation(a, req, req.config, req.rules)
          IN IF req.driver \in Installable /\ Accepts(db, tr)
             THEN /\ Save(tr)
                  /\ apps' = apps \cup {a}
                  /\ Begin(t, "pull", [op |-> "install", app |-> a, req |-> req])
             ELSE Answer(t, "error") /\ UNCHANGED <<db, apps>>
    BY DEF InstallApp
  <1> DEFINE tr == StartInstallation(a, req, req.config, req.rules)
             j == [op |-> "install", app |-> a, req |-> req]
  <1>3. CASE req.driver \in Installable /\ Accepts(db, tr)
    <2>1. /\ IsNodeState(db') /\ SchemaValid(db') /\ HasRoot(db')
          /\ db'.procs = db.procs /\ SameApps /\ DOMAIN db'.apps \subseteq apps \cup {a}
      BY <1>1, <1>2, <1>3, InstallSave
    <2>2. j \in InstallJobs /\ j \in Jobs /\ "pull" \in Labels /\ "pull" \notin Launching
      BY DEF InstallJobs, Jobs, Labels, Launching
    <2>3. Moves(t, "pull", j) /\ answer' \in {"none", "ok", "error"}
      BY <1>2, <1>3 DEF Begin, Step, Moves
    <2>4. pc'[t] = "pull" /\ job'[t] = j
      BY <2>2, <2>3, OneMoves
    <2>5. ThreadOK(t)'
      BY <2>2, <2>4 DEF ThreadOK, Placed, Current, Clear, Starting, Stopping, Launching
    <2>6. /\ apps' = apps \cup {a} /\ apps \subseteq apps' /\ apps' \subseteq AppId
          /\ DOMAIN db'.apps \subseteq apps'
          /\ IsMap(proxy', RuleId, Rule)
          /\ pulling' \subseteq Package /\ fetched' \subseteq Package
          /\ UNCHANGED <<minted, running, boot, exited, cut>>
      BY <1>2, <1>3, <2>1 DEF InstallApp, IInv, TypeOK, Document, daemon, images
    <2>. QED
      BY <1>1, <2>1, <2>2, <2>3, <2>5, <2>6, QuietStep
  <1>4. CASE ~(req.driver \in Installable /\ Accepts(db, tr))
    BY <1>1, <1>2, <1>4, Answers DEF InstallApp, store
  <1>. QED
    BY <1>3, <1>4

-----------------------------------------------------------------------------
(***************************************************************************)
(* A start draws an ID that no process has or had, and records it under    *)
(* the user and the driver of the app in the document.                     *)
(***************************************************************************)
LEMMA FreshID ==
  ASSUME IInv, NEW drv \in Driver, NEW u \in FreshUuids
  PROVE  /\ NewID(drv, u) \in ProcId /\ NewID(drv, u) \notin DOMAIN minted
         /\ DriverFromID(NewID(drv, u)) = drv
         /\ running[NewID(drv, u)] = 0
  <1>1. u \in ProcUuid /\ \A p \in DOMAIN minted : p[2] # u
    BY DEF FreshUuids
  <1>2. /\ NewID(drv, u) \in ProcId /\ NewID(drv, u) \notin DOMAIN minted
        /\ DriverFromID(NewID(drv, u)) = drv
    BY <1>1 DEF NewID, ProcId, DriverFromID
  <1>3. running[NewID(drv, u)] \in Nat /\ ~(running[NewID(drv, u)] > 0)
    BY <1>2 DEF IInv, TypeOK, Containers
  <1>. QED
    BY <1>2, <1>3

(* What recording a process makes of the document: at most one record more.  *)
LEMMA RecordSave ==
  ASSUME IInv, node = "up", NEW id \in ProcId, NEW r \in Process,
         Accepts(db, ProcessStart(id, r)), Save(ProcessStart(id, r))
  PROVE  /\ IsNodeState(db') /\ SchemaValid(db') /\ HasRoot(db')
         /\ db'.apps = db.apps
         /\ r.app \in DOMAIN db.apps
         /\ db'.procs = db.procs \/ db'.procs = Put(db.procs, id, r)
  <1> DEFINE tr == ProcessStart(id, r)
  <1>1. IsNodeState(db) /\ SchemaValid(db) /\ HasRoot(db)
    BY DEF IInv, TypeOK, Document
  <1>2. ProcessStartValid(db, tr)
    BY <1>1, ProcessStartEffect DEF Accepts
  <1>3. r.app \in DOMAIN db.apps
    BY <1>2 DEF ProcessStartValid, ProcessStart
  <1>4. CASE db' = db
    BY <1>1, <1>3, <1>4
  <1>5. CASE db' = Patch(db, tr)
    <2>1. tr \in Requests
      BY DEF Requests
    <2>2. IsNodeState(db') /\ SchemaValid(db') /\ HasRoot(db')
      BY <1>1, <1>5, <2>1, AcceptedOK
    <2>3. db' = NodeState(db.version, db.users, db.apps, Put(db.procs, id, r), db.rules)
      BY <1>1, <1>5, ProcessStartEffect
    <2>4. db'.apps = db.apps /\ db'.procs = Put(db.procs, id, r)
      BY <2>3 DEF NodeState
    <2>. QED
      BY <1>3, <2>2, <2>4
  <1>. QED
    BY <1>4, <1>5 DEF Save

(* Recording a process keeps the invariant: its ID was never drawn before.   *)
LEMMA RecordProcessStep ==
  ASSUME IInv, NEW t \in Thread, RecordProcess(t)
  PROVE  IInv'
  <1>0. /\ TypeOK /\ Document /\ Booting /\ Containers /\ Recorded /\ Alone
        /\ \A s \in Thread : ThreadOK(s)
    BY DEF IInv
  <1>1. /\ node = "up" /\ pc[t] = "record" /\ job[t] \in StartJobs /\ job[t].app \in apps
        /\ pc[t] \notin Holding
    BY BusyIsUp DEF RecordProcess, ThreadOK, Placed, Holding, Launching
  <1>2. PICK u \in FreshUuids :
          LET j  == job[t]
              id == NewID(j.inst.driver, u)
              tr == ProcessStart(id, [app |-> j.app, user |-> j.inst.user])
          IN IF Accepts(db, tr)
             THEN /\ Save(tr)
                  /\ minted' = Put(minted, id, [app |-> j.app, pkg |-> j.inst.pkg])
                  /\ Step(t, "launch", [j EXCEPT !.proc = id])
             ELSE Answer(t, "error") /\ UNCHANGED <<db, minted>>
    BY DEF RecordProcess
  <1> DEFINE id == NewID(job[t].inst.driver, u)
             r  == [app |-> job[t].app, user |-> job[t].inst.user]
             j  == [job[t] EXCEPT !.proc = id]
             m  == [app |-> job[t].app, pkg |-> job[t].inst.pkg]
  <1>3. /\ job[t].app \in AppId /\ job[t].inst \in App
        /\ job[t].inst.driver \in Driver /\ r \in Process /\ m \in [app : AppId, pkg : Package]
    BY <1>1 DEF StartJobs, App, Process
  <1>4. PICK k \in ProcId :
          /\ k = id /\ k \notin DOMAIN minted
          /\ DriverFromID(k) = job[t].inst.driver /\ running[k] = 0
    BY <1>3, FreshID
  <1>5. CASE Accepts(db, ProcessStart(id, r))
    <2>1. /\ Save(ProcessStart(id, r)) /\ minted' = Put(minted, id, m)
          /\ Moves(t, "launch", j) /\ answer' \in {"none", "ok", "error"}
      BY <1>2, <1>5 DEF Step, Moves
    <2>2. /\ IsNodeState(db') /\ SchemaValid(db') /\ HasRoot(db')
          /\ db'.apps = db.apps /\ r.app \in DOMAIN db.apps
          /\ db'.procs = db.procs \/ db'.procs = Put(db.procs, k, r)
      BY <1>1, <1>3, <1>4, <1>5, <2>1, RecordSave
    <2>3. j \in StartJobs /\ j.proc = k
      BY <1>1, <1>4 DEF StartJobs
    <2>4. j \in Jobs /\ "launch" \in Labels
      BY <2>3 DEF Jobs, Labels
    <2>5. /\ pc' \in [Thread -> Labels] /\ job' \in [Thread -> Jobs]
          /\ pc'[t] = "launch" /\ job'[t] = j
          /\ \A s \in Thread \ {t} : pc'[s] = pc[s] /\ job'[s] = job[s]
      BY <2>1, <2>4, OneMoves
    <2>6. /\ IsMap(minted', ProcId, [app : AppId, pkg : Package])
          /\ DOMAIN minted' = DOMAIN minted \cup {k}
      <3>1. IsMap(minted, ProcId, [app : AppId, pkg : Package])
        BY <1>0 DEF TypeOK
      <3>2. minted' = Put(minted, k, m)
        BY <1>4, <2>1
      <3>3. DOMAIN minted' = DOMAIN minted \cup {k}
        BY <3>2 DEF Put
      <3>. QED
        BY <1>3, <3>1, <3>2, <3>3, PutMap
    <2>7. UNCHANGED <<apps, running, pulling, fetched, boot, proxy, exited, cut>>
      BY DEF RecordProcess, daemon, images
    <2>8. TypeOK'
      BY <1>0, <2>1, <2>2, <2>5, <2>6, <2>7, JobsHaveOps DEF TypeOK, Labels, boot
    <2>9. Document'
      <3>1. \A p \in DOMAIN db'.procs :
              \/ p \in DOMAIN db.procs /\ db'.procs[p] = db.procs[p]
              \/ p = k /\ db'.procs[p] = r
        BY <2>2 DEF Put
      <3>2. \/ r.user = db.apps[r.app].user /\ DriverFromID(k) = db.apps[r.app].driver
            \/ r.app \notin DOMAIN db.apps
        BY <1>0, <1>1, <1>4 DEF ThreadOK, Current
      <3>3. RecordMatchesApp'
        BY <1>0, <2>2, <3>1, <3>2 DEF Document, RecordMatchesApp
      <3>. QED
        BY <1>0, <1>1, <2>2, <2>6, <2>7, <3>1, <3>3 DEF Document, boot
    <2>10. Booting' /\ Containers'
      BY <1>0, <1>1, <2>6, <2>7 DEF Booting, Containers, boot
    <2>11. Recorded'
      <3>1. Held(k)'
        BY <2>3, <2>5 DEF Held, Holding, Launching
      <3>2. ASSUME NEW p, Held(p) PROVE Held(p)'
        BY <1>1, <2>5, <2>7, <3>2 DEF Held, boot
      <3>. QED
        BY <1>0, <2>2, <2>7, <3>1, <3>2 DEF Recorded, Put
    <2>12. Alone'
      <3>1. \A s \in Thread : pc[s] \in Launching => job[s].proc # k
        BY <1>0, <1>4 DEF ThreadOK, Placed, Starting, Launching
      <3>. QED
        BY <1>0, <2>3, <2>5, <3>1 DEF Alone
    <2>13. \A s \in Thread : ThreadOK(s)'
      <3>1. ASSUME NEW s \in Thread \ {t} PROVE ThreadOK(s)'
        BY <1>0, <2>2, <2>5, <2>6, <2>7, OthersOK
      <3>2. ThreadOK(t)'
        BY <1>4, <2>3, <2>5, <2>6, <2>7
           DEF ThreadOK, Placed, Current, Clear, Starting, Stopping, Launching
      <3>. QED
        BY <3>1, <3>2
    <2>. QED
      BY <2>5, <2>8, <2>9, <2>10, <2>11, <2>12, <2>13 DEF IInv
  <1>6. CASE ~Accepts(db, ProcessStart(id, r))
    BY <1>1, <1>2, <1>6, Answers DEF RecordProcess, store
  <1>. QED
    BY <1>5, <1>6

(***************************************************************************)
(* The container comes, for nobody else's process.                         *)
(***************************************************************************)
LEMMA CreateContainerStep ==
  ASSUME IInv, NEW t \in Thread, CreateContainer(t)
  PROVE  IInv'
  <1>0. /\ TypeOK /\ Document /\ Booting /\ Containers /\ Recorded /\ Alone
        /\ \A s \in Thread : ThreadOK(s)
    BY DEF IInv
  <1> DEFINE p == job[t].proc
  <1>1. /\ node = "up" /\ pc[t] = "create" /\ job[t] \in StartJobs /\ job[t] \in Jobs
        /\ p \in DOMAIN minted /\ running[p] = 0 /\ pending = {}
    BY BusyIsUp DEF CreateContainer, ThreadOK, Placed, Clear, Starting, Launching
  <1>2. p \in ProcId /\ running \in [ProcId -> Nat]
    BY <1>0, <1>1 DEF TypeOK, IsMap
  <1>3. CASE running' = [running EXCEPT ![p] = @ + 1] /\ Step(t, "readrules", job[t])
    <2>1. Moves(t, "readrules", job[t]) /\ answer' \in {"none", "ok", "error"}
      BY <1>3 DEF Step, Moves
    <2>2. /\ pc' \in [Thread -> Labels] /\ job' \in [Thread -> Jobs]
          /\ pc'[t] = "readrules" /\ job'[t] = job[t]
          /\ \A s \in Thread \ {t} : pc'[s] = pc[s] /\ job'[s] = job[s]
      BY <1>1, <2>1, OneMoves DEF Labels
    <2>3. /\ running' \in [ProcId -> Nat] /\ running'[p] = 1
          /\ \A q \in ProcId \ {p} : running'[q] = running[q]
      BY <1>1, <1>2, <1>3
    <2>4. UNCHANGED <<store, images, boot, proxy, exited, cut>>
      BY DEF CreateContainer
    <2>5. TypeOK'
      BY <1>0, <2>1, <2>2, <2>3, <2>4, JobsHaveOps DEF TypeOK, Labels, store, images, boot
    <2>6. Document'
      BY <1>0, <2>4 DEF Document, RecordMatchesApp, store, boot
    <2>7. Booting' /\ Containers'
      BY <1>0, <1>1, <2>3, <2>4 DEF Booting, Containers, store, boot
    <2>8. Recorded'
      <3>1. ASSUME NEW q, Held(q), q # p PROVE Held(q)'
        BY <1>1, <2>2, <2>4, <3>1 DEF Held, boot
      <3>2. DOMAIN db.procs \subseteq ProcId
        BY <1>0 DEF TypeOK, IsNodeState, IsMap
      <3>. QED
        BY <1>0, <2>3, <2>4, <3>1, <3>2 DEF Recorded, store
    <2>9. Alone'
      BY <1>0, <2>2 DEF Alone, Launching
    <2>10. \A s \in Thread : ThreadOK(s)'
      <3>1. ASSUME NEW s \in Thread \ {t} PROVE ThreadOK(s)'
        <4>1. pc[s] \in Launching => job[s].proc # p /\ job[s].proc \in ProcId
          BY <1>0, <1>1 DEF Alone, ThreadOK, Placed, Starting, Launching, TypeOK, IsMap
        <4>. QED
          BY <1>0, <2>2, <2>3, <2>4, <4>1, OthersOK DEF store
      <3>2. ThreadOK(t)'
        BY <1>1, <2>2, <2>4
           DEF ThreadOK, Placed, Current, Clear, Starting, Stopping, Launching, store
      <3>. QED
        BY <3>1, <3>2
    <2>. QED
      BY <2>2, <2>5, <2>6, <2>7, <2>8, <2>9, <2>10 DEF IInv
  <1>4. CASE Step(t, "rollback", job[t]) /\ UNCHANGED running
    BY <1>1, <1>4, StartGoesOn DEF CreateContainer, Starting, Launching, Holding, daemon
  <1>. QED
    BY <1>3, <1>4 DEF CreateContainer

-----------------------------------------------------------------------------
(***************************************************************************)
(* A process that is in the document can be removed, whatever the version. *)
(***************************************************************************)
LEMMA StopEffect ==
  ASSUME IInv, node = "up", NEW p \in ProcId
  PROVE  LET tr == ProcessStop(p) IN
         /\ p \in DOMAIN db.procs => Accepts(db, tr)
         /\ Accepts(db, tr) =>
              /\ IsNodeState(Patch(db, tr)) /\ SchemaValid(Patch(db, tr))
              /\ HasRoot(Patch(db, tr))
              /\ Patch(db, tr).apps = db.apps /\ Patch(db, tr).procs = Drop(db.procs, p)
  <1> DEFINE tr == ProcessStop(p)
  <1>1. IsNodeState(db) /\ SchemaValid(db) /\ HasRoot(db)
    BY DEF IInv, TypeOK, Document
  <1>2. /\ Validate(db, tr) <=> p \in DOMAIN db.procs
        /\ Patch(db, tr) = NodeState(db.version, db.users, db.apps, Drop(db.procs, p), db.rules)
    BY <1>1, ProcessStopEffect DEF ProcessStopValid, ProcessStop
  <1>3. Patch(db, tr).apps = db.apps /\ Patch(db, tr).procs = Drop(db.procs, p)
    BY <1>2 DEF NodeState
  <1>4. DOMAIN Drop(db.procs, p) # {} => DOMAIN db.procs # {}
    BY DEF Drop, Restrict
  <1>5. SchemaValid(Patch(db, tr))
    BY <1>1, <1>2, <1>4 DEF SchemaValid, NodeState
  <1>6. tr \in Requests
    BY DEF Requests
  <1>. QED
    BY <1>1, <1>2, <1>3, <1>5, <1>6, AcceptedOK DEF Accepts

(* Removing a record, by a stop or after a failed start, keeps the invariant. *)
LEMMA RemoveRecordStep ==
  ASSUME IInv, NEW t \in Thread, pc[t] \in {"rollback", "unrecord"}, RemoveRecord(t)
  PROVE  IInv'
  <1>0. /\ TypeOK /\ Document /\ Booting /\ Containers /\ Recorded /\ Alone
        /\ \A s \in Thread : ThreadOK(s)
    BY DEF IInv
  <1>1. /\ node = "up" /\ job[t].proc \in DOMAIN minted /\ HasRoot(db) /\ pending = {}
    BY BusyIsUp DEF ThreadOK, Placed, Starting, Stopping
  <1>2. PICK p \in ProcId : p = job[t].proc
    BY <1>0, <1>1 DEF TypeOK, IsMap
  <1> DEFINE tr == ProcessStop(p)
  <1>3. NoJob \in Jobs /\ "idle" \in Labels
    BY DEF Jobs, Labels
  <1>4. /\ Moves(t, "idle", NoJob) /\ answer' \in {"none", "ok", "error"}
        /\ UNCHANGED <<minted, apps, running, pulling, fetched, boot, proxy, exited>>
    BY DEF RemoveRecord, Answer, Moves, daemon, images
  <1>5. /\ pc' \in [Thread -> Labels] /\ job' \in [Thread -> Jobs]
        /\ pc'[t] = "idle" /\ job'[t] = NoJob
        /\ \A s \in Thread \ {t} : pc'[s] = pc[s] /\ job'[s] = job[s]
    BY <1>3, <1>4, OneMoves
  <1>6. /\ IsNodeState(db') /\ SchemaValid(db') /\ HasRoot(db') /\ db'.apps = db.apps
        /\ \A q \in DOMAIN db'.procs : q \in DOMAIN db.procs /\ db'.procs[q] = db.procs[q]
        /\ cut \subseteq cut' /\ cut' \subseteq cut \cup {p}
        /\ p \in DOMAIN db'.procs => p \in cut'
    <2>1. CASE Accepts(db, tr) /\ db' # db
      <3>1. db' = Patch(db, tr) /\ cut' = cut
        BY <1>2, <2>1 DEF RemoveRecord, Save
      <3>2. db'.procs = Drop(db.procs, p)
        BY <1>1, <2>1, <3>1, StopEffect
      <3>. QED
        BY <1>1, <2>1, <3>1, <3>2, StopEffect DEF Drop, Restrict
    <2>2. CASE Accepts(db, tr) /\ db' = db
      <3>1. cut' = cut \cup {p}
        BY <1>2, <2>2 DEF RemoveRecord
      <3>. QED
        BY <1>0, <1>1, <2>2, <3>1 DEF TypeOK
    <2>3. CASE ~Accepts(db, tr)
      <3>1. UNCHANGED <<db, cut>> /\ p \notin DOMAIN db.procs
        BY <1>1, <1>2, <2>3, StopEffect DEF RemoveRecord
      <3>. QED
        BY <1>0, <1>1, <3>1 DEF TypeOK
    <2>. QED
      BY <2>1, <2>2, <2>3
  <1>7. TypeOK'
    BY <1>0, <1>1, <1>2, <1>4, <1>5, <1>6, JobsHaveOps DEF TypeOK, Labels, boot
  <1>8. Document'
    <2>1. RecordMatchesApp'
      BY <1>0, <1>6 DEF Document, RecordMatchesApp
    <2>. QED
      BY <1>0, <1>4, <1>6, <2>1 DEF Document
  <1>9. Booting' /\ Containers'
    BY <1>0, <1>1, <1>4 DEF Booting, Containers, boot
  <1>10. Recorded'
    <2>1. ASSUME NEW q, Held(q), q # p PROVE Held(q)'
      BY <1>2, <1>4, <1>5, <2>1 DEF Held, boot
    <2>. QED
      BY <1>0, <1>4, <1>6, <2>1 DEF Recorded
  <1>11. Alone'
    BY <1>0, <1>5 DEF Alone, Launching
  <1>12. \A s \in Thread : ThreadOK(s)'
    <2>1. ASSUME NEW s \in Thread \ {t} PROVE ThreadOK(s)'
      BY <1>0, <1>4, <1>5, <1>6, OthersOK
    <2>. QED
      BY <1>5, <2>1, IdleIsOK
  <1>. QED
    BY <1>5, <1>7, <1>8, <1>9, <1>10, <1>11, <1>12 DEF IInv

(* Stopping a container keeps the invariant.                                 *)
LEMMA StopContainerStep ==
  ASSUME IInv, NEW t \in Thread, StopContainer(t)
  PROVE  IInv'
  <1>0. /\ TypeOK /\ Document /\ Booting /\ Containers /\ Recorded /\ Alone
        /\ \A s \in Thread : ThreadOK(s)
    BY DEF IInv
  <1>1. /\ node = "up" /\ pc[t] = "halt" /\ job[t] \in StopJobs /\ job[t] \in Jobs
        /\ job[t].proc \in DOMAIN minted /\ pending = {} /\ pc[t] \notin Holding
    BY BusyIsUp DEF StopContainer, ThreadOK, Placed, Stopping, Holding, Launching
  <1>2. PICK p \in ProcId : p = job[t].proc
    BY <1>0, <1>1 DEF TypeOK, IsMap
  <1>3. CASE /\ running' = [running EXCEPT ![p] = IF @ = 0 THEN 0 ELSE @ - 1]
             /\ Step(t, "unrecord", job[t])
    <2>1. Moves(t, "unrecord", job[t]) /\ answer' \in {"none", "ok", "error"}
      BY <1>3 DEF Step, Moves
    <2>2. /\ pc' \in [Thread -> Labels] /\ job' \in [Thread -> Jobs]
          /\ pc'[t] = "unrecord" /\ job'[t] = job[t]
          /\ \A s \in Thread \ {t} : pc'[s] = pc[s] /\ job'[s] = job[s]
      BY <1>1, <2>1, OneMoves DEF Labels
    <2>3. /\ running' \in [ProcId -> Nat] /\ running'[p] <= running[p]
          /\ \A q \in ProcId \ {p} : running'[q] = running[q]
      BY <1>0, <1>3 DEF TypeOK
    <2>4. UNCHANGED <<store, images, boot, proxy, exited, cut>>
      BY DEF StopContainer
    <2>5. TypeOK'
      BY <1>0, <2>1, <2>2, <2>3, <2>4, JobsHaveOps DEF TypeOK, Labels, store, images, boot
    <2>6. Document'
      BY <1>0, <2>4 DEF Document, RecordMatchesApp, store, boot
    <2>7. Booting'
      BY <1>0, <1>1, <2>4 DEF Booting, boot
    <2>8. Containers'
      BY <1>0, <2>3, <2>4 DEF Containers, TypeOK, store
    <2>9. Recorded'
      <3>1. Held(p)'
        BY <1>2, <2>2 DEF Held, Holding
      <3>2. ASSUME NEW q, Held(q) PROVE Held(q)'
        BY <1>1, <2>2, <2>4, <3>2 DEF Held, boot
      <3>3. DOMAIN db.procs \subseteq ProcId
        BY <1>0 DEF TypeOK, IsNodeState, IsMap
      <3>. QED
        BY <1>0, <2>3, <2>4, <3>1, <3>2, <3>3 DEF Recorded, store
    <2>10. Alone'
      BY <1>0, <2>2 DEF Alone, Launching
    <2>11. \A s \in Thread : ThreadOK(s)'
      <3>1. ASSUME NEW s \in Thread \ {t} PROVE ThreadOK(s)'
        <4>1. pc[s] \in Launching => job[s].proc \in ProcId /\ running[job[s].proc] = 0
          BY <1>0 DEF ThreadOK, Placed, Clear, Starting, Launching, TypeOK, IsMap
        <4>2. pc[s] \in Launching => running'[job[s].proc] = running[job[s].proc]
          BY <2>3, <4>1
        <4>. QED
          BY <1>0, <2>2, <2>4, <4>2, OthersOK DEF store
      <3>2. ThreadOK(t)'
        BY <1>1, <2>2, <2>4
           DEF ThreadOK, Placed, Current, Clear, Starting, Stopping, Launching, store
      <3>. QED
        BY <3>1, <3>2
    <2>. QED
      BY <2>2, <2>5, <2>6, <2>7, <2>8, <2>9, <2>10, <2>11 DEF IInv
  <1>4. CASE Answer(t, "error") /\ UNCHANGED running
    BY <1>1, <1>4, Answers DEF StopContainer, daemon
  <1>. QED
    BY <1>2, <1>3, <1>4 DEF StopContainer

-----------------------------------------------------------------------------
(***************************************************************************)
(* The node process ends: whatever was held is cut off.                    *)
(***************************************************************************)
LEMMA HeldIsAttended ==
  ASSUME IInv, NEW p, Held(p)
  PROVE  ~Unattended(p)
  <1>1. CASE p \in pending
    BY <1>1 DEF Unattended
  <1>2. CASE \E t \in Thread : pc[t] \in Holding /\ job[t].proc = p
    <2>1. PICK t \in Thread : pc[t] \in Holding /\ job[t].proc = p
      BY <1>2
    <2>2. job[t] \in StartJobs \/ job[t] \in StopJobs
      BY <2>1 DEF IInv, ThreadOK, Placed, Starting, Stopping, Holding, Launching
    <2>3. Handles(t, p)
      BY <2>1, <2>2 DEF Handles, StartJobs, StopJobs
    <2>. QED
      BY <2>3 DEF Unattended
  <1>. QED
    BY <1>1, <1>2 DEF Held

(* A node that ends, or crashes, keeps the invariant: the cut handlers are remembered. *)
LEMMA EndsStep ==
  ASSUME IInv, Ends, UNCHANGED <<store, running, exited, boots>>,
         pulling' \subseteq Package, fetched' \subseteq Package
  PROVE  IInv'
  <1>0. /\ TypeOK /\ Document /\ Booting /\ Containers /\ Recorded
        /\ NoJob \in Jobs
    BY DEF IInv, Jobs
  <1>1. /\ job' \in [Thread -> Jobs] /\ pc' \in [Thread -> Labels]
        /\ \A t \in Thread : pc'[t] = "idle"
    BY <1>0 DEF Ends, Labels
  <1>2. IsMap(NoEntries, RuleId, Rule)
    BY NoEntriesIsMap, RuleMapsAreMaps
  <1>3. TypeOK'
    BY <1>0, <1>1, <1>2, EmptyStateOK, JobsHaveOps DEF TypeOK, Ends, Labels, store
  <1>4. Document' /\ Containers' /\ Booting'
    BY <1>0, <1>1 DEF Document, RecordMatchesApp, Containers, Booting, Ends, store
  <1>5. Recorded'
    <2>1. DOMAIN db.procs \subseteq DOMAIN minted
      BY <1>0 DEF Document
    <2>. QED
      BY <1>0, <2>1, HeldIsAttended DEF Recorded, Ends, store
  <1>6. Alone' /\ \A t \in Thread : ThreadOK(t)'
    BY <1>1, IdleIsOK DEF Alone, Launching
  <1>. QED
    BY <1>1, <1>3, <1>4, <1>5, <1>6 DEF IInv

(* What the default apps of a driver are made of is packages.              *)
LEMMA DefaultPackagesOK ==
  ASSUME IInv, NEW drv
  PROVE  DefaultPackages(drv) \subseteq Package
  <1>1. \A i \in Range(init.apps) : i \in App
    BY DEF IInv, TypeOK, IsNodeState, IsMap, Range
  <1>. QED
    BY <1>1 DEF DefaultPackages, App

(* A boot that fails to fetch its packages keeps the invariant.              *)
LEMMA RestorePackagesFailsStep == ASSUME IInv, RestorePackagesFails PROVE IInv'
  <1>1. PICK ds \in SUBSET DefaultPackages("docker"),
             ws \in SUBSET DefaultPackages("web") : Fetch(ds, ws)
    BY DEF RestorePackagesFails
  <1>2. ds \subseteq Package /\ ws \subseteq Package
    BY DefaultPackagesOK
  <1>3. pulling' \subseteq Package /\ fetched' \subseteq Package
    BY <1>1, <1>2 DEF Fetch, IInv, TypeOK
  <1>. QED
    BY <1>3, EndsStep DEF RestorePackagesFails

(* A boot that fails to start a process keeps the invariant.                 *)
LEMMA RestoreProcessFailsStep == ASSUME IInv, RestoreProcessFails PROVE IInv'
  BY EndsStep DEF RestoreProcessFails, daemon, images, IInv, TypeOK

(* A crash keeps the invariant.                                              *)
LEMMA CrashStep == ASSUME IInv, Crash PROVE IInv'
  BY EndsStep DEF Crash, daemon, images, IInv, TypeOK

(***************************************************************************)
(* Steps of the boot and of the daemon that leave the document, the        *)
(* containers and the handlers alone.                                      *)
(***************************************************************************)
LEMMA ElsewhereStep ==
  ASSUME IInv, UNCHANGED <<store, running, threads, init, pending, boots, exited, cut>>,
         node' \in {"down", "packages", "processes", "up"},
         node' = node \/ node # "up", node = "down" <=> node' = "down",
         node' = "up" => pending = {},
         IsMap(proxy', RuleId, Rule), pulling' \subseteq Package, fetched' \subseteq Package
  PROVE  IInv'
  <1>0. /\ TypeOK /\ Document /\ Booting /\ Containers /\ Recorded /\ Alone
        /\ \A s \in Thread : ThreadOK(s)
    BY DEF IInv
  <1>1. TypeOK' /\ job' \in [Thread -> Jobs]
    BY <1>0 DEF TypeOK, store, threads, IInv
  <1>2. Document' /\ Booting' /\ Containers'
    BY <1>0 DEF Document, RecordMatchesApp, Booting, Containers, store, threads
  <1>3. Recorded' /\ Alone'
    BY <1>0 DEF Recorded, Held, Alone, store, threads
  <1>4. \A s \in Thread : ThreadOK(s)'
    BY <1>0 DEF ThreadOK, Placed, Current, Clear, store, threads
  <1>. QED
    BY <1>1, <1>2, <1>3, <1>4 DEF IInv

(* Fetching the packages of the boot keeps the invariant.                    *)
LEMMA RestorePackagesStep == ASSUME IInv, RestorePackages PROVE IInv'
  <1>1. pulling' \subseteq Package /\ fetched' \subseteq Package
    BY DefaultPackagesOK DEF RestorePackages, Fetch, IInv, TypeOK
  <1>2. IsMap(proxy', RuleId, Rule)
    BY DEF RestorePackages, IInv, TypeOK, IsNodeState
  <1>. QED
    BY <1>1, <1>2, ElsewhereStep DEF RestorePackages

(* The end of the boot keeps the invariant.                                  *)
LEMMA RestoredStep == ASSUME IInv, Restored PROVE IInv'
  BY ElsewhereStep DEF Restored, daemon, images, IInv, TypeOK

(* A download that ends keeps the invariant.                                 *)
LEMMA PullEndsStep == ASSUME IInv, NEW pkg \in Package, PullEnds(pkg) PROVE IInv'
  <1>1. pulling' \subseteq Package /\ fetched' \subseteq Package
    BY DEF PullEnds, IInv, TypeOK
  <1>2. IsMap(proxy', RuleId, Rule) /\ node' \in {"down", "packages", "processes", "up"}
    BY DEF PullEnds, IInv, TypeOK, boot
  <1>3. node' = "up" => pending = {}
    BY DEF PullEnds, IInv, Booting, boot
  <1>. QED
    BY <1>1, <1>2, <1>3, ElsewhereStep DEF PullEnds, boot

(* A container of the boot comes.                                          *)
LEMMA RestoreProcessStep ==
  ASSUME IInv, NEW p \in pending, RestoreProcess(p)
  PROVE  IInv'
  <1>0. /\ TypeOK /\ Document /\ Booting /\ Containers /\ Recorded /\ Alone
        /\ \A s \in Thread : ThreadOK(s)
    BY DEF IInv
  <1>1. /\ node = "processes" /\ p \in DOMAIN minted /\ p \in ProcId /\ running[p] = 0
        /\ \A s \in Thread : pc[s] = "idle"
    BY <1>0 DEF RestoreProcess, Booting, TypeOK, IsMap
  <1>2. /\ running' \in [ProcId -> Nat] /\ running'[p] = 1
        /\ \A q \in ProcId \ {p} : running'[q] = running[q]
    BY <1>0, <1>1 DEF RestoreProcess, TypeOK
  <1>3. /\ pending' = pending \ {p}
        /\ UNCHANGED <<store, images, node, init, boots, threads, proxy, exited, cut>>
    BY DEF RestoreProcess
  <1>4. TypeOK' /\ job' \in [Thread -> Jobs]
    BY <1>0, <1>2, <1>3 DEF TypeOK, store, images, threads, IInv
  <1>5. Document' /\ Booting' /\ Containers'
    BY <1>0, <1>1, <1>2, <1>3
       DEF Document, RecordMatchesApp, Booting, Containers, TypeOK, IsMap, store, threads
  <1>6. Recorded'
    <2>1. ASSUME NEW q, Held(q), q # p PROVE Held(q)'
      BY <1>3, <2>1 DEF Held, threads
    <2>2. DOMAIN db.procs \subseteq ProcId
      BY <1>0 DEF TypeOK, IsNodeState, IsMap
    <2>. QED
      BY <1>0, <1>2, <1>3, <2>1, <2>2 DEF Recorded, store
  <1>7. Alone' /\ \A s \in Thread : ThreadOK(s)'
    BY <1>1, <1>3, IdleIsOK DEF Alone, Launching, threads
  <1>. QED
    BY <1>4, <1>5, <1>6, <1>7 DEF IInv

(* A container exits: none that is yet to come.                            *)
LEMMA ExitStep ==
  ASSUME IInv, NEW p \in ProcId, Exit(p)
  PROVE  IInv'
  <1>0. /\ TypeOK /\ Document /\ Booting /\ Containers /\ Recorded /\ Alone
        /\ \A s \in Thread : ThreadOK(s)
    BY DEF IInv
  <1>1. /\ running' \in [ProcId -> Nat] /\ running'[p] <= running[p] /\ running[p] > 0
        /\ \A q \in ProcId \ {p} : running'[q] = running[q]
    BY <1>0 DEF Exit, TypeOK
  <1>2. /\ exited' = exited \cup ({p} \cap DOMAIN db.procs)
        /\ UNCHANGED <<store, images, boot, threads, proxy, cut>>
    BY DEF Exit
  <1>3. TypeOK' /\ job' \in [Thread -> Jobs]
    BY <1>0, <1>1, <1>2 DEF TypeOK, Document, store, images, boot, threads, IInv
  <1>4. Document' /\ Containers'
    BY <1>0, <1>1, <1>2
       DEF Document, RecordMatchesApp, Containers, TypeOK, store, boot
  <1>5. Booting'
    BY <1>0, <1>1, <1>2 DEF Booting, TypeOK, IsMap, boot, threads
  <1>6. Recorded'
    <2>1. ASSUME NEW q, Held(q) PROVE Held(q)'
      BY <1>2, <2>1 DEF Held, boot, threads
    <2>2. DOMAIN db.procs \subseteq ProcId
      BY <1>0 DEF TypeOK, IsNodeState, IsMap
    <2>. QED
      BY <1>0, <1>1, <1>2, <2>1, <2>2 DEF Recorded, store
  <1>7. Alone'
    BY <1>0, <1>2 DEF Alone, threads
  <1>8. ASSUME NEW s \in Thread PROVE ThreadOK(s)'
    <2>1. pc[s] \in Launching => job[s].proc \in ProcId /\ running[job[s].proc] = 0
      BY <1>0 DEF ThreadOK, Placed, Clear, Starting, Launching, TypeOK, IsMap
    <2>2. pc[s] \in Launching => running'[job[s].proc] = running[job[s].proc]
      BY <1>1, <2>1
    <2>. QED
      BY <1>0, <1>2, <2>2, OthersOK DEF store, threads
  <1>. QED
    BY <1>3, <1>4, <1>5, <1>6, <1>7, <1>8 DEF IInv

-----------------------------------------------------------------------------
(***************************************************************************)
(* What main generates: a process per default app, with an ID that is new  *)
(* and names the app's driver.                                             *)
(***************************************************************************)
LEMMA GeneratedOK ==
  ASSUME IInv, NEW uuid \in Injection(DOMAIN DefaultApps, FreshUuids),
         NEW new, new = InitialState(DefaultApps, DefaultRules, uuid)
  PROVE  /\ IsNodeState(new) /\ HasRoot(new)
         /\ DOMAIN new.apps = DOMAIN DefaultApps
         /\ \A p \in DOMAIN new.procs :
              /\ p \in ProcId /\ p \notin DOMAIN minted /\ running[p] = 0
              /\ new.procs[p].app \in DOMAIN new.apps
              /\ new.procs[p].user = new.apps[new.procs[p].app].user
              /\ DriverFromID(p) = new.apps[new.procs[p].app].driver
  <1>1. FreshUuids \subseteq ProcUuid
    BY DEF FreshUuids
  <1>2. WellConfigured(new)
    <2>1. uuid \in Injection(DOMAIN DefaultApps, ProcUuid)
      BY <1>1 DEF Injection
    <2>. QED
      BY <2>1, DefaultAssumption
  <1>3. IsNodeState(new) /\ HasRoot(new) /\ HaveOwners(new)
    BY <1>2 DEF WellConfigured, HasRoot
  <1> DEFINE proc == [a \in DOMAIN DefaultApps |-> NewID(DefaultApps[a].driver, uuid[a])]
  <1>4. /\ DOMAIN new.apps = DOMAIN DefaultApps
        /\ \A a \in DOMAIN DefaultApps :
              new.apps[a] = [DefaultApps[a] EXCEPT !.state = "installed"]
        /\ new.procs = [p \in Range(proc) |->
                          [app |-> CHOOSE a \in DOMAIN DefaultApps : proc[a] = p,
                           user |-> RootUser]]
        /\ DOMAIN new.users = {RootUser}
    BY DEF InitialState, Put, NoEntries
  <1>5. \A a \in DOMAIN DefaultApps :
          /\ DefaultApps[a] \in App /\ uuid[a] \in FreshUuids
          /\ new.apps[a].driver = DefaultApps[a].driver
    BY <1>4, DefaultAssumption DEF IsMap, App, Injection
  <1>6. ASSUME NEW p \in DOMAIN new.procs
        PROVE  /\ p \in ProcId /\ p \notin DOMAIN minted /\ running[p] = 0
               /\ new.procs[p].app \in DOMAIN new.apps
               /\ new.procs[p].user = new.apps[new.procs[p].app].user
               /\ DriverFromID(p) = new.apps[new.procs[p].app].driver
    <2>1. p \in Range(proc) /\ \E a \in DOMAIN DefaultApps : proc[a] = p
      BY <1>4 DEF Range
    <2>2. PICK a \in DOMAIN DefaultApps : a = new.procs[p].app /\ proc[a] = p
      <3>1. new.procs[p] = [app |-> CHOOSE a \in DOMAIN DefaultApps : proc[a] = p,
                            user |-> RootUser]
        BY <1>4, <2>1
      <3> HIDE DEF proc
      <3>2. new.procs[p].app = CHOOSE a \in DOMAIN DefaultApps : proc[a] = p
        BY <3>1
      <3>. QED
        BY <2>1, <3>2
    <2>3. p = NewID(DefaultApps[a].driver, uuid[a])
      BY <2>2
    <2>4. DefaultApps[a].driver \in Driver
      BY <1>5 DEF App
    <2>5. /\ p \in ProcId /\ p \notin DOMAIN minted /\ running[p] = 0
          /\ DriverFromID(p) = DefaultApps[a].driver
      BY <1>5, <2>3, <2>4, FreshID
    <2>6. new.procs[p].user = RootUser /\ new.apps[a].user = RootUser
      BY <1>3, <1>4, <2>1, <2>2 DEF HaveOwners
    <2>. QED
      BY <1>4, <1>5, <2>2, <2>5, <2>6
  <1>. QED
    BY <1>3, <1>4, <1>6

(* The empty document has no root user.                                    *)
LEMMA RootedIsNotEmpty ==
  ASSUME NEW s, HasRoot(s)
  PROVE  s # EmptyState
  BY DEF HasRoot, EmptyState, NoEntries

(* The state of a first boot.                                              *)
LEMMA FirstBoot ==
  ASSUME NEW new
  PROVE  /\ Patch(EmptyState, Initialize(new)) = new
         /\ Accepts(EmptyState, Initialize(new)) => SchemaValid(new)
  <1>1. Patch(EmptyState, Initialize(new)) = new
    BY DEF Patch, Initialize
  <1>. QED
    BY <1>1 DEF Accepts

(* A boot keeps the invariant, the first one and those that follow a crash.  *)
LEMMA BootStep == ASSUME IInv, Boot PROVE IInv'
  <1>0. /\ TypeOK /\ Document /\ Booting /\ Containers /\ Recorded /\ Alone
        /\ \A s \in Thread : ThreadOK(s)
    BY DEF IInv
  <1>1. PICK uuid \in Injection(DOMAIN DefaultApps, FreshUuids) :
          LET new == InitialState(DefaultApps, DefaultRules, uuid)
          IN /\ db' = IF db = EmptyState THEN new ELSE db
             /\ db = EmptyState => Accepts(db, Initialize(new))
             /\ init' = new
             /\ pending' = DOMAIN new.procs
             /\ minted' = Overlay(minted,
                  [p \in DOMAIN new.procs |->
                     [app |-> new.procs[p].app,
                      pkg |-> new.apps[new.procs[p].app].pkg]])
    BY DEF Boot
  <1>2. PICK new : new = InitialState(DefaultApps, DefaultRules, uuid)
    OBVIOUS
  <1> DEFINE drawn == [p \in DOMAIN new.procs |->
                         [app |-> new.procs[p].app, pkg |-> new.apps[new.procs[p].app].pkg]]
  <1>3. /\ db' = IF db = EmptyState THEN new ELSE db
        /\ db = EmptyState => SchemaValid(new)
        /\ init' = new /\ pending' = DOMAIN new.procs /\ minted' = Overlay(minted, drawn)
    BY <1>1, <1>2, FirstBoot
  <1>4. /\ IsNodeState(new) /\ HasRoot(new)
        /\ DOMAIN new.apps = DOMAIN DefaultApps
        /\ \A p \in DOMAIN new.procs :
             /\ p \in ProcId /\ p \notin DOMAIN minted /\ running[p] = 0
             /\ new.procs[p].app \in DOMAIN new.apps
             /\ new.procs[p].user = new.apps[new.procs[p].app].user
             /\ DriverFromID(p) = new.apps[new.procs[p].app].driver
    BY <1>2, GeneratedOK
  <1>5. /\ node = "down" /\ node' = "packages" /\ boots' = boots + 1 /\ boots < MaxBoots
        /\ UNCHANGED <<daemon, threads, proxy, apps, exited, cut>>
    BY DEF Boot
  <1>6. DOMAIN minted' = DOMAIN minted \cup DOMAIN new.procs
    BY <1>3 DEF Overlay
  <1>7. TypeOK' /\ job' \in [Thread -> Jobs]
    <2>1. IsMap(drawn, ProcId, [app : AppId, pkg : Package])
      <3>1. \A p \in DOMAIN new.procs :
              [app |-> new.procs[p].app, pkg |-> new.apps[new.procs[p].app].pkg]
                \in [app : AppId, pkg : Package]
        BY <1>4 DEF IsNodeState, IsMap, App
      <3>. QED
        BY <1>4, <3>1 DEF IsMap
    <2>2. IsMap(minted', ProcId, [app : AppId, pkg : Package])
      BY <1>0, <1>3, <2>1, OverlayMap DEF TypeOK
    <2>3. IsNodeState(db') /\ SchemaValid(db')
      BY <1>0, <1>3, <1>4 DEF TypeOK
    <2>4. boots' \in 0..MaxBoots
      BY <1>0, <1>5, BoundAssumption DEF TypeOK
    <2>. QED
      BY <1>0, <1>3, <1>4, <1>5, <1>6, <2>2, <2>3, <2>4
         DEF TypeOK, daemon, images, threads, IInv
  <1>8. Document'
    <2>1. HasRoot(db')
      BY <1>0, <1>3, <1>4 DEF Document
    <2>2. RecordMatchesApp'
      BY <1>0, <1>3, <1>4 DEF Document, RecordMatchesApp
    <2>3. \A p \in DOMAIN db'.procs : db'.procs[p].app \in apps
      BY <1>0, <1>3, <1>4 DEF Document
    <2>. QED
      BY <1>0, <1>3, <1>4, <1>5, <1>6, <2>1, <2>2, <2>3 DEF Document
  <1>9. Booting' /\ Containers'
    BY <1>0, <1>3, <1>4, <1>5, <1>6 DEF Booting, Containers, daemon, threads
  <1>10. Recorded'
    <2>1. \A p : ~Held(p)
      BY <1>0, <1>5 DEF Held, Booting, Holding, Launching
    <2>2. \A p \in DOMAIN new.procs : Held(p)'
      BY <1>3 DEF Held
    <2>. QED
      BY <1>0, <1>3, <1>5, <2>1, <2>2 DEF Recorded, daemon
  <1>11. Alone' /\ \A s \in Thread : ThreadOK(s)'
    BY <1>0, <1>5, IdleIsOK DEF Booting, Alone, Launching, threads
  <1>. QED
    BY <1>7, <1>8, <1>9, <1>10, <1>11 DEF IInv

(* Nothing happens here.                                                   *)
LEMMA StutterStep == ASSUME IInv, UNCHANGED vars PROVE IInv'
  <1>1. node' \in {"down", "packages", "processes", "up"} /\ (node' = "up" => pending = {})
    BY DEF IInv, TypeOK, Booting, vars, boot
  <1>2. IsMap(proxy', RuleId, Rule) /\ pulling' \subseteq Package /\ fetched' \subseteq Package
    BY DEF IInv, TypeOK, vars, daemon, images
  <1>. QED
    BY <1>1, <1>2, ElsewhereStep DEF vars, boot, daemon

(***************************************************************************)
(* Every reachable state satisfies the invariant.                          *)
(***************************************************************************)
THEOREM Invariance == Spec => []IInv
  <1>1. Init => IInv
    BY InitInv
  <1>2. IInv /\ [Next]_vars => IInv'
    <2>. SUFFICES ASSUME IInv, [Next]_vars PROVE IInv'
      OBVIOUS
    <2>1. CASE Boot \/ RestorePackages \/ RestorePackagesFails \/ Restored
               \/ RestoreProcessFails \/ Crash
      BY <2>1, BootStep, RestorePackagesStep, RestorePackagesFailsStep, RestoredStep,
         RestoreProcessFailsStep, CrashStep
    <2>2. ASSUME NEW p \in pending, RestoreProcess(p) PROVE IInv'
      BY <2>2, RestoreProcessStep
    <2>3. ASSUME NEW p \in ProcId, Exit(p) PROVE IInv'
      BY <2>3, ExitStep
    <2>4. ASSUME NEW pkg \in Package, PullEnds(pkg) PROVE IInv'
      BY <2>4, PullEndsStep
    <2>5. ASSUME NEW t \in Thread, Request(t) PROVE IInv'
      BY <2>5, StartProcessStep, UninstallStep, StopProcessStep, InstallAppStep,
         AddUserStep, MigrateDBStep DEF Request
    <2>6. ASSUME NEW t \in Thread, Continue(t) PROVE IInv'
      <3>1. CASE Rollback(t) \/ UnrecordProcess(t)
        BY <3>1, RemoveRecordStep DEF Rollback, UnrecordProcess
      <3>2. CASE ~(Rollback(t) \/ UnrecordProcess(t))
        BY <2>6, <3>2, RecordProcessStep, LaunchStep, CreateContainerStep, ReadRulesStep,
           AddRuleStep, StopContainerStep, PullPackageStep, FinishInstallStep,
           StartInstalledStep, ProposeMigrationStep DEF Continue
      <3>. QED
        BY <3>1, <3>2
    <2>7. CASE UNCHANGED vars
      BY <2>7, StutterStep
    <2>. QED
      BY <2>1, <2>2, <2>3, <2>4, <2>5, <2>6, <2>7 DEF Next
  <1>. QED
    BY <1>1, <1>2, PTL DEF Spec

(***************************************************************************)
(* The types of the controller's state.                                    *)
(***************************************************************************)
THEOREM TypeCorrect == Spec => []TypeOK
  <1>1. IInv => TypeOK
    BY DEF IInv
  <1>. QED
    BY <1>1, Invariance, PTL

(***************************************************************************)
(* Whatever handlers, faults and restarts do, a process that is recorded   *)
(* and that nobody works on has a container, or it is known why not.       *)
(***************************************************************************)
THEOREM RecordedRun == Spec => []RecordedIsRunning
  <1>1. IInv => RecordedIsRunning
    BY HeldIsAttended DEF IInv, Recorded, RecordedIsRunning
  <1>. QED
    BY <1>1, Invariance, PTL

(***************************************************************************)
(* No two containers ever carry one process ID.                            *)
(***************************************************************************)
THEOREM OneContainer == Spec => []OneContainerPerProcess
  <1>1. IInv => OneContainerPerProcess
    BY DEF IInv, Containers, OneContainerPerProcess
  <1>. QED
    BY <1>1, Invariance, PTL

(***************************************************************************)
(* No boot meets a container of what it restores.                          *)
(***************************************************************************)
THEOREM BootsNotBlocked == Spec => []SurvivorsDoNotBlockBoot
  <1>1. IInv => SurvivorsDoNotBlockBoot
    BY DEF IInv, Booting, SurvivorsDoNotBlockBoot
  <1>. QED
    BY <1>1, Invariance, PTL

(***************************************************************************)
(* A record has the user and the driver of its app.                        *)
(***************************************************************************)
THEOREM RecordsMatch == Spec => []RecordMatchesApp
  <1>1. IInv => RecordMatchesApp
    BY DEF IInv, Document
  <1>. QED
    BY <1>1, Invariance, PTL

-----------------------------------------------------------------------------
(***************************************************************************)
(* The abstract registry speaks of the same documents and transitions.     *)
(***************************************************************************)
LEMMA SameEmptyState == Registry!EmptyState = EmptyState
  BY DEF Registry!EmptyState, EmptyState, Registry!NoEntries, NoEntries,
         Registry!LatestVersion, LatestVersion

(* The same migration.                                                     *)
LEMMA SameMigratedData ==
  ASSUME NEW s, NEW v
  PROVE  Registry!MigratedData(s, v) = MigratedData(s, v)
  BY DEF Registry!MigratedData, MigratedData, Registry!NoEntries, NoEntries

(* The same schema.                                                        *)
LEMMA SameSchema ==
  ASSUME NEW s
  PROVE  Registry!SchemaValid(s) <=> SchemaValid(s)
  BY DEF Registry!SchemaValid, SchemaValid, Registry!SchemaDrivers, SchemaDrivers,
         Registry!LatestVersion, LatestVersion

(* The same patches.                                                       *)
LEMMA SamePatch ==
  ASSUME NEW s, NEW t
  PROVE  Registry!Patch(s, t) = Patch(s, t)
  BY SameMigratedData DEF Registry!Patch, Patch, Registry!Put, Put,
     Registry!Drop, Drop, Registry!Overlay, Overlay, Registry!Restrict, Restrict

(* The same validation.                                                    *)
LEMMA SameValidate ==
  ASSUME NEW s, NEW t
  PROVE  Registry!Validate(s, t) <=> Validate(s, t)
  BY SameMigratedData, SameSchema
     DEF Registry!Validate, Validate, Registry!MigrationValid, MigrationValid,
         Registry!AddUserValid, AddUserValid,
         Registry!StartInstallationValid, StartInstallationValid,
         Registry!FinishInstallationValid, FinishInstallationValid,
         Registry!UninstallValid, UninstallValid,
         Registry!ProcessStartValid, ProcessStartValid,
         Registry!ProcessStopValid, ProcessStopValid,
         Registry!AddProxyRuleValid, AddProxyRuleValid,
         Registry!LatestVersion, LatestVersion

(* The same acceptance.                                                    *)
LEMMA SameAccepts ==
  ASSUME NEW s, NEW t
  PROVE  Registry!Accepts(s, t) <=> Accepts(s, t)
  BY SameSchema, SamePatch, SameValidate DEF Registry!Accepts, Accepts

(***************************************************************************)
(* A step that applies an accepted proposal, or drops it, is a step of the *)
(* registry or none.                                                       *)
(***************************************************************************)
LEMMA SaveIsChange ==
  ASSUME HasRoot(db), NEW tr \in Requests, Accepts(db, tr), Save(tr)
  PROVE  [Registry!Next]_db
  <1>1. CASE db' = db
    BY <1>1
  <1>2. CASE db' = Patch(db, tr)
    <2>1. Registry!Change(tr)
      BY <1>2, RootedIsNotEmpty, SameEmptyState, SameAccepts, SamePatch DEF Registry!Change
    <2>. QED
      BY <2>1 DEF Registry!Next
  <1>. QED
    BY <1>1, <1>2 DEF Save

(* The first boot creates the registry, the others leave it.               *)
LEMMA BootRefines == ASSUME IInv, Boot PROVE [Registry!Next]_db
  <1>1. PICK uuid \in Injection(DOMAIN DefaultApps, FreshUuids) :
          LET new == InitialState(DefaultApps, DefaultRules, uuid)
          IN /\ db' = IF db = EmptyState THEN new ELSE db
             /\ db = EmptyState => Accepts(db, Initialize(new))
    BY DEF Boot
  <1>2. PICK new : new = InitialState(DefaultApps, DefaultRules, uuid)
    OBVIOUS
  <1>3. CASE db = EmptyState
    <2>1. uuid \in Injection(DOMAIN DefaultApps, ProcUuid)
      BY DEF Injection, FreshUuids
    <2>2. /\ db' = new /\ Accepts(EmptyState, Initialize(new))
          /\ Patch(EmptyState, Initialize(new)) = new
      BY <1>1, <1>2, <1>3, FirstBoot
    <2>3. Registry!Initialize(new) = Initialize(new)
      BY DEF Registry!Initialize, Initialize
    <2>4. Registry!Create(new)
      BY <1>3, <2>2, <2>3, SameEmptyState, SameAccepts, SamePatch DEF Registry!Create
    <2>. QED
      BY <1>2, <2>1, <2>4 DEF Registry!Next
  <1>4. CASE db # EmptyState
    BY <1>1, <1>4
  <1>. QED
    BY <1>3, <1>4

(* What a request does first to the document, the registry may do, or nothing. *)
LEMMA RequestRefines ==
  ASSUME IInv, NEW t \in Thread, Request(t)
  PROVE  [Registry!Next]_db
  <1>0. node = "up" => HasRoot(db)
    BY DEF IInv, Document
  <1>1. CASE \E a \in apps : StartProcess(t, a)
    BY <1>1 DEF StartProcess, store
  <1>2. CASE \E a \in apps : UninstallApp(t, a)
    <2>1. PICK a \in apps : ProposeOnly(t, Uninstall(a))
      BY <1>2 DEF UninstallApp
    <2>2. Uninstall(a) \in Requests
      <3>1. a \in AppId
        BY DEF IInv, TypeOK
      <3>. QED
        BY <3>1 DEF Requests
    <2>. QED
      BY <1>0, <2>1, <2>2, SaveIsChange DEF ProposeOnly
  <1>3. CASE \E p \in DOMAIN minted : StopProcess(t, p)
    BY <1>3 DEF StopProcess, store
  <1>4. CASE \E req \in InstallRequests : InstallApp(t, req)
    <2>1. PICK req \in InstallRequests, a \in AppId \ apps :
            LET tr == StartInstallation(a, req, req.config, req.rules)
            IN IF req.driver \in Installable /\ Accepts(db, tr)
               THEN Save(tr)
               ELSE UNCHANGED db
      BY <1>4 DEF InstallApp
    <2>2. StartInstallation(a, req, req.config, req.rules) \in Requests
      BY DEF Requests
    <2>3. node = "up"
      BY <1>4 DEF InstallApp
    <2>. QED
      BY <1>0, <2>1, <2>2, <2>3, SaveIsChange
  <1>5. CASE \E n \in Username : AddUserToNode(t, n)
    <2>1. PICK n \in Username, u \in UserId :
            ProposeOnly(t, AddUser(u, [name |-> n, did |-> TRUE]))
      BY <1>5 DEF AddUserToNode
    <2>2. [name |-> n, did |-> TRUE] \in WithDID
      BY DEF WithDID, User
    <2>3. \A r \in WithDID : AddUser(u, r) \in Requests
      BY DEF Requests
    <2>. QED
      BY <1>0, <2>1, <2>2, <2>3, SaveIsChange DEF ProposeOnly
  <1>6. CASE \E v \in Targets : MigrateDB(t, v)
    BY <1>6 DEF MigrateDB, store
  <1>. QED
    BY <1>1, <1>2, <1>3, <1>4, <1>5, <1>6 DEF Request

(* What a handler goes on to do to the document, the registry may do, or nothing. *)
LEMMA ContinueRefines ==
  ASSUME IInv, NEW t \in Thread, Continue(t)
  PROVE  [Registry!Next]_db
  <1>1. CASE RecordProcess(t)
    <2>1. HasRoot(db) /\ job[t] \in StartJobs
      BY <1>1, BusyIsUp DEF RecordProcess, ThreadOK, Placed
    <2>2. PICK u \in FreshUuids :
            LET j  == job[t]
                tr == ProcessStart(NewID(j.inst.driver, u), [app |-> j.app, user |-> j.inst.user])
            IN IF Accepts(db, tr) THEN Save(tr) ELSE UNCHANGED db
      BY <1>1 DEF RecordProcess
    <2>3. /\ NewID(job[t].inst.driver, u) \in ProcId
          /\ [app |-> job[t].app, user |-> job[t].inst.user] \in Process
      BY <2>1, FreshID DEF StartJobs, App, Process
    <2>4. ProcessStart(NewID(job[t].inst.driver, u), [app |-> job[t].app, user |-> job[t].inst.user])
            \in Requests
      BY <2>3 DEF Requests
    <2>. QED
      BY <2>1, <2>2, <2>4, SaveIsChange
  <1>2. CASE Rollback(t) \/ UnrecordProcess(t)
    <2>1. HasRoot(db) /\ job[t].proc \in DOMAIN minted /\ RemoveRecord(t)
      BY <1>2, BusyIsUp
         DEF Rollback, UnrecordProcess, ThreadOK, Placed, Starting, Stopping
    <2>2. job[t].proc \in ProcId
      BY <2>1 DEF IInv, TypeOK, IsMap
    <2>3. ProcessStop(job[t].proc) \in Requests
      BY <2>2 DEF Requests
    <2>. QED
      BY <2>1, <2>3, SaveIsChange DEF RemoveRecord
  <1>3. CASE FinishInstall(t)
    <2>1. HasRoot(db) /\ job[t] \in InstallJobs
      BY <1>3, BusyIsUp DEF FinishInstall, ThreadOK, Placed
    <2>2. FinishInstallation(job[t].app) \in Requests
      BY <2>1 DEF InstallJobs, Requests
    <2>. QED
      BY <1>3, <2>1, <2>2, SaveIsChange DEF FinishInstall
  <1>4. CASE ProposeMigration(t)
    <2>1. HasRoot(db) /\ job[t] \in MigrateJobs
      BY <1>4, BusyIsUp DEF ProposeMigration, ThreadOK, Placed
    <2>2. Migration(job[t].target) \in Requests
      BY <2>1 DEF MigrateJobs, Requests
    <2>. QED
      BY <1>4, <2>1, <2>2, SaveIsChange DEF ProposeMigration
  <1>5. CASE \/ Launch(t) \/ CreateContainer(t) \/ ReadRules(t) \/ AddRule(t)
             \/ StopContainer(t) \/ PullPackage(t) \/ StartInstalled(t)
    BY <1>5 DEF Launch, CreateContainer, ReadRules, AddRule, StopContainer, PullPackage,
                StartInstalled, store
  <1>. QED
    BY <1>1, <1>2, <1>3, <1>4, <1>5 DEF Continue

(***************************************************************************)
(* The controller changes the document as the registry allows, whatever    *)
(* the handlers interleave, fail at or leave undone.                       *)
(***************************************************************************)
THEOREM Refinement == Spec => ImplementsRegistry
  <1>1. Init => Registry!Init
    BY SameEmptyState DEF Init, Registry!Init
  <1>2. IInv /\ [Next]_vars => [Registry!Next]_db
    <2>. SUFFICES ASSUME IInv, [Next]_vars PROVE [Registry!Next]_db
      OBVIOUS
    <2>1. CASE Boot
      BY <2>1, BootRefines
    <2>2. CASE \/ RestorePackages \/ RestorePackagesFails \/ RestoreProcessFails
               \/ Restored \/ Crash \/ \E p \in pending : RestoreProcess(p)
               \/ \E p \in ProcId : Exit(p)
               \/ \E pkg \in Package : PullEnds(pkg)
               \/ UNCHANGED vars
      BY <2>2 DEF RestorePackages, RestorePackagesFails, RestoreProcessFails, Restored,
                  Crash, RestoreProcess, Exit, PullEnds, vars, store
    <2>3. CASE \E t \in Thread : Request(t) \/ Continue(t)
      BY <2>3, RequestRefines, ContinueRefines
    <2>. QED
      BY <2>1, <2>2, <2>3 DEF Next
  <1>. QED
    BY <1>1, <1>2, Invariance, PTL DEF Spec, ImplementsRegistry, Registry!Spec
=============================================================================
