----------------------------- MODULE Controller -----------------------------
(***************************************************************************)
(* internal/node/controller: the handlers of the node API that change the  *)
(* node, each run by a goroutine of its own, interleaved wherever one of   *)
(* them calls the database, the Docker daemon, a package manager or the    *)
(* reverse proxy; and the boot that restores a state (cmd/node/main.go,    *)
(* Controller.restore).                                                    *)
(*                                                                         *)
(* The database is one variable here, changed by whole transitions:        *)
(* HabitatDB shows that the file-backed one looks so to its clients.  When *)
(* it cannot open its file it drops a change and reports no error.  The    *)
(* Docker daemon and the registries outlive the node process.  Each call   *)
(* to them may fail.                                                       *)
(***************************************************************************)
EXTENDS NodeTransitions

CONSTANTS
  Thread,           \* goroutines serving requests
  NoProc,           \* no process ID yet
  DefaultApps,      \* the configured apps, a map from AppId to App
  DefaultRules,     \* the configured rules, a map from RuleId to Rule
  InstallRequests,  \* bodies of install requests
  Targets,          \* versions asked for by migrate requests
  Faults,           \* what may go wrong around the node: calls to the Docker
                    \* daemon, fetching a package, opening the state file
  MaxBoots          \* bound: how often the node process is started

ASSUME NoProcAssumption  == NoProc \notin ProcId
ASSUME FaultsAssumption  == Faults \subseteq {"docker", "fetch", "file"}
ASSUME DefaultAssumption ==
  /\ IsMap(DefaultApps, AppId, App) /\ IsMap(DefaultRules, RuleId, Rule)
  /\ \A uuid \in Injection(DOMAIN DefaultApps, ProcUuid) :
        WellConfigured(InitialState(DefaultApps, DefaultRules, uuid))
ASSUME RequestsAssumption ==
  /\ InstallRequests \subseteq [user : UserId, pkg : Package, driver : Driver,
                                config : BOOLEAN, rules : RuleMaps,
                                start : BOOLEAN]
  /\ Targets \subseteq 0..(LatestVersion + 1)
ASSUME BoundAssumption == MaxBoots \in Nat

VARIABLES
  node,       \* "down", "packages" and "processes" (booting), or "up"
  db,         \* the node state in the database; empty before the first boot
  init,       \* main's initState, generated anew at every boot
  pending,    \* the processes the boot has yet to start
  proxy,      \* RuleSet.rules of the reverse proxy
  running,    \* Docker: how many running containers carry a process ID
  pulling,    \* Docker: the packages whose image is being pulled
  fetched,    \* the packages whose image or bundle is there
  pc, job,    \* where each thread is, and its local variables
  answer,     \* what the last step of a handler answered, if it was its last
  minted,     \* history: what each process ID was drawn for
  apps,       \* history: the app IDs drawn
  exited,     \* history: the recorded processes whose container exited
  cut,        \* history: the processes a handler or a boot left half way,
              \* or whose removal the database dropped
  boots       \* how often the node was started

store   == <<db, minted, apps>>
images  == <<pulling, fetched>>
daemon  == <<running, images>>
boot    == <<node, init, pending, boots>>
threads == <<pc, job, answer>>
vars    == <<store, daemon, boot, threads, proxy, exited, cut>>

NoJob == [op |-> "none"]

(* The drivers the process manager knows: it registers each driver under   *)
(* its own Type(), and the web driver's is "noop".                         *)
Registered == {"docker", "noop"}

(* The drivers with a package manager. *)
Installable == {"docker", "web"}

FreshUuids == ProcUuid \ {p[2] : p \in DOMAIN minted}

Step(t, label, j) ==
  /\ pc' = [pc EXCEPT ![t] = label]
  /\ job' = [job EXCEPT ![t] = j]
  /\ answer' = "none"

Begin(t, label, j) ==
  /\ node = "up" /\ pc[t] = "idle"
  /\ Step(t, label, j)

Answer(t, r) ==
  /\ pc' = [pc EXCEPT ![t] = "idle"]
  /\ job' = [job EXCEPT ![t] = NoJob]
  /\ answer' = r

(***************************************************************************)
(* ProposeTransitions of a transition that is accepted.  It returns no     *)
(* error, stored or not.                                                   *)
(***************************************************************************)
Save(tr) ==
  \/ db' = Patch(db, tr)
  \/ "file" \in Faults /\ UNCHANGED db

(* The process a thread works on, and whether some thread works on p. *)
Handles(t, p) == job[t].op \in {"start", "stop"} /\ job[t].proc = p
Unattended(p)  == p \notin pending /\ \A t \in Thread : ~Handles(t, p)

Init ==
  /\ node = "down" /\ boots = 0
  /\ db = EmptyState /\ init = EmptyState /\ pending = {}
  /\ proxy = NoEntries
  /\ running = [p \in ProcId |-> 0] /\ pulling = {} /\ fetched = {}
  /\ pc = [t \in Thread |-> "idle"]
  /\ job = [t \in Thread |-> NoJob]
  /\ answer = "none"
  /\ minted = NoEntries /\ apps = DOMAIN DefaultApps
  /\ exited = {} /\ cut = {}

-----------------------------------------------------------------------------
(* The node process ends: by a signal, by log.Fatal, by a panic outside a  *)
(* handler, or by the fatal error of the Go runtime when two goroutines    *)
(* use the proxy's unsynchronised map at once.                             *)
Ends ==
  /\ node' = "down" /\ pending' = {} /\ init' = EmptyState
  /\ proxy' = NoEntries
  /\ pc' = [t \in Thread |-> "idle"]
  /\ job' = [t \in Thread |-> NoJob]
  /\ answer' = "none"
  /\ cut' = cut \cup {p \in DOMAIN minted : ~Unattended(p)}

Crash ==
  /\ node # "down"
  /\ Ends
  /\ UNCHANGED <<store, daemon, exited, boots>>

(* A container exits, or is stopped by a call that reports an error. *)
Exit(p) ==
  /\ running[p] > 0
  /\ running' = [running EXCEPT ![p] = @ - 1]
  /\ exited' = exited \cup ({p} \cap DOMAIN db.procs)
  /\ UNCHANGED <<store, images, boot, threads, proxy, cut>>

(***************************************************************************)
(* main: generate the initial state, and open the database, which takes it *)
(* only if it has no file yet.  Then NewCtrlServer restores.               *)
(***************************************************************************)
Boot ==
  /\ node = "down" /\ boots < MaxBoots
  /\ \E uuid \in Injection(DOMAIN DefaultApps, FreshUuids) :
       LET new == InitialState(DefaultApps, DefaultRules, uuid)
       IN /\ db' = IF db = EmptyState THEN new ELSE db
          /\ db = EmptyState => Accepts(db, Initialize(new))
          /\ init' = new
          /\ pending' = DOMAIN new.procs
          /\ minted' = Overlay(minted,
               [p \in DOMAIN new.procs |->
                  [app |-> new.procs[p].app,
                   pkg |-> new.apps[new.procs[p].app].pkg]])
  /\ node' = "packages" /\ boots' = boots + 1
  /\ UNCHANGED <<daemon, threads, proxy, apps, exited, cut>>

(***************************************************************************)
(* A package manager asked for packages.  The web one returns with the     *)
(* bundles in place.  The Docker one returns once the daemon has answered  *)
(* and never reads the progress of the pull, which goes on by itself.      *)
(***************************************************************************)
Fetch(dockerPkgs, webPkgs) ==
  /\ pulling' = pulling \cup dockerPkgs
  /\ fetched' = fetched \cup webPkgs

(* A pull ends.  If it failed the image is not there afterwards. *)
PullEnds(pkg) ==
  /\ pkg \in pulling
  /\ pulling' = pulling \ {pkg}
  /\ \/ fetched' = fetched \cup {pkg}
     \/ "fetch" \in Faults /\ UNCHANGED fetched
  /\ UNCHANGED <<store, running, boot, threads, proxy, exited, cut>>

DefaultPackages(drv) ==
  {app.pkg : app \in {i \in Range(init.apps) : i.driver = drv}}

(* restore: the package managers fetch the packages, then every rule is    *)
(* added; the proxy has none yet.                                          *)
RestorePackages ==
  /\ node = "packages"
  /\ Fetch(DefaultPackages("docker"), DefaultPackages("web"))
  /\ proxy' = init.rules
  /\ node' = "processes"
  /\ UNCHANGED <<store, running, init, pending, boots, threads, exited, cut>>

(* If a package cannot be fetched, some others are, and the boot fails. *)
RestorePackagesFails ==
  /\ node = "packages" /\ "fetch" \in Faults
  /\ \E ds \in SUBSET DefaultPackages("docker"),
        ws \in SUBSET DefaultPackages("web") :
        /\ ds # DefaultPackages("docker") \/ ws # DefaultPackages("web")
        /\ Fetch(ds, ws)
  /\ Ends
  /\ UNCHANGED <<store, running, exited, boots>>

(* RestoreFromState starts the processes of the generated state one by one *)
RestoreProcess(p) ==
  /\ node = "processes" /\ p \in pending
  /\ DriverFromID(p) \in Registered /\ running[p] = 0
  /\ minted[p].pkg \in fetched
  /\ running' = [running EXCEPT ![p] = @ + 1]
  /\ pending' = pending \ {p}
  /\ UNCHANGED <<store, images, node, init, boots, threads, proxy, exited, cut>>

(* and the boot fails if one of them cannot be started. *)
RestoreProcessFails ==
  /\ node = "processes"
  /\ \E p \in pending : \/ "docker" \in Faults
                         \/ DriverFromID(p) \notin Registered
                         \/ minted[p].pkg \notin fetched
  /\ Ends
  /\ UNCHANGED <<store, daemon, exited, boots>>

Restored ==
  /\ node = "processes" /\ pending = {}
  /\ node' = "up"
  /\ UNCHANGED <<store, daemon, init, pending, boots, threads, proxy,
                 exited, cut>>

-----------------------------------------------------------------------------
(***************************************************************************)
(* startProcess reads the state and the app ...                            *)
(***************************************************************************)
StartJob(a) == [op |-> "start", app |-> a, inst |-> db.apps[a],
                proc |-> NoProc, rules |-> NoEntries]

StartProcess(t, a) ==
  /\ IF a \in DOMAIN db.apps
     THEN Begin(t, "record", StartJob(a))
     ELSE node = "up" /\ pc[t] = "idle" /\ Answer(t, "error")
  /\ UNCHANGED <<store, daemon, boot, proxy, exited, cut>>

RecordProcess_OwnerIsRoot(t) ==
  /\ pc[t] = "record"
  /\ \E u \in FreshUuids :
       LET j  == job[t]
           id == NewID(j.inst.driver, u)
           tr == ProcessStart(id, [app |-> j.app, user |-> RootUser])
       IN IF Accepts(db, tr)
          THEN /\ Save(tr)
               /\ minted' = Put(minted, id, [app |-> j.app, pkg |-> j.inst.pkg])
               /\ Step(t, "launch", [j EXCEPT !.proc = id])
          ELSE Answer(t, "error") /\ UNCHANGED <<db, minted>>
  /\ UNCHANGED <<apps, daemon, boot, proxy, exited, cut>>

(***************************************************************************)
(* ... and proposes a process with a fresh ID and the user of the app it   *)
(* has read.                                                               *)
(***************************************************************************)
RecordProcess(t) ==
  /\ pc[t] = "record"
  /\ \E u \in FreshUuids :
       LET j  == job[t]
           id == NewID(j.inst.driver, u)
           tr == ProcessStart(id, [app |-> j.app, user |-> j.inst.user])
       IN IF Accepts(db, tr)
          THEN /\ Save(tr)
               /\ minted' = Put(minted, id, [app |-> j.app, pkg |-> j.inst.pkg])
               /\ Step(t, "launch", [j EXCEPT !.proc = id])
          ELSE Answer(t, "error") /\ UNCHANGED <<db, minted>>
  /\ UNCHANGED <<apps, daemon, boot, proxy, exited, cut>>

(***************************************************************************)
(* processManager.StartProcess finds the driver of the app and asks it     *)
(* whether the process runs.  An unknown driver, an error of the daemon, a *)
(* running container: all lead to the rollback.                            *)
(***************************************************************************)
Launch(t) ==
  /\ pc[t] = "launch"
  /\ LET p == job[t].proc
     IN \/ /\ DriverFromID(p) \in Registered /\ running[p] = 0
           /\ Step(t, "create", job[t])
        \/ /\ \/ DriverFromID(p) \notin Registered \/ running[p] > 0
              \/ "docker" \in Faults
           /\ Step(t, "rollback", job[t])
  /\ UNCHANGED <<store, daemon, boot, proxy, exited, cut>>

(* The driver creates and starts the container, if its image is there. *)
CreateContainer(t) ==
  /\ pc[t] = "create"
  /\ LET p == job[t].proc
     IN \/ /\ minted[p].pkg \in fetched
           /\ running' = [running EXCEPT ![p] = @ + 1]
           /\ Step(t, "readrules", job[t])
        \/ /\ minted[p].pkg \notin fetched \/ "docker" \in Faults
           /\ Step(t, "rollback", job[t])
           /\ UNCHANGED running
  /\ UNCHANGED <<store, images, boot, proxy, exited, cut>>

(* ProcessStop is proposed, at the end of a start or a stop. *)
RemoveRecord(t) ==
  /\ LET tr == ProcessStop(job[t].proc)
     IN IF Accepts(db, tr)
        THEN /\ Save(tr) /\ Answer(t, "ok")
             /\ cut' = IF db' = db THEN cut \cup {job[t].proc} ELSE cut
        ELSE UNCHANGED <<db, cut>> /\ Answer(t, "error")
  /\ UNCHANGED <<minted, apps, daemon, boot, proxy, exited>>

Rollback_KeepsRecord(t) ==
  /\ pc[t] = "rollback"
  /\ Answer(t, "error")
  /\ UNCHANGED <<store, daemon, boot, proxy, exited, cut>>

(***************************************************************************)
(* The rollback removes the record.  Its own error replaces the error of   *)
(* the start: when it succeeds, startProcess returns nil.                  *)
(***************************************************************************)
Rollback(t) == pc[t] = "rollback" /\ RemoveRecord(t)

(* The rules of the app, in the state as it is by now ... *)
ReadRules(t) ==
  /\ pc[t] = "readrules"
  /\ LET own == {r \in DOMAIN db.rules : db.rules[r].app = job[t].app}
     IN Step(t, "route", [job[t] EXCEPT !.rules = Restrict(db.rules, own)])
  /\ UNCHANGED <<store, daemon, boot, proxy, exited, cut>>

(***************************************************************************)
(* ... are added to the proxy in the order of a map, until one has an ID   *)
(* the proxy knows already; then the others are skipped.  Either way the   *)
(* answer is 201.                                                          *)
(***************************************************************************)
AddRule(t) ==
  /\ pc[t] = "route"
  /\ LET rules == job[t].rules
     IN \/ rules = NoEntries /\ Answer(t, "ok") /\ UNCHANGED proxy
        \/ \E r \in DOMAIN rules :
             IF r \in DOMAIN proxy
             THEN Answer(t, "ok") /\ UNCHANGED proxy
             ELSE /\ proxy' = Put(proxy, r, rules[r])
                  /\ Step(t, "route", [job[t] EXCEPT !.rules = Drop(@, r)])
  /\ UNCHANGED <<store, daemon, boot, exited, cut>>

-----------------------------------------------------------------------------
(***************************************************************************)
(* stopProcess: the process manager finds the driver in the ID, and the    *)
(* Docker driver the container with the ID's label.  No container is fine; *)
(* an unknown driver, two containers or an error of the daemon is not.     *)
(***************************************************************************)
StopProcess(t, p) ==
  LET j == [op |-> "stop", proc |-> p]
  IN /\ \/ /\ DriverFromID(p) = "docker" /\ running[p] = 1
           /\ Begin(t, "halt", j)
        \/ /\ \/ DriverFromID(p) = "docker" /\ running[p] = 0
              \/ DriverFromID(p) = "noop"
           /\ Begin(t, "unrecord", j)
        \/ /\ \/ DriverFromID(p) \notin Registered \/ running[p] > 1
              \/ "docker" \in Faults
           /\ node = "up" /\ pc[t] = "idle" /\ Answer(t, "error")
     /\ UNCHANGED <<store, daemon, boot, proxy, exited, cut>>

StopContainer(t) ==
  /\ pc[t] = "halt"
  /\ \/ /\ running' = [running EXCEPT ![job[t].proc] =
                         IF @ = 0 THEN 0 ELSE @ - 1]
        /\ Step(t, "unrecord", job[t])
     \/ "docker" \in Faults /\ Answer(t, "error") /\ UNCHANGED running
  /\ UNCHANGED <<store, images, boot, proxy, exited, cut>>

UnrecordProcess(t) == pc[t] = "unrecord" /\ RemoveRecord(t)

-----------------------------------------------------------------------------
(***************************************************************************)
(* installApp: without a package manager for the driver it fails; else the *)
(* app is recorded as installing, under a fresh ID.                        *)
(***************************************************************************)
InstallApp(t, req) ==
  /\ node = "up" /\ pc[t] = "idle"
  /\ \E a \in AppId \ apps :
       LET tr == StartInstallation(a, req, req.config, req.rules)
       IN IF req.driver \in Installable /\ Accepts(db, tr)
          THEN /\ Save(tr)
               /\ apps' = apps \cup {a}
               /\ Begin(t, "pull", [op |-> "install", app |-> a, req |-> req])
          ELSE Answer(t, "error") /\ UNCHANGED <<db, apps>>
  /\ UNCHANGED <<minted, daemon, boot, proxy, exited, cut>>

(* On failure the app stays in the database as installing. *)
PullPackage(t) ==
  /\ pc[t] = "pull"
  /\ \/ /\ LET req == job[t].req
           IN IF req.driver = "docker" THEN Fetch({req.pkg}, {})
                                       ELSE Fetch({}, {req.pkg})
        /\ Step(t, "finish", job[t])
     \/ "fetch" \in Faults /\ Answer(t, "error") /\ UNCHANGED images
  /\ UNCHANGED <<store, running, boot, proxy, exited, cut>>

(* After the transition that finishes it, the app may be started as well. *)
Installed(t) ==
  LET j == job[t]
  IN IF j.req.start THEN Step(t, "restart", [op |-> "starting", app |-> j.app])
                    ELSE Answer(t, "ok")

FinishInstall_WritesRecord(t) ==
  /\ pc[t] = "finish"
  /\ LET req == job[t].req
         app == [user |-> req.user, pkg |-> req.pkg, driver |-> req.driver,
                 state |-> "installed"]
     IN db' = [db EXCEPT !.apps = Put(@, job[t].app, app)]
  /\ Installed(t)
  /\ UNCHANGED <<minted, apps, daemon, boot, proxy, exited, cut>>

FinishInstall(t) ==
  /\ pc[t] = "finish"
  /\ LET tr == FinishInstallation(job[t].app)
     IN IF Accepts(db, tr)
        THEN Save(tr) /\ Installed(t)
        ELSE UNCHANGED db /\ Answer(t, "error")
  /\ UNCHANGED <<minted, apps, daemon, boot, proxy, exited, cut>>

(* startProcess of the app just installed, which may be gone again. *)
StartInstalled(t) ==
  /\ pc[t] = "restart"
  /\ IF job[t].app \in DOMAIN db.apps
     THEN Step(t, "record", StartJob(job[t].app))
     ELSE Answer(t, "error")
  /\ UNCHANGED <<store, daemon, boot, proxy, exited, cut>>

-----------------------------------------------------------------------------
(* A handler that only proposes one transition. *)
ProposeOnly(t, tr) ==
  /\ node = "up" /\ pc[t] = "idle"
  /\ IF Accepts(db, tr)
     THEN Save(tr) /\ Answer(t, "ok")
     ELSE UNCHANGED db /\ Answer(t, "error")
  /\ UNCHANGED <<minted, apps, daemon, boot, proxy, exited, cut>>

UninstallApp(t, a) == ProposeOnly(t, Uninstall(a))

AddUserToNode(t, name) ==
  \E u \in UserId \ DOMAIN db.users :
     ProposeOnly(t, AddUser(u, [name |-> name, did |-> TRUE]))

(***************************************************************************)
(* migrateDB: nothing to do if the version read is the target, else a      *)
(* migration is proposed, to the state of that later moment.               *)
(***************************************************************************)
MigrateDB(t, target) ==
  /\ IF db.version = target
     THEN node = "up" /\ pc[t] = "idle" /\ Answer(t, "ok")
     ELSE Begin(t, "migrate", [op |-> "migrate", target |-> target])
  /\ UNCHANGED <<store, daemon, boot, proxy, exited, cut>>

ProposeMigration(t) ==
  /\ pc[t] = "migrate"
  /\ LET tr == Migration(job[t].target)
     IN IF Accepts(db, tr)
        THEN Save(tr) /\ Answer(t, "ok")
        ELSE UNCHANGED db /\ Answer(t, "error")
  /\ UNCHANGED <<minted, apps, daemon, boot, proxy, exited, cut>>

-----------------------------------------------------------------------------
Request(t) ==
  \/ \E a \in apps : StartProcess(t, a) \/ UninstallApp(t, a)
  \/ \E p \in DOMAIN minted : StopProcess(t, p)
  \/ \E req \in InstallRequests : InstallApp(t, req)
  \/ \E n \in Username : AddUserToNode(t, n)
  \/ \E v \in Targets : MigrateDB(t, v)

Continue(t) ==
  \/ RecordProcess(t) \/ Launch(t) \/ CreateContainer(t) \/ Rollback(t)
  \/ ReadRules(t) \/ AddRule(t)
  \/ StopContainer(t) \/ UnrecordProcess(t)
  \/ PullPackage(t) \/ FinishInstall(t) \/ StartInstalled(t)
  \/ ProposeMigration(t)

Next ==
  \/ Boot \/ RestorePackages \/ RestorePackagesFails
  \/ \E p \in pending : RestoreProcess(p)
  \/ RestoreProcessFails \/ Restored \/ Crash
  \/ \E p \in ProcId : Exit(p)
  \/ \E pkg \in Package : PullEnds(pkg)
  \/ \E t \in Thread : Request(t) \/ Continue(t)

Spec == Init /\ [][Next]_vars

-----------------------------------------------------------------------------
TypeOK ==
  /\ node \in {"down", "packages", "processes", "up"}
  /\ IsNodeState(db) /\ SchemaValid(db)
  /\ IsNodeState(init)
  /\ pending \subseteq DOMAIN minted
  /\ IsMap(proxy, RuleId, Rule)
  /\ running \in [ProcId -> Nat]
  /\ pulling \subseteq Package /\ fetched \subseteq Package
  /\ pc \in [Thread -> {"idle", "record", "launch", "create", "rollback",
                        "readrules", "route", "halt", "unrecord", "pull",
                        "finish", "restart", "migrate"}]
  /\ \A t \in Thread : job[t].op \in {"none", "start", "stop", "install",
                                      "starting", "migrate"}
  /\ answer \in {"none", "ok", "error"}
  /\ IsMap(minted, ProcId, [app : AppId, pkg : Package])
  /\ apps \subseteq AppId
  /\ exited \subseteq DOMAIN minted /\ cut \subseteq DOMAIN minted
  /\ boots \in 0..MaxBoots

(***************************************************************************)
(* What the document says runs does run: a process that is recorded, and   *)
(* that no handler is working on, has a container, unless that exited by   *)
(* itself or a crash or a failed write came between the record and the     *)
(* container.  No path out of startProcess or stopProcess, whatever fails  *)
(* and whatever the other handlers do meanwhile, leaves a record alone.    *)
(***************************************************************************)
RecordedIsRunning ==
  node = "up" =>
    \A p \in DOMAIN db.procs \ (exited \cup cut) :
      Unattended(p) => running[p] > 0

(***************************************************************************)
(* No two containers ever carry the same process ID, without which         *)
(* getContainerWithProcessID refuses to stop or to start either: that      *)
(* IsRunning is asked one call before the container is created is no harm, *)
(* because no two starts draw the same ID, not even across restarts.       *)
(***************************************************************************)
OneContainerPerProcess == \A p \in ProcId : running[p] <= 1

(***************************************************************************)
(* Containers survive the node process, and RestoreFromState fails on one  *)
(* process that runs already, and with it the boot.  It never meets one:   *)
(* what it restores was drawn for this boot.                               *)
(***************************************************************************)
SurvivorsDoNotBlockBoot ==
  node \in {"packages", "processes"} => \A p \in pending : running[p] = 0

(***************************************************************************)
(* startProcess copies the user and the driver of an app it read earlier   *)
(* into the record and its ID, and stopProcess trusts the ID for the       *)
(* driver.  They are those of the app in the document for as long as the   *)
(* app is in it, also when the app was uninstalled or the package          *)
(* installed anew between the read and the record.                         *)
(***************************************************************************)
RecordMatchesApp ==
  \A p \in DOMAIN db.procs :
    LET proc == db.procs[p]
    IN proc.app \in DOMAIN db.apps =>
         /\ proc.user = db.apps[proc.app].user
         /\ DriverFromID(p) = db.apps[proc.app].driver

(* The transitions that the handlers propose; every user they add has a DID. *)
WithDID  == {r \in User : r.did}
Requests ==
  UNION {{Migration(v)                     : v \in Targets},
         {AddUser(u, r)                    : u \in UserId, r \in WithDID},
         {StartInstallation(a, r, r.config, r.rules) :
                                             a \in AppId, r \in InstallRequests},
         {FinishInstallation(a)            : a \in AppId},
         {Uninstall(a)                     : a \in AppId},
         {ProcessStart(p, r)               : p \in ProcId, r \in Process},
         {ProcessStop(p)                   : p \in ProcId}}

(***************************************************************************)
(* The handlers change the document only as the registry allows: an        *)
(* installation that finishes after its app was uninstalled brings nothing *)
(* back, a start that raced an uninstallation records nothing.             *)
(***************************************************************************)
Registry == INSTANCE NodeRegistry WITH
  registry      <- db,
  InitialStates <- {InitialState(DefaultApps, DefaultRules, uuid) :
                      uuid \in Injection(DOMAIN DefaultApps, ProcUuid)}
ImplementsRegistry == Registry!Spec

-----------------------------------------------------------------------------
(***************************************************************************)
(* What comments and tests say, and the code does not keep.                *)
(***************************************************************************)

(***************************************************************************)
(* transitions.go: "multiple processes per app not supported at this       *)
(* time".  The document has one process per app; Docker may run two.       *)
(***************************************************************************)
OneContainerPerApp ==
  \A p, q \in DOMAIN minted :
    running[p] > 0 /\ running[q] > 0 /\ minted[p].app = minted[q].app => p = q

(***************************************************************************)
(* state.go calls NodeState.Processes "a set of running processes that a   *)
(* node can restore to on startup".  What a boot restores is the state it  *)
(* has just generated.                                                     *)
(***************************************************************************)
RestoresRecordedProcesses ==
  [][node = "down" /\ node' # "down" =>
       DOMAIN db'.procs \subseteq pending']_vars

(***************************************************************************)
(* processes_test.go: after a start that is answered 201 the process is in *)
(* the node state.  (Checked with one thread, so that nobody stops it.)    *)
(***************************************************************************)
StartedIsRecorded ==
  [][\A t \in Thread :
       job[t].op = "start" /\ pc'[t] = "idle" /\ answer' = "ok" =>
         job[t].proc \in DOMAIN db'.procs]_vars

(***************************************************************************)
(* controller.go: a start goes on to "Register with reverse proxy server". *)
(* When every app ever installed runs and nobody is at work, the proxy has *)
(* every rule of the document.  But the rules of an app are found by its   *)
(* ID, which is drawn only after the request that brought them: refuted    *)
(* with InstallRequests <- RoutedInstall (README, section 4).              *)
(***************************************************************************)
RunningAppsAreRouted ==
  node = "up" /\ apps = DOMAIN db.apps /\ (\A t \in Thread : pc[t] = "idle")
    /\ (\A a \in DOMAIN db.apps : \E p \in DOMAIN db.procs : db.procs[p].app = a)
    => DOMAIN db.rules \subseteq DOMAIN proxy
=============================================================================
