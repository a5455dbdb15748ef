# A verification model of the Habitat node

TLA+ modules that model the Habitat node (`cmd/node` and `internal/`), the TLC
runs that check them on small instances, and TLAPS proofs of what holds on all
instances. Paths below are relative to the repository.

## 1. The system

A node is one Go process. It keeps a document, the *node state*: users, app
installations, processes and reverse-proxy rules. It talks to a Docker daemon
that outlives it, downloads packages, serves an HTTP API, and routes requests to
apps. Next to that it holds private records with permissions and several
authentication services.

| Component | Code | State | Operations | Hard parts |
|---|---|---|---|---|
| Node state document | `internal/node/state/{transitions,json,state,schema,migrations}.go` | a JSON document with a schema version | nine transitions (Validate, Patch), schema check, migrations up and down | long sequences of legal transitions; what each schema version can hold |
| File database | `internal/node/state/db.go` | bytes in memory, one file, an RWMutex | open or create, propose, read | torn and failed writes, crashes, concurrent callers |
| Controller | `internal/node/controller` | none of its own; drives the database, the process manager, the package managers and the proxy | start, stop, install, uninstall, add user, migrate, restore | each handler is several calls with no lock across them; each call can fail |
| Process manager, drivers | `internal/process`, `internal/docker/driver.go`, `internal/web/driver.go` | none; containers carry the process ID as a label | start, stop, is-running, restore | containers outlive the node; check, then create |
| Package managers | `internal/docker/package_manager.go`, `internal/web/package_manager.go` | images, bundle directories | install, restore | asynchronous pull, partial extraction |
| Reverse proxy | `internal/node/reverse_proxy` | a map of rules | add rule, match, serve | the map has no lock |
| Boot, shutdown | `cmd/node/main.go` | the state generated from the configuration | generate, open the database, restore, serve | crash and restart |
| Permission store | `internal/permissions` | rows (grantee, owner, object, effect) | grant, remove, has, list | soft-deleted rows, prefixes, two answers to one question |
| Private records | `internal/privi` | records, blobs | put, get, list, upload | listing under permissions with cursor and limit |
| OAuth client, broker | `internal/auth` | session cookie: tokens, nonce, key | login, callback, forward, refresh | retry with a nonce, concurrent refresh |
| OAuth server | `internal/oauthserver` | self-contained codes and tokens | authorize, callback, token | one cookie for every flow |
| Node-to-node authentication | `internal/bffauth` | challenge sessions | challenge, auth | session read and deleted in two calls |
| API router, servers | `internal/node/api`, `internal/node/server` | none | dispatch | – |
| Configuration, app store, tools, frontend, lexicons | `internal/node/config`, `internal/node/appstore`, `cmd/*`, `frontend`, `api` | none that outlives a call | – | – |

What makes each component correct:

* **Document**: it always fits the schema of its version; one process per app,
  one app per package, one user per name; owners exist; apps and processes follow
  their life cycle; migrations lose no user, app or process.
* **Database**: to its clients it is one document that changes by accepted
  transitions, across crashes; the file and the memory agree; calls return;
  readers see the current state.
* **Controller**: what the document says runs does run; no two containers share
  a process ID; records match their apps; concurrent handlers change the document
  as the transitions allow and in no other way; a boot is not stopped by what
  survived the last one.
* **Reverse proxy**: a request is served by the longest rule that matches its path,
  in whatever order the map is gone through and whatever handlers add and remove
  meanwhile.
* **Web packages**: an installation repairs what a crash or a failed one left;
  installing once more takes nothing away from what is being served; an answer without
  an error means that every app asked for was installed.
* **Permission store**: what was acknowledged holds until it is removed; a removal is
  final against additions that were under way; what the owner is shown as given can be
  read, and nothing that a check would refuse is listed.
* **Private records**: a get returns what was put under that collection and key (not kept
  for a key with a dot, section 4); a client that pages misses nothing and sees nothing
  twice; what a list shows could be read when it was asked.
* **OAuth client and broker**: identity, key and token of a session are those of one
  login; a rotated refresh token reaches the browser; a callback fails only because of
  something that disturbed it.
* **OAuth server**: what is sealed into a code is of one flow; a code of the PDS is not
  spent for nothing; records are put for the user who authenticated.
* **Node-to-node authentication**: a token is earned by answering a live challenge, and a
  session that was used or lost in a restart gives none.

## 2. The modules

```
NodeTransitions        operators: document, schema, migrations, transitions
  ├─ NodeRegistry      abstract specification: one document, accepted transitions
  ├─ HabitatDB         db.go                       implements NodeRegistry
  ├─ Controller        controller, boot, drivers   implements NodeRegistry
  └─ NodeTransitionsProofs
       ├─ NodeRegistryProofs    about Migrations, too
       ├─ HabitatDBProofs
       └─ ControllerProofs
NodeRegistry ── Migrations      the list of data migrations, against MigratedData
ReverseProxy ─┐
WebBundles   ─┴ ServingProofs
Permissions
  └─ PriviRepo       records and handlers over the permission store
       └─ PriviProofs           about both
AuthSession          OAuth client, cookies, broker
  └─ AuthSessionProofs
OAuthServer  ─┐
BffAuth      ─┴ CallersProofs

instances for TLC: MCNodeRegistry (with Migrations), MCHabitatDB, MCController,
MCAuthSession, MCPriviRepo, MCCallers (OAuthServer and BffAuth),
MCServing (ReverseProxy and WebBundles)
```

**NodeTransitions** translates `internal/node/state`. A document is a record of a
version and four maps; a transition is a record with the `TransitionType` of
`types.go`. `…Valid` operators are the `Validate` methods, `Patch` collects the
`Patch` methods with the JSON patch already applied, `SchemaValid` is
`Schema.ValidateState`, `Accepts` is `ProposeTransitions` for one transition
(validation, patch, schema check of the result). `MigratedData` is the effect of
the chain of `NodeDataMigrations` between two versions. A process ID is a pair of
a driver and a uuid, because the code builds it from both and takes the driver out
again. Abstracted: names, versions, tags, driver configurations (only whether
there is one), certificates, timestamps, and `test_field`, which migrations set and
clear and nothing reads.

The schema matters more than it seems. The Go struct always writes
`driver_config`, so no app fits a schema older than v0.0.4; it has no `driver` in a
process, so no process fits one older than v0.0.8; `embedded_frontend` and `noop`
are in no schema at all. `SchemaValid` says exactly this.

**NodeRegistry** is the promise: `registry` is `EmptyState` until the node first
comes up (`Create`), then changes by accepted transitions (`Change`).

**HabitatDB** has one action per step that another goroutine or a crash can come
between: taking the lock, rejecting, truncating the file, writing it, committing to
memory, the read lock. `os.WriteFile` truncates and then writes, so the file is
`absent`, `torn` or `whole`. `BootFromFile`, `BootCreate`, `BootWrite` and
`BootWriteFails` are `NewHabitatDB`; `Crash` may come at any point; `WriteFails` is
the error that `ProposeTransitions` swallows.

**Controller** has one action per call a handler makes to another component;
several handlers run at once, one per `Thread`. `pc` and `job` are a handler's place and
local variables. The database is the single variable `db`: that a whole proposal is
one step is what HabitatDB shows. `running` counts containers per process ID and
survives `Crash`, as do `pulling` and `fetched`. History variables, which no action
reads to decide anything the code would not decide: `minted` (what each process
ID was drawn for; it also keeps uuids fresh), `apps` (app IDs drawn), `exited`
(recorded processes whose container exited), `cut` (processes a crash or a dropped
write left half way). Correspondence:

| Code | Actions |
|---|---|
| `startProcess` | `StartProcess`, `RecordProcess`, `Launch` (is-running), `CreateContainer`, `Rollback`, `ReadRules`, `AddRule` |
| `stopProcess` | `StopProcess`, `StopContainer`, `UnrecordProcess` |
| `installApp` | `InstallApp`, `PullPackage`, `FinishInstall`, `StartInstalled` and then as `startProcess` |
| `uninstallApp`, `addUser` | `UninstallApp`, `AddUserToNode` |
| `migrateDB` | `MigrateDB`, `ProposeMigration` |
| `main`, `NewCtrlServer`, `restore` | `Boot`, `RestorePackages`, `RestorePackagesFails`, `RestoreProcess`, `RestoreProcessFails`, `Restored` |
| Docker daemon, operating system | `PullEnds`, `Exit`, `Crash` |

`web` apps have no driver in the process manager: `web.NewDriver` is a no-op driver
whose `Type()` is `noop` (`internal/process/driver.go:38`), and that is the key it
is registered under. `Registered` says so, and the model's web apps therefore
never start, as in the code.

**Migrations** derives `MigratedData` from the code: `NeededMigrations` is the loop of
`GetNeededMigrations` with its two ends and its one flag, `Up` and `Down` are the
functions of `NodeDataMigrations`, `Chain` is `GetMigrationPatch`. The two loops, `Search`
and `Applied`, are functions of the number of turns. It has no variables of
its own: its invariant `ChainIsMigratedData` (every supported range of versions is found,
and its chain does what `MigratedData` says) is about the document of NodeRegistry, every
one that can be reached.

**ReverseProxy** has `AddRule` and `Remove` of `RuleSet`, and a request as `ServeHTTP`
runs it: `Begin`, a `Visit` for each entry the iteration reaches, `Serve`. Go promises
of a map that changes under an iteration that entries present throughout are reached
once, removed ones not reached, and new ones reached or not; `Change` and `Serve` say
this. A path is the sequence of what is between its slashes, so `matchRule` is a prefix
test of sequences. `Outcome` is `getHandlerFromRule` with the status it answers.

**WebBundles** is one bundle directory and the calls that work on it. A call of
`InstallPackage` or of `RestoreFromState` takes its apps in any order, as the map gives
them (`MakeDirectory`); an archive is downloaded and extracted file by file (`OpenFile`,
`CopyPiece`, `CloseFile`), a piece of a file at a time; `RemoveAll` unlinks what it has
listed (`Uninstall`, `Unlink`, `RemoveDirectory`). A file that is unlinked while open goes
on being written to without a name (`linked`). Abstracted: what is in an archive besides
files and their lengths; directories inside it.

**Permissions** is the table of `sqlite_store.go`. `FirstOrCreate` with `Assign` is a
SELECT and then an UPDATE or an INSERT (`AddSelect`, `AddWrite`); a removal marks a row
as deleted (gorm's soft delete), which hides it from every query and not from the unique
index. An object is a sequence of segments, `LIKE 'object.%'` a prefix test.

**PriviRepo** extends it with the table of records and the handlers of `privi/server.go`.
A get and a list are two steps, as the code asks the permission store and then queries
the table. `Selected` is the WHERE clause, `Matches` its pattern of an allow or deny list.
`StartPaging` and `NextPage` are a client that makes its next cursor of the last URI,
since the answer carries none. A stored value is the pair it was put under, so that a get
shows whose value it returns.

**AuthSession** is a browser, its cookies and `internal/auth`. The server keeps nothing:
each handler works on the copy that came with its request (`req[q].sess`), and what
`Save` wrote replaces the browser's cookie when the response arrives (`Deliver`), in any
order or not at all (`Lose`). `Do` is `DpopHttpClient.Do`: one request, one retry with the
nonce of the answer. `Login`, `Callback`, `BrokerForward`, `BrokerRefresh` and
`BrokerRetry` are the handlers, cut where they call out; the `…Unable`, `…Lost` and
`Fail` variants are their error paths. External: the authorization server (`Redeems`,
`Renews`, `grants`), the PDS (`Accepts`), expiry, the user.

**OAuthServer** is `internal/oauthserver` with the browser, the apps and the PDS. The
flows wait as flashes in one cookie; `HandleCallback` takes the oldest, makes the app's
request again (`RecreateRequest`), redeems the PDS's code and seals a session into an
authorization code (`FinishCallback`). `HandleToken` is the exchange of a code as fosite
runs it over `storage.go`, `PutRecord` the use of a token in `Validate` and in
`privi.Server.PutRecord`. From `CookieRoom` flashes on, the cookie may have no room for
another. Assumed of the PDS: it authenticates the account the request hinted at, and
redeems a code once, for its key and verifier.

**BffAuth** is `Provider` and the map of challenge sessions: `HandleChallenge`, and an
answer in the three steps between which other requests run: `Begin` (`GetSession`),
`Delete` (`DeleteSession`), `Finish` (`VerifyProof`, the token). `Restart` empties the map.

**MCCallers**, **MCServing** and **MCPriviRepo** put into one run what does not share
state: a variable that never changes (`caller`, `part`, `client`) says which of the
components, or which client of the records, a behaviour is about. Every behaviour of each
alone is one of the whole, and nothing is checked less than it would be in a run of its
own.

Definitions named `X_SomethingWrong` are not used by any specification: each is a
plausible mistake in `X`, kept to show that a property would notice it.

## 3. The runs

| Run | Module, config | Checks | Instance | Size |
|---|---|---|---|---|
| `registry` | MCNodeRegistry, NodeRegistry.cfg | `TypeOK`, `OneProcessPerApp`, `OneAppPerPackage`, `UsernamesUnique`, `OwnersExist`, `ChainIsMigratedData`, `Lifecycle`, `MigrationKeepsRecords` | 2 users, 2 names, 2 apps, 2 packages, 3 drivers, 2 uuids, 1 rule, 10 target versions, 3 initial documents | 30,013 states |
| `database` | MCHabitatDB, HabitatDB.cfg | `FileMatchesMemory`, `ReadersSeeCurrentState`, `ImplementsRegistry`, `CallsReturn` | 2 clients, 5 transitions | 3,697 states |
| `controller` | MCController, Controller.cfg | `RecordedIsRunning`, `OneContainerPerProcess`, `RecordMatchesApp`, `ImplementsRegistry` | 2 threads, 1 default app, 1 more web app, 3 uuids, 1 boot, failing daemon and downloads | 99,313 states |
| `restart` | MCController, ControllerRestart.cfg | `RecordedIsRunning`, `SurvivorsDoNotBlockBoot` | 1 thread, 2 boots, 1 default and 1 more Docker app, 3 uuids, also a failing state file | 284,233 states |
| `auth` | MCAuthSession, AuthSession.cfg | `TypeOK`, `TokenOfIdentity`, `NewTokenFitsKey`, `RotationReachesBrowser`, `BoundTokenIsServed`, `FailuresArePaidFor` | 2 accounts, 2 requests in flight of 5, 3 logins, 2 expiries, 2 faults | 1,599,259 states |
| `callers` | MCCallers, Callers.cfg | `CodesHoldOneFlow`, `RedeemedBecomesCode`, `OwnerAuthenticated`, `FailuresArePaidFor`; `NoTokenFromSpent`, `TokensAreEarned` | 2 users, 1 app, 2 requests in flight, 3 flows, room for 2, 2 callbacks, 1 fault; 2 DIDs, 2 keys, 2 sessions, 3 answers | 4,805,471 states |
| `serving` | MCServing, Serving.cfg | `LongestMatchServes`; `LastInstallServes`, `ReinstallKeepsServing`, `AnswersAreTrue` | 6 rules under 3 IDs, 3 changes, 3 paths, 2 requests; 2 archives, 2 calls of 3, 1 removal, 1 fault | 1,535,760 states |
| `privi` | MCPriviRepo, PriviRepo.cfg | `TypeOK`, `ListedWasReadable`, `PagesAreComplete`, `AcknowledgedAdditionHolds`, `ShownIsReadable`, `RemovalIsFinal` | 1 owner, 1 grantee, 2 handlers, 4 changes of permissions, a collection below another, 3 keys, 3 puts, 2 reads, pages of 2 | 1,931,813 states |
| `acknowledged` | MCHabitatDB, AckLost.cfg | violates `AcknowledgedIsStored` | as `database` | |
| `two_containers` | MCController, TwoContainers.cfg | violates `OneContainerPerApp` | 2 threads, no faults | |
| `restore` | MCController, Restore.cfg | violates `RestoresRecordedProcesses` | 1 thread, 2 boots, no faults | |
| `start_answer` | MCController, StartAnswer.cfg | violates `StartedIsRecorded` | 1 thread, failing daemon | |

The type invariants of HabitatDB, Controller, OAuthServer, BffAuth, ReverseProxy and
Permissions are proved (section 5), so the runs do not repeat them.

What they show:

* **registry.** From every reachable document, every transition is tried, so a
  violation by any sequence of them would be found. Two of everything is enough for
  the uniqueness rules, which relate two entries. All versions may be asked for; 0 and 9
  have no schema, 3/4 and 4/5 and 7/8 are where a schema or a migration changes what a
  document can hold. From each of these documents the migrations to all versions are
  computed as the code does, and compared with `MigratedData`: with that, what the
  other runs and the proofs take as one operator is checked to be what the list does.
  Deadlock is checked.
* **database.** Two clients give every interleaving of the lock that matters: a
  proposal against a proposal, a proposal against a read. The five transitions
  include one that validates and fails the schema, and a downgrade. A torn file
  ends all boots, so the system may stop (no deadlock check).
* **controller.** Every pair of handlers, at every point of both, with every call
  failing or not. Uuids are bounded to 3, one for the boot and two for starts; app
  IDs to one default and one fresh. The system stops when they run out.
  Threads and uuids are interchangeable (symmetry); the properties name none.
* **restart.** One request at a time keeps two boots affordable; the interleavings
  are the other run's. Every handler step can be the last one before a crash.

* **auth.** Two requests in flight suffice for responses to cross, three logins for one
  left behind between two others; two faults let a lost answer follow a refused nonce.
  `RotationReachesBrowser` and `BoundTokenIsServed` are stated for requests one after
  another and before the first fault (`Quiet`): two tabs that refresh with one token do
  lose it, which is how rotation works and not this code. The others hold of all
  interleavings. `FailuresArePaidFor` counts what may disturb a login (one left behind,
  a callback repeated, a fault, two requests together) against failed callbacks.
* **callers.** Two requests in flight, three flows and two users let the cookie of one
  flow meet the code of another; `CookieRoom` is below the number of flows, so that a
  full cookie happens. For the challenges, two sessions and three answers give an answer
  that comes after, before and during another, with a restart anywhere.
* **serving.** Three IDs and three changes let a rule go and another come under its ID
  while a request is on its way. The rules are nested, one ends in a slash, two have one
  matcher, one is the root rule of production, one has an unknown type. The second
  archive's shared file is longer than the first's, so that an installation of either
  over the other is tried; three installations with two at a time include a restore.
* **privi.** Nested collections with a key that reads like the lower one; two handlers
  on one row.
  Pages of two over three keys begin, go on and end. The reader is given two keys
  (`TwoKeys`), the pager three.

In `auth`, `callers`, `serving` and `privi` the bounded requests run out, so deadlock is
not checked. Accounts, users, slots, calls, rule IDs, requests of the proxy and handlers
are interchangeable where the cfg says SYMMETRY; no constant and no property names one.

The bounds: `MaxBoots`, the sizes of `ProcUuid` and `AppId` (a fresh ID must be
left), one outstanding request per thread. They bound how long a behaviour is, not
what a step may do.

**Fairness** is assumed for `CallsReturn` only: weak fairness of a client's next
step (the Go scheduler runs what can run) and strong fairness of `Lock` and `RLock`.
Strong fairness is what `sync.RWMutex` documents: a waiting writer blocks new readers
and an unlocking writer lets the waiting readers in first. New calls are not
assumed to be made, and a crash ends a call.

## 4. Where the code and its documents disagree

* **acknowledged.** `ProposeTransitions` of `db.go` returns no error when the file
  could not be written (lines 110–122). `db_test.go:93-104` reads the file after a
  proposal and expects the change.
* **two_containers.** Start an app; before its container is created, stop the
  process that was just recorded; start the app again. Both containers come up, one
  process is recorded. `transitions.go:477`: "multiple processes per app not
  supported at this time".
* **restore.** `main.go:149` restores the state it has just generated from the
  configuration. `state.go:23` calls the recorded processes "a set of running
  processes that a node can restore to on startup". After a restart, installed apps do
  not come back, and the default apps run next to their recorded processes.
* **start_answer.** In `controller.go:77-84` the rollback's error replaces that of
  the start; wrapping nil gives nil, and the failed start is answered 201.
  `processes_test.go:168-208` expects the process in the state after a 201.

Refuted by TLC as well, and kept as definitions at the end of their modules, so that a
correction of the code can be followed by a correction of the model and a property to
check. Adding the name to the run's cfg shows the counterexample.

| Property | Run | What happens |
|---|---|---|
| `OneTokenPerSession` (BffAuth) | `callers` | `handleAuth` reads the session and deletes it in two calls, and deleting one that is gone is no error (`provider.go:112-118`): two answers that both read it first get a token each. `session.go:48`: "challenges that have not yet been used". |
| `AdditionGrants` (Permissions; PROPERTY) | `privi` | A removed row stays in the unique index, hidden (`sqlite_store.go:103`): the permission cannot be given again. `sqlite_store.go:87`: "grants read permission for an entire lexicon". |
| `GetReturnsWhatWasPut` (PriviRepo) | `privi`, with `<<Posts, A>>` added to `MCRkeys` | Collection and key are joined with a dot (`privi.go:56`), so a key with a dot is the row of another record in a nested collection. |
| `ListedUriResolves` (PriviRepo) | `privi` | The owner's list of a collection takes what is in the collections below it, under URIs that no record has (`server.go:273`). |
| `ListCoversCollection` (PriviRepo) | `privi` | The permission store's prefix is taken by the query as a whole key (`repo.go:216`): a grantee is shown none of the records it may read one by one. |
| `UploadsAreStored` (PriviRepo) | `privi` | The line that sets `maxBlobSize` is commented out: only the empty blob can be uploaded (`repo.go:143`). `repo_test.go:138` uploads twenty bytes. |
| `CodesAreSingleUse` (OAuthServer) | `callers`, with `MaxExchanges = 2` | `InvalidateAuthorizeCodeSession` does nothing (`storage.go:97`); line 98 calls the code "self-contained and single-use". |
| `OwnersPutsAreServed` (OAuthServer) | `callers` | A token's subject is the text its flow began with (`session.go:29`), the owner is compared by DID (`privi/server.go:82`): an owner who gave a handle, as `oauth_server.go:102` asks, is refused. |
| `UnservedIsAnError` (ReverseProxy) | `serving` | An `embedded_frontend` rule is accepted by `AddRule` and unknown to `getHandlerFromRule`; the message is written before the status, so the answer is 200 (`server.go:61`). |
| `SlashRulesServe` (ReverseProxy) | `serving` | A matcher that ends in a slash matches nothing below it (`server.go:114`), such as the rule of `main.go:330`, whose next line blames another rule. |
| `RunningAppsAreRouted` (Controller) | `start_answer`, with `Faults = {}`, `InstallRequests <- RoutedInstall` and this as its INVARIANT | The rules of an installation carry an app ID from before the app had one (`controller.go:93`), so a start never registers them. |
| `ExtractedIsTheBundle` (WebBundles) | `serving` | Files are opened without O_TRUNC (`package_manager.go:253`): a shorter file keeps the tail of the longer one it replaces. |

Met while modelling, and not the subject of a run:

* The migration to v0.0.3 clears `test_field` on the way up and sets it on the way down,
  against the rules at `migrations.go:278-279`. `Up` and `Down` do as the code does.
* The refresh grant of the OAuth server cannot succeed: `GetRefreshTokenSession` returns
  nothing (`storage.go`).
* The expiry of a challenge session is written and never read; a challenge that is never
  answered stays until a restart.
* Abandoned flows fill the cookie of the OAuth server, and then every `/authorize` fails
  until some callback clears it.
* A bundle's directory is made before its download, so `IsInstalled` is true after a
  failed one. Nothing calls it.
* `LIKE` is case-insensitive in SQLite and takes `_` and `%` of an object as wildcards;
  the model's segments have no characters.
* A rule of an installation whose ID is taken replaces that rule in the document, while the
  proxy keeps the old one and refuses the new one until the next boot.

* `api/router.go:35`: `processedRoute.ServeHTTP` calls itself, not the route it
  embeds, so the router never reaches a handler. The model is of the handlers.
* In production the default frontend rule has the type `embedded_frontend`, which
  the schema refuses (`migrations/0000000004-pds.json:28`), so `initialize` is
  rejected and a first boot fails. The `registry` run has such a document among its
  initial states, and it is never accepted.
* Web apps can be installed but not started: see `Registered` above.
* `NewHabitatDB` returns `(nil, nil)` when its first write fails (`db.go:88-90`).
* An app whose download failed, or during which the node crashed, stays
  `installing`. It cannot be started and its package cannot be installed again until
  it is uninstalled by its ID.
* Uninstalling an app leaves its process and its rules in the document.
* `ImagePull` is asynchronous and its reader is never read (`package_manager.go:88`):
  "Pulled image" is logged, and the app marked installed, before the image is there.

## 5. What is proved

All proofs are checked by TLAPS, for every value of the constants, from the
assumptions named in the modules:

* `RootAssumption`, `NoAppAssumption`, `NoClientAssumption`: distinct special values.
* `RequestsAssumption`: clients propose well-formed transitions other than
  `initialize` (in the code only `main` creates that one); for the database, that there is
  one at all. For the controller it is about the requests of the API, of which the module
  makes the transitions itself (`Requests`): installations are well-formed, and a target
  version is a number that there is a schema for, or one off at either end.
* `BoundAssumption`: `MaxBoots` is a number, any.
* `AuthAssumption`, `OAuthAssumption`, `PriviAssumption`, `BundlesAssumption`: bounds are
  numbers, any; requests in flight are finitely many (OAuthServer); record keys are not
  empty and the order of the database tells keys apart; an archive is a list of files, no
  name twice in it. With them the two `NoneAssumption`s: what stands for no value is none.
* `PagedAssumption`: the collection a client pages through has no other collection below
  it. The cursor of the client is the last URI it was shown; where there is a collection
  below, that URI may be no record's (`ListedUriResolves`, section 4), and the client gets
  lost.
* `InitialStatesAssumption`, and `DefaultAssumption` for the controller: what `main` generates is `WellConfigured`. This is an
  assumption about the operator's configuration (each default app and package once,
  owned by the root user), which the code does not check.

**NodeTransitionsProofs** has the lemmas about one transition: which `Validate` and
`Patch` each kind runs (`…Effect`), what becomes of the users, apps and processes
(`PatchUsers`, `PatchApps`, `PatchProcesses`), that a patch of a document is a document
(`PatchIsNodeState`) and keeps the four rules (`PatchKeeps…`). The users need care:
a migration rewrites them, keeping names. Migrations copy apps and processes; what
could not be copied is refused by the target's schema.

**NodeRegistryProofs** proves `TypeOK`, `OneProcessPerApp`, `OneAppPerPackage`,
`UsernamesUnique`, `OwnersExist`, `Lifecycle` and `MigrationKeepsRecords` of the
registry. The inductive invariant is the conjunction of the five state predicates: none
of the four rules is inductive without the type (a patch is applied to maps), and the
two action properties follow from it and the lemmas about one transition.

It also proves `ChainIsMigratedData`: that `MigratedData`, which all these proofs take as
one operator, does what the list of migrations does. The two loops are recursive
functions, about which no induction can be cited here; but they have at most nine turns.
For each the proof states what it has come to after any number of turns (`LoopAt`: what
lies between the lower and the upper version is taken, whichever of them is the target;
`StoredAt`: the document, test field and driver configurations at the version reached),
shows that every turn keeps to it (`LoopStep`, `StoredUp`, `StoredDown`), and that nine
turns leave no other function. A tenth migration would need one more step in
`SearchEnds` and `ChainsAgree`.

**HabitatDBProofs** proves that the database implements the registry, for any
number of clients, and its safety invariants. The inductive invariant adds to
those: who holds the mutex in terms of the program counters (`MutexInv`), and how
file and memory relate at every point of a proposal and of the boot, and that every
document after the first boot has the root user, so that none of them looks like the
empty one of a node that has yet to come up (`FileInv`). The
refinement mapping reads the registry from the file while the node is down and from
memory while it is up. The step that changes the registry is the commit to memory or,
if the crash comes first, the crash itself, which turns a file that is already written
into the truth. `Same…` lemmas say that the operators instantiated for the abstract
registry are those of the module.

**ControllerProofs** proves, for any number of handlers, apps, packages and boots, that a
recorded process runs unless its container exited or its handler was cut off
(`RecordedIsRunning`), that no ID has two containers (`OneContainerPerProcess`), that a
record names its app's owner and driver (`RecordMatchesApp`), that what survived a crash
blocks no boot (`SurvivorsDoNotBlockBoot`), and that handlers, boots and crashes change the
document as NodeRegistry allows (`ImplementsRegistry`). None of them is inductive. What the
invariant `IInv` adds:

* `Recorded`: a recorded process whose container is not there is held by somebody
  (`Held`): a start on its way to the container, a stop on its way from it, or the boot.
  A process ID is drawn once, so nobody else comes to hold it.
* `Current`: the app that a start has read is the one the document has under that ID, or
  none. The handler uses it after other handlers have changed the document; that this is
  safe rests on app IDs being drawn once (`apps`), since an app that is uninstalled and
  installed again has another ID.
* `Alone` and `Clear`: between the check for a running container and its creation, no
  other handler, and not the boot, can create one under that ID.
* `Placed`: at each point of a handler, which job it has and what was drawn for it;
  `Booting`: what is pending and who may run in each phase of the node.

The proof has a lemma for each action, and a few about kinds of steps that most of them
are: a handler that answers (`Answers`), one that proposes what spares the processes
(`Proposes`), a node that ends (`EndsStep`). That a document which is proposed is the
document of the step after (`Save`) is HabitatDB's result.

**CallersProofs**, of OAuthServer: a redeemed code of the PDS whose answer arrived becomes a
code of the server (`RedeemedBecomesCode`), what is sealed into a code is of one flow
(`CodesHoldOneFlow`), and records are put for the user who authenticated in the flow of
the token (`OwnerAuthenticated`). The invariant says of each
place a flow passes through (the cookie, a request in flight, a sealed code) what it holds
of that flow.

`FailuresArePaidFor` compares two counts, and is proved by a debt. The invariant `Debt` adds
to the failures what will still fail and deducts what will not: one for each callback of the
newest flow that is being handled (`Waiting`), less one if the PDS will serve one of them
(`OneIsServed`: it brought its flow's key, and the code is not redeemed), and one more unless
the cookie is, or will be when the one request under way is answered, what the next callback
needs (`Undisturbed`: empty, or the newest flow alone while its user is at the PDS). Each
action has a lemma that it pays for what it adds. A flow that is left behind, a page loaded
again, a request that meets another, a fault: each is counted once and can spoil the cookie
once, because whatever the callback's answer is, it empties the cookie.

Of BffAuth: a session which was used, or which a restart lost, gives no
token (`NoTokenFromSpent`), and every token was earned by a valid answer to the
challenge of its session (`TokensAreEarned`), for any number of sessions and answers in
flight. The strengthening ties each answer to the session it has read (`Used`): between
`GetSession` and the token, the session may be deleted, the map emptied and other sessions
made, and what the answer was checked against is its own copy.

**AuthSessionProofs** has three invariants, one on top of the other, for any number of
requests in flight.

* `IInv`: the server keeps no session, so what is true of sessions must be true of every
  copy, in the browser, in a request, in a handler's hands and in a response that may
  arrive late. Each is `Sound`: its key is that of an attempt for its account, and its token
  was issued. A token works only under the key of its own attempt (`Granted`), so a copy
  whose token works is of one login (`TokenOfIdentity`). What a callback or a brokered
  request saves was just issued for the key it saves with it (`Issued`), which gives
  `NewTokenFitsKey`, whichever cookie it then replaces.
* `Orderly`: as long as no request met another and nothing failed, at most one is under
  way, it works on what the browser holds, and between a refresh and the answer the newest
  token is in the response already (`Serial`). From that `RotationReachesBrowser` and
  `BoundTokenIsServed`.
* `Debt`: as for the OAuth server, with more ways for a cookie to be wrong: it holds the
  key of the newest attempt as well as its verifier, a login that comes late replaces both,
  and two requests that cross may each leave a wrong one, so that they count twice. It gives
  `FailuresArePaidFor`.

**ServingProofs**, of WebBundles: `LastInstallServes`, `ReinstallKeepsServing` and
`AnswersAreTrue`, for any archives and any number of calls at work. While an archive is
installed, with nobody else at work than others who install the same (`OnlyAtWork`), the
files it has gone past are whole and the open one is as far as it has been written
(`AloneInv`); another installation of the same archive writes the same pieces in the same
places. That nothing but one archive was extracted since the directory was made bounds the
files from above too (`InDirectory`), which is what `ReinstallKeepsServing` needs and
another archive's longer file would break. `Told` follows the apps of a call from asked for
to installed.

Of ReverseProxy: `LongestMatchServes`. A request is many steps, and the map
changes under its iteration; the invariant `SearchInv` relates what the iteration has
visited, what it must still visit and the best match so far.

**PriviProofs**, of Permissions: an acknowledged addition holds until it is removed
(`AcknowledgedAdditionHolds`), what the owner is shown can be read (`ShownIsReadable`)
and no addition under way brings a removed permission back (`RemovalIsFinal`), for any
set of grantees, owners and objects. `PermissionsAssumption` says that objects are
non-empty sequences.

Of PriviRepo: its every behaviour is one of the permission store (`StoreUnderPrivi`), so
these three hold under the handlers as well (`StoreKeeps`). What a list is about to take
could be read when its permissions were looked up (`ListInv`), and that is enough for
`ListedWasReadable`, because the query uses nothing newer than what was looked up. A
client that pages has seen keys in the order of the database up to its cursor, and what it
has not seen of the records that were there at the start is after the cursor (`PagerInv`);
`PagesAreComplete` follows when a page comes back short.

## 6. Only model-checked

Liveness, `CallsReturn`, is out of TLAPS's reach here. Every other property of a passing
run is a theorem.

## 7. Not modelled

* The authorization library of `internal/permissions` (casbin) and the dummy store: nothing
  but tests uses them.
* The refresh grant, which cannot succeed, and the inside of the OAuth library fosite, of
  which OAuthServer has what it calls in `storage.go` and in which order. The encrypter is
  an identity nobody else can open, as its key never leaves the server.
* `getBlob`; the handlers that only list or read the node's state; `IsInstalled` and
  `UninstallPackage` of the Docker package manager, which nothing calls.
* What a target of the proxy does with a request once it has it.
* The router and the HTTP servers dispatch and hold no state. Configuration is the
  constants `DefaultApps` and `DefaultRules`, the app store a file that is read.
* The Tailscale listener, command-line tools, frontend, generated lexicon types and build
  files have no state of the node.
* Proposals of several transitions: nobody makes one.

Components are *partly* modelled where one of these operations is theirs.

## 8. What is left

Each property that section 4 lists as refuted becomes one that a run checks when the
code is corrected.
