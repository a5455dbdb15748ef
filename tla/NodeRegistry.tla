---------------------------- MODULE NodeRegistry ----------------------------
(***************************************************************************)
(* What the node promises of its state, whoever changes it and however it  *)
(* is stored: one document, empty until the node first comes up, that      *)
(* changes only by transitions that were valid when they took effect.      *)
(* HabitatDB and Controller are shown to implement this specification.     *)
(***************************************************************************)
EXTENDS NodeTransitions

CONSTANTS
  InitialStates,  \* the documents main.go may generate for a new node
  Requests        \* the transitions the node's clients may propose

ASSUME RequestsAssumption == Requests \subseteq Transition

ASSUME InitialStatesAssumption == \A s \in InitialStates : WellConfigured(s)

VARIABLE registry

Init == registry = EmptyState

(* The node comes up for the first time. *)
Create(s) ==
  /\ registry = EmptyState
  /\ Accepts(registry, Initialize(s))
  /\ registry' = Patch(registry, Initialize(s))

(* A transition is accepted. *)
Change(t) ==
  /\ registry # EmptyState
  /\ Accepts(registry, t)
  /\ registry' = Patch(registry, t)

Next ==
  \/ \E s \in InitialStates : Create(s)
  \/ \E t \in Requests : Change(t)

Spec == Init /\ [][Next]_registry

-----------------------------------------------------------------------------
(* The registry is always a document that the schema of its version accepts. *)
TypeOK == IsNodeState(registry) /\ SchemaValid(registry)

(***************************************************************************)
(* At most one process per app, however starts, stops, uninstallations and *)
(* migrations follow each other (transitions.go:473-481).                  *)
(***************************************************************************)
OneProcessPerApp == OneProcess(registry)

(***************************************************************************)
(* A package of a registry is installed at most once at a time, whatever   *)
(* IDs the installations drew (transitions.go:267-279).                    *)
(***************************************************************************)
OneAppPerPackage == OnePackage(registry)

(***************************************************************************)
(* Usernames identify users (transitions.go:175-180).                      *)
(***************************************************************************)
UsernamesUnique == OneName(registry)

(***************************************************************************)
(* The user of every app and of every process is in the document: nothing  *)
(* ever removes a user, and both checks of the user are against the        *)
(* document the record is added to (transitions.go:246-250, 464-468).      *)
(***************************************************************************)
OwnersExist == HaveOwners(registry)

(***************************************************************************)
(* While an app is in the document only its state changes, and only from   *)
(* installing to installed; a process record never changes and never       *)
(* starts under an app that is still being installed.                      *)
(***************************************************************************)
AppAdvances ==
  \A a \in DOMAIN registry.apps \cap DOMAIN registry'.apps :
    \/ registry'.apps[a] = registry.apps[a]
    \/ /\ registry.apps[a].state = "installing"
       /\ registry'.apps[a] = [registry.apps[a] EXCEPT !.state = "installed"]
ProcessAppears ==
  \A p \in DOMAIN registry'.procs :
    IF p \in DOMAIN registry.procs
    THEN registry'.procs[p] = registry.procs[p]
    ELSE registry # EmptyState =>
           LET a == registry'.procs[p].app
           IN a \in DOMAIN registry.apps /\ registry.apps[a].state = "installed"
Lifecycle == [][AppAdvances /\ ProcessAppears]_registry

(***************************************************************************)
(* A migration never loses a user, an app or a process: every downgrade    *)
(* that could not represent one is refused by the target's schema          *)
(* (transitions.go:99-126).  Rules and DIDs it does lose.                  *)
(***************************************************************************)
MigrationKeepsRecords ==
  [][registry'.version # registry.version =>
       /\ DOMAIN registry'.users = DOMAIN registry.users
       /\ registry'.apps = registry.apps
       /\ registry'.procs = registry.procs]_registry
=============================================================================
