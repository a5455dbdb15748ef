------------------------- MODULE NodeRegistryProofs -------------------------
(***************************************************************************)
(* The properties of NodeRegistry and of Migrations, for every set of      *)
(* users, apps, packages, processes and rules, and every set of requests.  *)
(***************************************************************************)
EXTENDS Migrations, NodeTransitionsProofs

(***************************************************************************)
(* The inductive invariant.  The uniqueness properties each need the type  *)
(* (a patch is applied to maps), and OwnersExist needs nothing but that    *)
(* no transition removes a user.                                           *)
(***************************************************************************)
Inv == /\ TypeOK
       /\ OneProcessPerApp /\ OneAppPerPackage
       /\ UsernamesUnique /\ OwnersExist

(* The empty document violates nothing.                                    *)
LEMMA EmptyStateParts ==
  /\ IsNodeState(EmptyState) /\ SchemaValid(EmptyState)
  /\ OneProcess(EmptyState) /\ OnePackage(EmptyState)
  /\ OneName(EmptyState) /\ HaveOwners(EmptyState)
  BY DEF EmptyState, NoEntries, IsNodeState, IsMap, LatestVersion, SchemaValid,
         OneProcess, OnePackage, OneName, HaveOwners

(* initialize replaces the document.                                       *)
LEMMA InitializeEffect ==
  ASSUME NEW s, NEW i
  PROVE  Patch(s, Initialize(i)) = i
  BY DEF Initialize, Patch

(* A node that has yet to come up.                                         *)
LEMMA InitInv == Init => Inv
  BY EmptyStateParts DEF Init, Inv, TypeOK, OneProcessPerApp, OneAppPerPackage,
     UsernamesUnique, OwnersExist

(* The document main.go generates is well formed.                          *)
LEMMA CreateInv ==
  ASSUME NEW s \in InitialStates, Create(s)
  PROVE  Inv'
  <1>1. registry' = s /\ SchemaValid(s)
    BY InitializeEffect DEF Create, Accepts
  <1>2. WellConfigured(s)
    BY InitialStatesAssumption
  <1>. QED
    BY <1>1, <1>2 DEF Inv, TypeOK, OneProcessPerApp, OneAppPerPackage,
       UsernamesUnique, OwnersExist, WellConfigured

(* A transition keeps each part.                                           *)
LEMMA ChangeInv ==
  ASSUME NEW t \in Requests, Inv, Change(t)
  PROVE  Inv'
  <1>1. /\ t \in Transition /\ Validate(registry, t)
        /\ registry' = Patch(registry, t) /\ SchemaValid(registry')
    BY RequestsAssumption DEF Change, Accepts
  <1>2. IsNodeState(registry)
    BY DEF Inv, TypeOK
  <1>3. TypeOK'
    BY <1>1, <1>2, PatchIsNodeState DEF TypeOK
  <1>4. OneProcessPerApp'
    BY <1>1, <1>2, PatchKeepsOneProcess DEF Inv, OneProcessPerApp
  <1>5. OneAppPerPackage'
    BY <1>1, <1>2, PatchKeepsOnePackage DEF Inv, OneAppPerPackage
  <1>6. UsernamesUnique'
    BY <1>1, <1>2, PatchKeepsOneName DEF Inv, UsernamesUnique
  <1>7. OwnersExist'
    BY <1>1, <1>2, PatchKeepsOwners DEF Inv, OwnersExist
  <1>. QED
    BY <1>3, <1>4, <1>5, <1>6, <1>7 DEF Inv

(***************************************************************************)
(* Every reachable registry satisfies the invariant.                       *)
(***************************************************************************)
THEOREM Invariant == Spec => []Inv
  <1>1. Init => Inv
    BY InitInv
  <1>2. Inv /\ [Next]_registry => Inv'
    <2>. SUFFICES ASSUME Inv, [Next]_registry PROVE Inv'
      OBVIOUS
    <2>1. CASE UNCHANGED registry
      BY <2>1 DEF Inv, TypeOK, OneProcessPerApp, OneAppPerPackage,
         UsernamesUnique, OwnersExist
    <2>. QED
      BY <2>1, CreateInv, ChangeInv DEF Next
  <1>. QED
    BY <1>1, <1>2, PTL DEF Spec

(***************************************************************************)
(* The registry is always a document of the schema of its version.         *)
(***************************************************************************)
THEOREM TypeCorrect == Spec => []TypeOK
  <1>1. Inv => TypeOK
    BY DEF Inv
  <1>. QED
    BY <1>1, Invariant, PTL

(***************************************************************************)
(* No app ever has two processes.                                          *)
(***************************************************************************)
THEOREM OneProcessAlways == Spec => []OneProcessPerApp
  <1>1. Inv => OneProcessPerApp
    BY DEF Inv
  <1>. QED
    BY <1>1, Invariant, PTL

(***************************************************************************)
(* No package is ever installed twice.                                     *)
(***************************************************************************)
THEOREM OneAppAlways == Spec => []OneAppPerPackage
  <1>1. Inv => OneAppPerPackage
    BY DEF Inv
  <1>. QED
    BY <1>1, Invariant, PTL

(***************************************************************************)
(* No two users ever share a name.                                         *)
(***************************************************************************)
THEOREM UsernamesAlwaysUnique == Spec => []UsernamesUnique
  <1>1. Inv => UsernamesUnique
    BY DEF Inv
  <1>. QED
    BY <1>1, Invariant, PTL

(***************************************************************************)
(* The user of an app or a process is always in the document.              *)
(***************************************************************************)
THEOREM OwnersAlwaysExist == Spec => []OwnersExist
  <1>1. Inv => OwnersExist
    BY DEF Inv
  <1>. QED
    BY <1>1, Invariant, PTL

-----------------------------------------------------------------------------
(* The first document replaces no app and no process.                      *)
LEMMA CreateLifecycle ==
  ASSUME NEW s \in InitialStates, Create(s)
  PROVE  AppAdvances /\ ProcessAppears
  <1>1. registry = EmptyState
    BY DEF Create
  <1>2. DOMAIN registry.apps = {} /\ DOMAIN registry.procs = {}
    BY <1>1 DEF EmptyState, NoEntries
  <1>. QED
    BY <1>1, <1>2 DEF AppAdvances, ProcessAppears

(* Apps and processes under one transition.                                *)
LEMMA ChangeLifecycle ==
  ASSUME NEW t \in Requests, Inv, Change(t)
  PROVE  AppAdvances /\ ProcessAppears
  <1> DEFINE s == registry
             n == Patch(registry, t)
  <1>1. /\ t \in Transition /\ Validate(s, t) /\ IsNodeState(s)
        /\ registry' = n
    BY RequestsAssumption DEF Change, Accepts, Inv, TypeOK
  <1>2. \A a \in DOMAIN s.apps : s.apps[a] \in App
    BY <1>1 DEF IsNodeState, IsMap
  <1>3. AppAdvances
    <2>1. CASE n.apps = s.apps
      BY <1>1, <2>1 DEF AppAdvances
    <2>2. CASE \E i \in AppId, a \in App :
                 n.apps = Put(s.apps, i, a) /\ i \notin DOMAIN s.apps
      BY <1>1, <2>2 DEF AppAdvances, Put
    <2>3. CASE \E i \in DOMAIN s.apps :
                 /\ s.apps[i].state = "installing"
                 /\ n.apps = [s.apps EXCEPT ![i].state = "installed"]
      BY <1>1, <1>2, <2>3 DEF AppAdvances
    <2>4. CASE \E i \in DOMAIN s.apps : n.apps = Drop(s.apps, i)
      BY <1>1, <2>4 DEF AppAdvances, Drop, Restrict
    <2>. QED
      BY <1>1, <2>1, <2>2, <2>3, <2>4, PatchApps
  <1>4. ProcessAppears
    <2>1. CASE n.procs = s.procs
      BY <1>1, <2>1 DEF ProcessAppears
    <2>2. CASE \E i \in ProcId, p \in Process :
               /\ n.procs = Put(s.procs, i, p) /\ i \notin DOMAIN s.procs
               /\ p.app \in DOMAIN s.apps /\ s.apps[p.app].state = "installed"
      BY <1>1, <2>2 DEF ProcessAppears, Put
    <2>3. CASE \E i \in DOMAIN s.procs : n.procs = Drop(s.procs, i)
      BY <1>1, <2>3 DEF ProcessAppears, Drop, Restrict
    <2>. QED
      BY <1>1, <2>1, <2>2, <2>3, PatchProcesses
  <1>. QED
    BY <1>3, <1>4

(***************************************************************************)
(* Apps only advance from installing to installed, process records never   *)
(* change, and appear under installed apps only.                           *)
(***************************************************************************)
THEOREM LifecycleHolds == Spec => Lifecycle
  <1>1. Inv /\ [Next]_registry => [AppAdvances /\ ProcessAppears]_registry
    BY CreateLifecycle, ChangeLifecycle DEF Next
  <1>. QED
    BY <1>1, Invariant, PTL DEF Spec, Lifecycle

(* A node comes up with the version the empty document has.                *)
LEMMA CreateKeepsVersion ==
  ASSUME NEW s \in InitialStates, Create(s)
  PROVE  registry'.version = registry.version
  <1>1. registry = EmptyState /\ registry' = s
    BY InitializeEffect DEF Create
  <1>2. s.version = LatestVersion
    BY InitialStatesAssumption DEF WellConfigured
  <1>. QED
    BY <1>1, <1>2 DEF EmptyState

(* Only a migration changes the version.                                   *)
LEMMA ChangeKeepsRecords ==
  ASSUME NEW t \in Requests, Inv, Change(t), registry'.version # registry.version
  PROVE  /\ DOMAIN registry'.users = DOMAIN registry.users
         /\ registry'.apps = registry.apps
         /\ registry'.procs = registry.procs
  <1>1. /\ t \in Transition /\ Validate(registry, t) /\ IsNodeState(registry)
        /\ registry' = Patch(registry, t)
    BY RequestsAssumption DEF Change, Accepts, Inv, TypeOK
  <1>2. \E v \in 0..(LatestVersion + 1) : t = Migration(v)
    BY <1>1, TransitionCases, AddUserEffect, StartInstallationEffect,
       FinishInstallationEffect, UninstallEffect, ProcessStartEffect,
       ProcessStopEffect, AddProxyRuleEffect DEF NodeState
  <1>. QED
    BY <1>1, <1>2, MigrationEffect, MigratedParts DEF MigrationValid, Migration

(***************************************************************************)
(* A migration never loses a user, an app or a process.                    *)
(***************************************************************************)
THEOREM MigrationHolds == Spec => MigrationKeepsRecords
  <1> DEFINE Kept == registry'.version # registry.version =>
                       /\ DOMAIN registry'.users = DOMAIN registry.users
                       /\ registry'.apps = registry.apps
                       /\ registry'.procs = registry.procs
  <1>1. Inv /\ [Next]_registry => [Kept]_registry
    BY CreateKeepsVersion, ChangeKeepsRecords DEF Next
  <1>. QED
    BY <1>1, Invariant, PTL DEF Spec, MigrationKeepsRecords
-----------------------------------------------------------------------------
(***************************************************************************)
(* The list of migrations.  GetNeededMigrations and GetMigrationPatch are  *)
(* loops over at most nine migrations; each has a closed form that every   *)
(* turn keeps, and nine turns determine it.                                *)
(***************************************************************************)
(* Where the range of GetNeededMigrations lies: above lo, up to hi.  There *)
(* is no migration that ends a range down to version 0.                    *)
InRange(c, t, lo, hi) ==
  \/ c < t /\ lo = c /\ hi = t
  \/ 0 < t /\ t < c /\ lo = t /\ hi = c
  \/ t = 0 /\ t < c /\ lo = c /\ hi = MigrationCount + 1

(* The loop after n migrations, in closed form.                            *)
Reached(n, lo, hi) == IF n <= lo THEN 0 ELSE IF n < hi THEN n - lo ELSE hi - lo
LoopAt(n, lo, hi) ==
  [taken       |-> [j \in 1..Reached(n, lo, hi) |-> lo + j],
   inMigration |-> 0 < n /\ lo <= n /\ n < hi,
   over        |-> hi <= n]

(* One more migration in the sequence of those after lo.                   *)
LEMMA TakesNext ==
  ASSUME NEW k \in Nat, NEW lo \in Nat
  PROVE  Append([j \in 1..k |-> lo + j], lo + k + 1) = [j \in 1..(k + 1) |-> lo + j]
  <1> DEFINE a == [j \in 1..k |-> lo + j]
             b == [j \in 1..(k + 1) |-> lo + j]
  <1>1. a \in Seq(Nat) /\ Len(a) = k /\ b \in Seq(Nat) /\ Len(b) = k + 1
    OBVIOUS
  <1>2. \A i \in 1..(k + 1) : Append(a, lo + k + 1)[i] = b[i]
    BY <1>1
  <1>3. Append(a, lo + k + 1) \in Seq(Nat) /\ Len(Append(a, lo + k + 1)) = k + 1
    BY <1>1
  <1> QED
    BY <1>1, <1>2, <1>3

(* The loop before the range, in it and from its end on.                   *)
LEMMA LoopBefore ==
  ASSUME NEW n \in Nat, NEW lo \in Nat, NEW hi \in Nat, lo < hi, n < lo \/ n = 0
  PROVE  LoopAt(n, lo, hi) = Outside
  <1>1. (0 < n /\ lo <= n /\ n < hi) = FALSE /\ (hi <= n) = FALSE
    OBVIOUS
  <1>2. [j \in 1..Reached(n, lo, hi) |-> lo + j] = <<>>
    BY DEF Reached
  <1> QED
    BY <1>1, <1>2, Zenon DEF LoopAt, Outside

LEMMA LoopWithin ==
  ASSUME NEW n \in Nat, NEW lo \in Nat, NEW hi \in Nat, 0 < n, lo <= n, n < hi
  PROVE  LoopAt(n, lo, hi) = [taken |-> [j \in 1..(n - lo) |-> lo + j],
                              inMigration |-> TRUE, over |-> FALSE]
  <1>1. (0 < n /\ lo <= n /\ n < hi) = TRUE /\ (hi <= n) = FALSE
    OBVIOUS
  <1>2. [j \in 1..Reached(n, lo, hi) |-> lo + j] = [j \in 1..(n - lo) |-> lo + j]
    BY DEF Reached
  <1> QED
    BY <1>1, <1>2, Zenon DEF LoopAt

LEMMA LoopAfter ==
  ASSUME NEW n \in Nat, NEW lo \in Nat, NEW hi \in Nat, lo < hi, hi <= n
  PROVE  LoopAt(n, lo, hi) = [taken |-> [j \in 1..(hi - lo) |-> lo + j],
                              inMigration |-> FALSE, over |-> TRUE]
  <1>1. (0 < n /\ lo <= n /\ n < hi) = FALSE /\ (hi <= n) = TRUE
    OBVIOUS
  <1>2. [j \in 1..Reached(n, lo, hi) |-> lo + j] = [j \in 1..(hi - lo) |-> lo + j]
    BY DEF Reached
  <1> QED
    BY <1>1, <1>2, Zenon DEF LoopAt

(* A turn of the loop takes the closed form to its next value, whichever of*)
(* the two versions comes first.                                           *)
LEMMA LoopStep ==
  ASSUME NEW c \in 0..MigrationCount, NEW t \in Versions, NEW lo \in Nat, NEW hi \in Nat,
         InRange(c, t, lo, hi), NEW n \in 1..MigrationCount
  PROVE  Looked(LoopAt(n - 1, lo, hi), n, c, t) = LoopAt(n, lo, hi)
  <1>0. /\ lo < hi /\ n \in Nat /\ c \in Nat /\ t \in Nat
        /\ n < 10 /\ hi <= 10 /\ n >= 1 /\ n - 1 \in Nat
    BY DEF InRange, Versions, MigrationCount
  <1>1. CASE hi < n
    <2>1. hi <= n /\ hi <= n - 1
      BY <1>0, <1>1
    <2>2. LoopAt(n, lo, hi) = LoopAt(n - 1, lo, hi)
      <3>1. LoopAt(n, lo, hi) = [taken |-> [j \in 1..(hi - lo) |-> lo + j],
                                 inMigration |-> FALSE, over |-> TRUE]
        BY <1>0, <2>1, LoopAfter
      <3>2. LoopAt(n - 1, lo, hi) = [taken |-> [j \in 1..(hi - lo) |-> lo + j],
                                     inMigration |-> FALSE, over |-> TRUE]
        BY <1>0, <2>1, LoopAfter
      <3> QED
        BY <3>1, <3>2, Zenon
    <2>3. LoopAt(n - 1, lo, hi).over
      BY <1>0, <2>1, LoopAfter
    <2> QED
      BY <2>2, <2>3, Zenon DEF Looked
  <1>2. CASE n <= lo
    <2>1. ~EntersByDown(n, c) /\ EntersByUp(n, c, t) = (n = lo)
      BY <1>0, <1>2 DEF EntersByDown, EntersByUp, InRange, MigrationCount
    <2>2. n - 1 < lo
      BY <1>0, <1>2
    <2>3. LoopAt(n - 1, lo, hi) = Outside
      BY <1>0, <2>2, LoopBefore
    <2>4. Looked(Outside, n, c, t) = [taken |-> <<>>, inMigration |-> n = lo, over |-> FALSE]
      BY <2>1 DEF Looked, Outside
    <2>5. CASE n < lo
      <3>1. (n = lo) = FALSE
        BY <1>0, <2>5
      <3>2. LoopAt(n, lo, hi) = Outside
        BY <1>0, <2>5, LoopBefore
      <3> QED
        BY <2>3, <2>4, <3>1, <3>2, Zenon DEF Outside
    <2>6. CASE n = lo
      <3>1. (n = lo) = TRUE
        BY <2>6
      <3>2. [j \in 1..(n - lo) |-> lo + j] = <<>>
        BY <1>0, <2>6
      <3>3. LoopAt(n, lo, hi) = [taken |-> <<>>, inMigration |-> TRUE, over |-> FALSE]
        BY <1>0, <2>6, <3>2, LoopWithin
      <3> QED
        BY <2>3, <2>4, <3>1, <3>3, Zenon
    <2> QED
      BY <1>0, <1>2, <2>5, <2>6
  <1>4. CASE lo < n /\ n <= hi
    <2>0. (n - 1 = 0 /\ lo = 0) \/ (0 < n - 1 /\ lo <= n - 1 /\ n - 1 < hi)
      BY <1>0, <1>4
    <2>1. n - 1 = 0 /\ lo = 0 => EntersByDown(n, c)
      BY <1>0, <1>4 DEF EntersByDown, InRange, MigrationCount
    <2>2. n \in {c, t} <=> n = hi
      BY <1>0, <1>4 DEF InRange, MigrationCount
    <2>3. PICK k \in Nat : n = lo + k + 1
      <3>1. n - lo - 1 \in Nat /\ n = lo + (n - lo - 1) + 1
        BY <1>0, <1>4
      <3> QED
        BY <3>1
    <2>4. Reached(n - 1, lo, hi) = k /\ Reached(n, lo, hi) = k + 1
      BY <1>0, <1>4, <2>3 DEF Reached
    <2>5. Append(LoopAt(n - 1, lo, hi).taken, n) = LoopAt(n, lo, hi).taken
      BY <2>3, <2>4, TakesNext DEF LoopAt
    <2>6. /\ LoopAt(n - 1, lo, hi).over = FALSE
          /\ LoopAt(n - 1, lo, hi).inMigration \/ EntersByDown(n, c)
      <3>1. CASE n - 1 = 0 /\ lo = 0
        <4>1. LoopAt(n - 1, lo, hi) = Outside
          BY <1>0, <3>1, LoopBefore
        <4> QED
          BY <2>1, <3>1, <4>1 DEF Outside
      <3>2. CASE 0 < n - 1 /\ lo <= n - 1 /\ n - 1 < hi
        BY <1>0, <3>2, LoopWithin
      <3> QED
        BY <2>0, <3>1, <3>2
    <2>8. Looked(LoopAt(n - 1, lo, hi), n, c, t) = Taken(LoopAt(n - 1, lo, hi), n, c, t)
      BY <2>6, Zenon DEF Looked
    <2>9. CASE n = hi
      <3>1. (n \in {c, t}) = TRUE /\ (~(n \in {c, t})) = FALSE
        BY <2>2, <2>9
      <3>2. LoopAt(n, lo, hi) = [taken |-> LoopAt(n, lo, hi).taken,
                                 inMigration |-> FALSE, over |-> TRUE]
        BY <1>0, <2>9, LoopAfter
      <3>3. Taken(LoopAt(n - 1, lo, hi), n, c, t) =
              [taken |-> Append(LoopAt(n - 1, lo, hi).taken, n),
               inMigration |-> FALSE, over |-> TRUE]
        BY <3>1, Zenon DEF Taken
      <3> QED
        BY <2>5, <2>8, <3>2, <3>3, Zenon
    <2>10. CASE n # hi
      <3>0. 0 < n /\ lo <= n /\ n < hi
        BY <1>0, <1>4, <2>10
      <3>1. (n \in {c, t}) = FALSE /\ (~(n \in {c, t})) = TRUE
        BY <2>2, <2>10
      <3>2. LoopAt(n, lo, hi) = [taken |-> LoopAt(n, lo, hi).taken,
                                 inMigration |-> TRUE, over |-> FALSE]
        BY <1>0, <3>0, LoopWithin
      <3>3. Taken(LoopAt(n - 1, lo, hi), n, c, t) =
              [taken |-> Append(LoopAt(n - 1, lo, hi).taken, n),
               inMigration |-> TRUE, over |-> FALSE]
        BY <3>1, Zenon DEF Taken
      <3> QED
        BY <2>5, <2>8, <3>2, <3>3, Zenon
    <2> QED
      BY <2>9, <2>10
  <1> QED
    BY <1>0, <1>1, <1>2, <1>4

(* So the closed form is the loop: there is one function with its turns, as*)
(* nine of them show one after the other.                                  *)
LEMMA SearchEnds ==
  ASSUME NEW c \in 0..MigrationCount, NEW t \in Versions, NEW lo \in Nat, NEW hi \in Nat,
         InRange(c, t, lo, hi)
  PROVE  Search(c, t)[MigrationCount] = LoopAt(MigrationCount, lo, hi)
  <1> DEFINE F(f) == [n \in 0..MigrationCount |->
                        IF n = 0 THEN Outside ELSE Looked(f[n - 1], n, c, t)]
             g == [n \in 0..MigrationCount |-> LoopAt(n, lo, hi)]
             f == Search(c, t)
  <1>1. f = CHOOSE h : h = F(h)
    BY DEF Search
  <1>2. g = F(g)
    <2>1. LoopAt(0, lo, hi) = Outside
      <3>1. lo < hi
        BY DEF InRange, Versions, MigrationCount
      <3> QED
        BY <3>1, LoopBefore
    <2>2. ASSUME NEW n \in 0..MigrationCount
          PROVE  g[n] = F(g)[n]
      <3>1. CASE n = 0
        BY <2>1, <3>1
      <3>2. CASE n # 0
        <4>1. n \in 1..MigrationCount /\ n - 1 \in 0..MigrationCount
          BY <3>2 DEF MigrationCount
        <4> QED
          BY <4>1, <3>2, LoopStep
      <3> QED
        BY <3>1, <3>2
    <2> QED
      BY <2>2
  <1>3. f = F(f)
    <2> HIDE DEF F, g, f
    <2> QED
      BY <1>1, <1>2
  <1>4. /\ f[0] = Outside
        /\ \A n \in 1..MigrationCount : f[n] = Looked(f[n - 1], n, c, t)
    <2> HIDE DEF f
    <2> QED
      BY <1>3 DEF MigrationCount
  <1>5. /\ g[0] = Outside
        /\ \A n \in 1..MigrationCount : g[n] = Looked(g[n - 1], n, c, t)
    <2> HIDE DEF g
    <2> QED
      BY <1>2 DEF MigrationCount
  <1>6. f[9] = g[9]
    <2> HIDE DEF f, g, F
    <2>1. f[1] = g[1]
      BY <1>4, <1>5 DEF MigrationCount
    <2>2. f[2] = g[2]
      BY <1>4, <1>5, <2>1 DEF MigrationCount
    <2>3. f[3] = g[3]
      BY <1>4, <1>5, <2>2 DEF MigrationCount
    <2>4. f[4] = g[4]
      BY <1>4, <1>5, <2>3 DEF MigrationCount
    <2>5. f[5] = g[5]
      BY <1>4, <1>5, <2>4 DEF MigrationCount
    <2>6. f[6] = g[6]
      BY <1>4, <1>5, <2>5 DEF MigrationCount
    <2>7. f[7] = g[7]
      BY <1>4, <1>5, <2>6 DEF MigrationCount
    <2>8. f[8] = g[8]
      BY <1>4, <1>5, <2>7 DEF MigrationCount
    <2> QED
      BY <1>4, <1>5, <2>8 DEF MigrationCount
  <1> QED
    BY <1>6 DEF MigrationCount

(* What is needed: the migrations between the two versions, in order.      *)
LEMMA NeededUp ==
  ASSUME NEW c \in 0..MigrationCount, NEW t \in 1..MigrationCount, c < t
  PROVE  NeededMigrations(c, t) = [j \in 1..(t - c) |-> c + j]
  <1>1. InRange(c, t, c, t) /\ t \in Versions /\ c \in Nat /\ t \in Nat
    BY DEF InRange, Versions, MigrationCount
  <1>2. Search(c, t)[MigrationCount] = LoopAt(MigrationCount, c, t)
    BY <1>1, SearchEnds
  <1>3. /\ LoopAt(MigrationCount, c, t).inMigration = FALSE
        /\ LoopAt(MigrationCount, c, t).taken = [j \in 1..(t - c) |-> c + j]
    <2>1. MigrationCount \in Nat /\ c < t /\ t <= MigrationCount
      BY <1>1 DEF MigrationCount
    <2>2. LoopAt(MigrationCount, c, t) =
            [taken |-> [j \in 1..(t - c) |-> c + j], inMigration |-> FALSE, over |-> TRUE]
      BY <1>1, <2>1, LoopAfter
    <2>3. LoopAt(MigrationCount, c, t).inMigration = FALSE
      BY <2>2
    <2>4. LoopAt(MigrationCount, c, t).taken = [j \in 1..(t - c) |-> c + j]
      BY <2>2
    <2> QED
      BY <2>3, <2>4
  <1>4. c # t /\ ~(c > t)
    BY <1>1
  <1> QED
    BY <1>2, <1>3, <1>4 DEF NeededMigrations

LEMMA NeededDown ==
  ASSUME NEW c \in 1..MigrationCount, NEW t \in 1..MigrationCount, t < c
  PROVE  NeededMigrations(c, t) = [j \in 1..(c - t) |-> c - j + 1]
  <1>1. InRange(c, t, t, c) /\ t \in Versions /\ c \in Nat /\ t \in Nat /\ c \in 0..MigrationCount
    BY DEF InRange, Versions, MigrationCount
  <1>2. Search(c, t)[MigrationCount] = LoopAt(MigrationCount, t, c)
    BY <1>1, SearchEnds
  <1> DEFINE up == [j \in 1..(c - t) |-> t + j]
  <1>3. /\ LoopAt(MigrationCount, t, c).inMigration = FALSE
        /\ LoopAt(MigrationCount, t, c).taken = up
    <2>1. MigrationCount \in Nat /\ t < c /\ c <= MigrationCount
      BY <1>1 DEF MigrationCount
    <2>2. LoopAt(MigrationCount, t, c) = [taken |-> up, inMigration |-> FALSE, over |-> TRUE]
      BY <1>1, <2>1, LoopAfter
    <2>3. LoopAt(MigrationCount, t, c).inMigration = FALSE
      BY <2>2
    <2>4. LoopAt(MigrationCount, t, c).taken = up
      BY <2>2
    <2> QED
      BY <2>3, <2>4
  <1>4. c # t /\ c > t
    BY <1>1
  <1>5. NeededMigrations(c, t) = SE!Reverse(up)
    BY <1>2, <1>3, <1>4 DEF NeededMigrations
  <1>6. Len(up) = c - t
    BY <1>1
  <1>7. SE!Reverse(up) = [i \in 1..(c - t) |-> up[(c - t) - i + 1]]
    BY <1>6 DEF SE!Reverse
  <1>8. \A i \in 1..(c - t) : up[(c - t) - i + 1] = c - i + 1
    BY <1>1
  <1> QED
    BY <1>5, <1>7, <1>8

(* There is no range from a version to itself, nor to one that no migration*)
(* leads to or none leads away from.                                       *)
LEMMA NoneOutside ==
  ASSUME NEW c \in 1..MigrationCount, NEW t \in Versions, t = c \/ t \notin 1..MigrationCount
  PROVE  NeededMigrations(c, t) = NoRange
  <1>1. CASE t = c
    BY <1>1 DEF NeededMigrations
  <1>2. CASE t # c
    <2>1. InRange(c, t, c, MigrationCount + 1)
      BY <1>2 DEF InRange, Versions, MigrationCount
    <2>2. Search(c, t)[MigrationCount] = LoopAt(MigrationCount, c, MigrationCount + 1)
      BY <2>1, SearchEnds DEF MigrationCount
    <2>3. LoopAt(MigrationCount, c, MigrationCount + 1).inMigration
      <3>1. /\ MigrationCount \in Nat /\ c \in Nat /\ 0 < MigrationCount
            /\ c <= MigrationCount /\ MigrationCount < MigrationCount + 1
        BY DEF MigrationCount
      <3> QED
        BY <3>1, LoopWithin
    <2> QED
      BY <2>2, <2>3 DEF NeededMigrations
  <1> QED
    BY <1>1, <1>2
(* A function that does what GetMigrationPatch's loop does.                *)
Step(s, t, m, x) == IF s.doc.version < t THEN Up(m, x) ELSE Down(m, x)
Chains(g, s, t, ms, k) ==
  g = [n \in 0..k |-> IF n = 0 THEN s ELSE Step(s, t, ms[n], g[n - 1])]

(* There are never more than nine migrations to apply, so that it is the   *)
(* loop.                                                                   *)
LEMMA ChainsAgree ==
  ASSUME NEW s, NEW t, NEW ms, NEW k \in 0..9, NEW f, NEW g,
         Chains(f, s, t, ms, k), Chains(g, s, t, ms, k)
  PROVE  f[k] = g[k]
  <1>1. /\ f[0] = s
        /\ \A n \in 1..k : f[n] = Step(s, t, ms[n], f[n - 1])
    BY DEF Chains
  <1>2. /\ g[0] = s
        /\ \A n \in 1..k : g[n] = Step(s, t, ms[n], g[n - 1])
    BY DEF Chains
  <1>10. f[0] = g[0]
    BY <1>1, <1>2
  <1>11. 1 <= k => f[1] = g[1]
    BY <1>1, <1>2, <1>10
  <1>12. 2 <= k => f[2] = g[2]
    BY <1>1, <1>2, <1>11
  <1>13. 3 <= k => f[3] = g[3]
    BY <1>1, <1>2, <1>12
  <1>14. 4 <= k => f[4] = g[4]
    BY <1>1, <1>2, <1>13
  <1>15. 5 <= k => f[5] = g[5]
    BY <1>1, <1>2, <1>14
  <1>16. 6 <= k => f[6] = g[6]
    BY <1>1, <1>2, <1>15
  <1>17. 7 <= k => f[7] = g[7]
    BY <1>1, <1>2, <1>16
  <1>18. 8 <= k => f[8] = g[8]
    BY <1>1, <1>2, <1>17
  <1>19. 9 <= k => f[9] = g[9]
    BY <1>1, <1>2, <1>18
  <1> QED
    BY <1>10, <1>11, <1>12, <1>13, <1>14, <1>15, <1>16, <1>17, <1>18, <1>19

LEMMA AppliedIs ==
  ASSUME NEW s, NEW t, NEW ms, NEW k \in 0..9, Len(ms) = k, NEW g, Chains(g, s, t, ms, k)
  PROVE  Applied(s, t, ms)[k] = g[k]
  <1>1. Applied(s, t, ms) = CHOOSE f : Chains(f, s, t, ms, k)
    BY DEF Applied, Chains, Step
  <1>2. Chains(Applied(s, t, ms), s, t, ms, k)
    BY <1>1
  <1> QED
    BY <1>2, ChainsAgree

(* Assignments to the fields of the extended document.                     *)
LEMMA WithTest ==
  ASSUME NEW d, NEW test, NEW config, NEW b
  PROVE  [Extended(d, test, config) EXCEPT !.test = b] = Extended(d, b, config)
  BY DEF Extended

LEMMA WithConfig ==
  ASSUME NEW d, NEW test, NEW config, NEW c
  PROVE  [Extended(d, test, config) EXCEPT !.config = c] = Extended(d, test, c)
  BY DEF Extended

LEMMA WithRules ==
  ASSUME NEW d, NEW test, NEW config, NEW r
  PROVE  [Extended(d, test, config) EXCEPT !.doc.rules = r] =
           Extended([d EXCEPT !.rules = r], test, config)
  BY DEF Extended

LEMMA WithUsers ==
  ASSUME NEW d, NEW test, NEW config
  PROVE  [Extended(d, test, config) EXCEPT !.doc.users = WithoutDids(@)] =
           Extended([d EXCEPT !.users = WithoutDids(@)], test, config)
  BY DEF Extended

(* The migrations that do something, and the others.                       *)
LEMMA Up2 ==
  ASSUME NEW d, NEW test, NEW config
  PROVE  Up(2, Extended(d, test, config)) = Extended(d, TRUE, config)
  <1>1. [Extended(d, test, config) EXCEPT !.test = TRUE] = Extended(d, TRUE, config)
    BY WithTest, Zenon
  <1>2. ASSUME NEW s
        PROVE  Up(2, s) = [s EXCEPT !.test = TRUE]
    BY DEF Up
  <1>3. Up(2, Extended(d, test, config)) = [Extended(d, test, config) EXCEPT !.test = TRUE]
    BY <1>2, Zenon
  <1> QED
    BY <1>1, <1>3, Zenon

LEMMA Up3 ==
  ASSUME NEW d, NEW test, NEW config
  PROVE  Up(3, Extended(d, test, config)) = Extended(d, FALSE, config)
  <1>1. [Extended(d, test, config) EXCEPT !.test = FALSE] = Extended(d, FALSE, config)
    BY WithTest, Zenon
  <1>2. ASSUME NEW s
        PROVE  Up(3, s) = [s EXCEPT !.test = FALSE]
    BY DEF Up
  <1>3. Up(3, Extended(d, test, config)) = [Extended(d, test, config) EXCEPT !.test = FALSE]
    BY <1>2, Zenon
  <1> QED
    BY <1>1, <1>3, Zenon

LEMMA Up4 ==
  ASSUME NEW d, NEW test, NEW config
  PROVE  Up(4, Extended(d, test, config)) =
           Extended([d EXCEPT !.rules = NoEntries], test, "empty")
  <1> DEFINE s == Extended(d, test, config)
  <1>1. [s EXCEPT !.config = "empty"] = Extended(d, test, "empty")
    BY WithConfig
  <1>2. [Extended(d, test, "empty") EXCEPT !.doc.rules = NoEntries] =
          Extended([d EXCEPT !.rules = NoEntries], test, "empty")
    BY WithRules
  <1> HIDE DEF s
  <1>3. Up(4, s) = [[s EXCEPT !.config = "empty"] EXCEPT !.doc.rules = NoEntries]
    BY DEF Up
  <1> QED
    BY <1>1, <1>2, <1>3 DEF s

LEMMA UpRest ==
  ASSUME NEW s, NEW m \in 5..MigrationCount
  PROVE  Up(m, s) = s
  <1>5. Up(5, s) = s
    BY DEF Up
  <1>6. Up(6, s) = s
    BY DEF Up
  <1>7. Up(7, s) = s
    BY DEF Up
  <1>8. Up(8, s) = s
    BY DEF Up
  <1>9. Up(9, s) = s
    BY DEF Up
  <1>10. m = 5 \/ m = 6 \/ m = 7 \/ m = 8 \/ m = 9
    BY DEF MigrationCount
  <1> QED
    BY <1>5, <1>6, <1>7, <1>8, <1>9, <1>10

LEMMA Down2 ==
  ASSUME NEW d, NEW test, NEW config
  PROVE  Down(2, Extended(d, test, config)) = Extended(d, FALSE, config)
  <1>1. [Extended(d, test, config) EXCEPT !.test = FALSE] = Extended(d, FALSE, config)
    BY WithTest, Zenon
  <1>2. ASSUME NEW s
        PROVE  Down(2, s) = [s EXCEPT !.test = FALSE]
    BY DEF Down
  <1>3. Down(2, Extended(d, test, config)) = [Extended(d, test, config) EXCEPT !.test = FALSE]
    BY <1>2, Zenon
  <1> QED
    BY <1>1, <1>3, Zenon

LEMMA Down3 ==
  ASSUME NEW d, NEW test, NEW config
  PROVE  Down(3, Extended(d, test, config)) = Extended(d, TRUE, config)
  <1>1. [Extended(d, test, config) EXCEPT !.test = TRUE] = Extended(d, TRUE, config)
    BY WithTest, Zenon
  <1>2. ASSUME NEW s
        PROVE  Down(3, s) = [s EXCEPT !.test = TRUE]
    BY DEF Down
  <1>3. Down(3, Extended(d, test, config)) = [Extended(d, test, config) EXCEPT !.test = TRUE]
    BY <1>2, Zenon
  <1> QED
    BY <1>1, <1>3, Zenon

LEMMA Down4 ==
  ASSUME NEW d, NEW test, NEW config
  PROVE  Down(4, Extended(d, test, config)) =
           Extended([d EXCEPT !.rules = NoEntries], test, "nil")
  <1> DEFINE s == Extended(d, test, config)
  <1>1. [s EXCEPT !.config = "nil"] = Extended(d, test, "nil")
    BY WithConfig
  <1>2. [Extended(d, test, "nil") EXCEPT !.doc.rules = NoEntries] =
          Extended([d EXCEPT !.rules = NoEntries], test, "nil")
    BY WithRules
  <1> HIDE DEF s
  <1>3. Down(4, s) = [[s EXCEPT !.config = "nil"] EXCEPT !.doc.rules = NoEntries]
    BY DEF Down
  <1> QED
    BY <1>1, <1>2, <1>3 DEF s

LEMMA Down5 ==
  ASSUME NEW d, NEW test, NEW config
  PROVE  Down(5, Extended(d, test, config)) =
           Extended([d EXCEPT !.users = WithoutDids(@)], test, config)
  <1> DEFINE s == Extended(d, test, config)
  <1>1. [s EXCEPT !.doc.users = WithoutDids(@)] =
          Extended([d EXCEPT !.users = WithoutDids(@)], test, config)
    BY WithUsers
  <1> HIDE DEF s
  <1>2. Down(5, s) = [s EXCEPT !.doc.users = WithoutDids(@)]
    BY DEF Down
  <1> QED
    BY <1>1, <1>2 DEF s

LEMMA DownRest ==
  ASSUME NEW s, NEW m \in 6..MigrationCount
  PROVE  Down(m, s) = s
  <1>6. Down(6, s) = s
    BY DEF Down
  <1>7. Down(7, s) = s
    BY DEF Down
  <1>8. Down(8, s) = s
    BY DEF Down
  <1>9. Down(9, s) = s
    BY DEF Down
  <1>10. m = 6 \/ m = 7 \/ m = 8 \/ m = 9
    BY DEF MigrationCount
  <1> QED
    BY <1>6, <1>7, <1>8, <1>9, <1>10

(* The extended document on its way from the version it has to another.    *)
DocAt(doc, w)    == [MigratedData(doc, w) EXCEPT !.version = doc.version]
ConfigAt(doc, w) == IF w < 4 THEN "nil" ELSE IF doc.version < 4 THEN "empty" ELSE "own"
StoredAt(doc, w) == Extended(DocAt(doc, w), w = 2, ConfigAt(doc, w))

(* What MigratedData changes, written out.                                 *)
LEMMA DocAtIs ==
  ASSUME NEW doc, IsNodeState(doc), NEW w \in 1..MigrationCount
  PROVE  DocAt(doc, w) =
           [version |-> doc.version,
            users   |-> IF w < 5 /\ 5 <= doc.version THEN WithoutDids(doc.users) ELSE doc.users,
            apps    |-> doc.apps,
            procs   |-> doc.procs,
            rules   |-> IF (w < 4 /\ 4 <= doc.version) \/ (doc.version < 4 /\ 4 <= w)
                        THEN NoEntries ELSE doc.rules]
  <1> DEFINE us == IF w < 5 /\ 5 <= doc.version THEN WithoutDids(doc.users) ELSE doc.users
             rs == IF (w < 4 /\ 4 <= doc.version) \/ (doc.version < 4 /\ 4 <= w)
                   THEN NoEntries ELSE doc.rules
  <1>1. MigratedData(doc, w) = [doc EXCEPT !.version = w, !.users = us, !.rules = rs]
    BY Zenon DEF MigratedData, WithoutDids
  <1>2. doc = [version |-> doc.version, users |-> doc.users, apps |-> doc.apps,
               procs |-> doc.procs, rules |-> doc.rules]
    BY DEF IsNodeState
  <1> HIDE DEF us, rs
  <1>3. MigratedData(doc, w) = [version |-> w, users |-> us, apps |-> doc.apps,
                                procs |-> doc.procs, rules |-> rs]
    BY <1>1, <1>2
  <1>4. [MigratedData(doc, w) EXCEPT !.version = doc.version] =
          [version |-> doc.version, users |-> us, apps |-> doc.apps,
           procs |-> doc.procs, rules |-> rs]
    BY <1>3
  <1> QED
    BY <1>4 DEF DocAt, us, rs

(* It begins as it is stored.                                              *)
LEMMA StoredAtVersion ==
  ASSUME NEW doc, IsNodeState(doc)
  PROVE  StoredAt(doc, doc.version) = Stored(doc)
  <1>1. doc.version \in 1..MigrationCount /\ doc.version \in Nat
    BY DEF IsNodeState, LatestVersion, MigrationCount
  <1>2. DocAt(doc, doc.version) = doc
    BY <1>1, DocAtIs DEF IsNodeState
  <1>3. ConfigAt(doc, doc.version) = IF doc.version < 4 THEN "nil" ELSE "own"
    BY <1>1 DEF ConfigAt
  <1> QED
    BY <1>2, <1>3, Zenon DEF StoredAt, Stored

(* Up a migration and down a migration it is what it is at the next version.*)
LEMMA StoredUp ==
  ASSUME NEW doc, IsNodeState(doc), NEW m \in 2..MigrationCount, doc.version < m
  PROVE  Up(m, StoredAt(doc, m - 1)) = StoredAt(doc, m)
  <1>0. /\ doc.version \in 1..8 /\ m \in 2..9 /\ m - 1 \in 1..MigrationCount
        /\ m \in 1..MigrationCount
    BY DEF IsNodeState, LatestVersion, MigrationCount
  <1> DEFINE d == DocAt(doc, m - 1)
             config == ConfigAt(doc, m - 1)
  <1>1. m # 4 => DocAt(doc, m) = d /\ ConfigAt(doc, m) = config
    BY <1>0, DocAtIs DEF ConfigAt
  <1>2. StoredAt(doc, m - 1) = Extended(d, m - 1 = 2, config)
    BY Zenon DEF StoredAt
  <1>3. StoredAt(doc, m) = Extended(DocAt(doc, m), m = 2, ConfigAt(doc, m))
    BY Zenon DEF StoredAt
  <1>4. CASE m = 2
    <2>1. (m = 2) = TRUE
      BY <1>4
    <2>2. Up(m, StoredAt(doc, m - 1)) = Extended(d, TRUE, config)
      <3>1. (m - 1 = 2) = FALSE
        BY <1>4 DEF MigrationCount
      <3>2. StoredAt(doc, m - 1) = Extended(d, FALSE, config)
        BY <1>2, <3>1, Zenon
      <3> HIDE DEF d, config
      <3>3. Up(2, Extended(d, FALSE, config)) = Extended(d, TRUE, config)
        BY Up2, Zenon
      <3> QED
        BY <1>4, <3>2, <3>3
    <2>3. DocAt(doc, m) = d /\ ConfigAt(doc, m) = config
      BY <1>1, <1>4
    <2> QED
      BY <1>3, <2>1, <2>2, <2>3, Zenon
  <1>5. CASE m = 3
    <2>1. (m = 2) = FALSE
      BY <1>5
    <2>2. Up(m, StoredAt(doc, m - 1)) = Extended(d, FALSE, config)
      <3>1. (m - 1 = 2) = TRUE
        BY <1>5 DEF MigrationCount
      <3>2. StoredAt(doc, m - 1) = Extended(d, TRUE, config)
        BY <1>2, <3>1, Zenon
      <3> HIDE DEF d, config
      <3>3. Up(3, Extended(d, TRUE, config)) = Extended(d, FALSE, config)
        BY Up3, Zenon
      <3> QED
        BY <1>5, <3>2, <3>3
    <2>3. DocAt(doc, m) = d /\ ConfigAt(doc, m) = config
      BY <1>1, <1>5
    <2> QED
      BY <1>3, <2>1, <2>2, <2>3, Zenon
  <1>6. CASE m = 4
    <2>1. (m = 2) = FALSE /\ (m - 1 = 2) = FALSE
      BY <1>6
    <2>2. Up(m, StoredAt(doc, m - 1)) = Extended([d EXCEPT !.rules = NoEntries], FALSE, "empty")
      <3>1. (m - 1 = 2) = FALSE
        BY <1>6 DEF MigrationCount
      <3>2. StoredAt(doc, m - 1) = Extended(d, FALSE, config)
        BY <1>2, <3>1, Zenon
      <3> HIDE DEF d, config
      <3>3. Up(4, Extended(d, FALSE, config)) =
              Extended([d EXCEPT !.rules = NoEntries], FALSE, "empty")
        BY Up4, Zenon
      <3> QED
        BY <1>6, <3>2, <3>3
    <2>3. DocAt(doc, m) = [d EXCEPT !.rules = NoEntries] /\ ConfigAt(doc, m) = "empty"
      BY <1>0, <1>6, DocAtIs DEF ConfigAt
    <2> QED
      BY <1>3, <2>1, <2>2, <2>3, Zenon
  <1>7. CASE m \in 5..MigrationCount
    <2>1. (m = 2) = FALSE /\ (m - 1 = 2) = FALSE /\ m # 4
      BY <1>7 DEF MigrationCount
    <2>2. Up(m, StoredAt(doc, m - 1)) = Extended(d, FALSE, config)
      <3>1. (m - 1 = 2) = FALSE
        BY <1>7 DEF MigrationCount
      <3>2. StoredAt(doc, m - 1) = Extended(d, FALSE, config)
        BY <1>2, <3>1, Zenon
      <3> HIDE DEF d, config
      <3>3. Up(m, Extended(d, FALSE, config)) = Extended(d, FALSE, config)
        BY <1>7, UpRest, Zenon
      <3> QED
        BY <1>7, <3>2, <3>3
    <2>3. DocAt(doc, m) = d /\ ConfigAt(doc, m) = config
      BY <1>1, <2>1
    <2> QED
      BY <1>3, <2>1, <2>2, <2>3, Zenon
  <1> QED
    BY <1>0, <1>4, <1>5, <1>6, <1>7 DEF MigrationCount

LEMMA StoredDown ==
  ASSUME NEW doc, IsNodeState(doc), NEW m \in 2..MigrationCount, m <= doc.version
  PROVE  Down(m, StoredAt(doc, m)) = StoredAt(doc, m - 1)
  <1>0. /\ doc.version \in 1..8 /\ m \in 2..9 /\ m - 1 \in 1..MigrationCount
        /\ m \in 1..MigrationCount
    BY DEF IsNodeState, LatestVersion, MigrationCount
  <1> DEFINE d == DocAt(doc, m)
             config == ConfigAt(doc, m)
  <1>1. m # 4 => ConfigAt(doc, m - 1) = config
    BY <1>0 DEF ConfigAt
  <1>a. m \notin {4, 5} => DocAt(doc, m - 1) = d
    BY <1>0, DocAtIs
  <1>2. StoredAt(doc, m - 1) = Extended(DocAt(doc, m - 1), m - 1 = 2, ConfigAt(doc, m - 1))
    BY Zenon DEF StoredAt
  <1>3. StoredAt(doc, m) = Extended(d, m = 2, config)
    BY Zenon DEF StoredAt
  <1>4. CASE m = 2
    <2>1. (m - 1 = 2) = FALSE
      BY <1>4
    <2>2. Down(m, StoredAt(doc, m)) = Extended(d, FALSE, config)
      <3>1. (m = 2) = TRUE
        BY <1>4 DEF MigrationCount
      <3>2. StoredAt(doc, m) = Extended(d, TRUE, config)
        BY <1>3, <3>1, Zenon
      <3> HIDE DEF d, config
      <3>3. Down(2, Extended(d, TRUE, config)) = Extended(d, FALSE, config)
        BY Down2, Zenon
      <3> QED
        BY <1>4, <3>2, <3>3
    <2>3. DocAt(doc, m - 1) = d /\ ConfigAt(doc, m - 1) = config
      BY <1>1, <1>a, <1>4
    <2> QED
      BY <1>2, <2>1, <2>2, <2>3, Zenon
  <1>5. CASE m = 3
    <2>1. (m - 1 = 2) = TRUE
      BY <1>5
    <2>2. Down(m, StoredAt(doc, m)) = Extended(d, TRUE, config)
      <3>1. (m = 2) = FALSE
        BY <1>5 DEF MigrationCount
      <3>2. StoredAt(doc, m) = Extended(d, FALSE, config)
        BY <1>3, <3>1, Zenon
      <3> HIDE DEF d, config
      <3>3. Down(3, Extended(d, FALSE, config)) = Extended(d, TRUE, config)
        BY Down3, Zenon
      <3> QED
        BY <1>5, <3>2, <3>3
    <2>3. DocAt(doc, m - 1) = d /\ ConfigAt(doc, m - 1) = config
      BY <1>1, <1>a, <1>5
    <2> QED
      BY <1>2, <2>1, <2>2, <2>3, Zenon
  <1>6. CASE m = 4
    <2>1. (m = 2) = FALSE /\ (m - 1 = 2) = FALSE
      BY <1>6
    <2>2. Down(m, StoredAt(doc, m)) = Extended([d EXCEPT !.rules = NoEntries], FALSE, "nil")
      <3>1. (m = 2) = FALSE
        BY <1>6 DEF MigrationCount
      <3>2. StoredAt(doc, m) = Extended(d, FALSE, config)
        BY <1>3, <3>1, Zenon
      <3> HIDE DEF d, config
      <3>3. Down(4, Extended(d, FALSE, config)) =
              Extended([d EXCEPT !.rules = NoEntries], FALSE, "nil")
        BY Down4, Zenon
      <3> QED
        BY <1>6, <3>2, <3>3
    <2>3. DocAt(doc, m - 1) = [d EXCEPT !.rules = NoEntries] /\ ConfigAt(doc, m - 1) = "nil"
      BY <1>0, <1>6, DocAtIs DEF ConfigAt
    <2> QED
      BY <1>2, <2>1, <2>2, <2>3, Zenon
  <1>7. CASE m = 5
    <2>1. (m = 2) = FALSE /\ (m - 1 = 2) = FALSE
      BY <1>7
    <2>2. Down(m, StoredAt(doc, m)) = Extended([d EXCEPT !.users = WithoutDids(@)], FALSE, config)
      <3>1. (m = 2) = FALSE
        BY <1>7 DEF MigrationCount
      <3>2. StoredAt(doc, m) = Extended(d, FALSE, config)
        BY <1>3, <3>1, Zenon
      <3> HIDE DEF d, config
      <3>3. Down(5, Extended(d, FALSE, config)) =
              Extended([d EXCEPT !.users = WithoutDids(@)], FALSE, config)
        BY Down5, Zenon
      <3> QED
        BY <1>7, <3>2, <3>3
    <2>3. /\ DocAt(doc, m - 1) = [d EXCEPT !.users = WithoutDids(@)]
          /\ ConfigAt(doc, m - 1) = config
      BY <1>0, <1>1, <1>7, DocAtIs
    <2> QED
      BY <1>2, <2>1, <2>2, <2>3, Zenon
  <1>8. CASE m \in 6..MigrationCount
    <2>1. (m = 2) = FALSE /\ (m - 1 = 2) = FALSE /\ m \notin {4, 5}
      BY <1>8 DEF MigrationCount
    <2>2. Down(m, StoredAt(doc, m)) = Extended(d, FALSE, config)
      <3>1. (m = 2) = FALSE
        BY <1>8 DEF MigrationCount
      <3>2. StoredAt(doc, m) = Extended(d, FALSE, config)
        BY <1>3, <3>1, Zenon
      <3> HIDE DEF d, config
      <3>3. Down(m, Extended(d, FALSE, config)) = Extended(d, FALSE, config)
        BY <1>8, DownRest, Zenon
      <3> QED
        BY <1>8, <3>2, <3>3
    <2>3. DocAt(doc, m - 1) = d /\ ConfigAt(doc, m - 1) = config
      BY <1>1, <1>a, <2>1
    <2> QED
      BY <1>2, <2>1, <2>2, <2>3, Zenon
  <1> QED
    BY <1>0, <1>4, <1>5, <1>6, <1>7, <1>8 DEF MigrationCount

(* The version of a stored document.                                       *)
LEMMA DocVersion ==
  ASSUME NEW doc, IsNodeState(doc)
  PROVE  /\ doc.version \in 1..8 /\ doc.version \in Nat
         /\ Stored(doc).doc.version = doc.version
  BY DEF IsNodeState, LatestVersion, Stored, Extended

(* The version is written last.                                            *)
LEMMA VersionWritten ==
  ASSUME NEW doc, IsNodeState(doc), NEW v \in 1..MigrationCount, NEW test,
         StoredAt(doc, v) = Extended(DocAt(doc, v), test, ConfigAt(doc, v))
  PROVE  [StoredAt(doc, v) EXCEPT !.doc.version = v] =
           Extended(MigratedData(doc, v), test, ConfigAt(doc, v))
  <1>1. [DocAt(doc, v) EXCEPT !.version = v] = MigratedData(doc, v)
    <2>1. MigratedData(doc, v) = [MigratedData(doc, v) EXCEPT !.version = v]
      BY DEF MigratedData, IsNodeState
    <2> QED
      BY <2>1 DEF DocAt
  <1> QED
    BY <1>1 DEF Extended

LEMMA Arrives ==
  ASSUME NEW doc, IsNodeState(doc), NEW v \in 1..MigrationCount,
         NEW s, s = [StoredAt(doc, v) EXCEPT !.doc.version = v]
  PROVE  s.doc = MigratedData(doc, v) /\ s.config = ConfigAt(doc, v)
  <1>1. PICK test : test = (v = 2)
    BY Zenon
  <1>2. StoredAt(doc, v) = Extended(DocAt(doc, v), test, ConfigAt(doc, v))
    BY <1>1, Zenon DEF StoredAt
  <1>3. s = Extended(MigratedData(doc, v), test, ConfigAt(doc, v))
    BY <1>2, VersionWritten
  <1> QED
    BY <1>3 DEF Extended

LEMMA TestArrives ==
  ASSUME NEW doc, IsNodeState(doc), NEW v \in 1..MigrationCount,
         NEW s, s = [StoredAt(doc, v) EXCEPT !.doc.version = v]
  PROVE  s.test = (v = 2)
  <1>1. PICK test : test = (v = 2)
    BY Zenon
  <1>2. StoredAt(doc, v) = Extended(DocAt(doc, v), test, ConfigAt(doc, v))
    BY <1>1, Zenon DEF StoredAt
  <1>3. s = Extended(MigratedData(doc, v), test, ConfigAt(doc, v))
    BY <1>2, VersionWritten
  <1>4. s.test = test
    BY <1>3 DEF Extended
  <1> QED
    BY <1>1, <1>4, Zenon

(* The chain up, and the chain down, end in what is stored at the version. *)
LEMMA ChainUp ==
  ASSUME NEW doc, IsNodeState(doc), NEW v \in 1..MigrationCount, doc.version < v
  PROVE  Chain(Stored(doc), v) = [StoredAt(doc, v) EXCEPT !.doc.version = v]
  <1> DEFINE c == doc.version
             k == v - c
             ms == NeededMigrations(c, v)
             g == [j \in 0..k |-> StoredAt(doc, c + j)]
  <1>1. c \in 1..8 /\ c \in Nat /\ Stored(doc).doc.version = c
    BY DocVersion
  <1>2. /\ c \in 0..MigrationCount /\ k \in 0..9 /\ k \in Nat /\ v \in Nat
        /\ c + k = v /\ v <= MigrationCount
    BY <1>1 DEF MigrationCount
  <1>3. ms = [j \in 1..k |-> c + j] /\ Len(ms) = k
    <2>1. ms = [j \in 1..k |-> c + j]
      BY <1>2, NeededUp
    <2> QED
      BY <1>1, <1>2, <2>1
  <1>4. Chains(g, Stored(doc), v, ms, k)
    <2>1. ASSUME NEW n \in 0..k
          PROVE  g[n] = IF n = 0 THEN Stored(doc) ELSE Step(Stored(doc), v, ms[n], g[n - 1])
      <3>1. CASE n = 0
        <4>1. c + 0 = c
          BY <1>1
        <4> QED
          BY <1>2, <3>1, <4>1, StoredAtVersion
      <3>2. CASE n # 0
        <4>1. PICK m \in 2..MigrationCount :
                /\ n \in 1..k /\ n - 1 \in 0..k /\ c < m
                /\ m = c + n /\ c + (n - 1) = m - 1
          <5>1. c + n \in 2..MigrationCount
            <6>1. n \in Nat /\ 1 <= n /\ n <= k
              BY <1>2, <3>2
            <6> HIDE DEF k, c
            <6> QED
              BY <1>1, <1>2, <6>1 DEF MigrationCount
          <5>2. /\ n \in 1..k /\ n - 1 \in 0..k /\ c < c + n
                /\ c + (n - 1) = (c + n) - 1
            <6>1. n \in Nat /\ 1 <= n /\ n <= k
              BY <1>2, <3>2
            <6> HIDE DEF k, c
            <6> QED
              BY <1>1, <1>2, <6>1
          <5> QED
            BY <5>1, <5>2
        <4>2. ms[n] = m
          BY <1>3, <4>1
        <4>3. Step(Stored(doc), v, ms[n], g[n - 1]) = Up(ms[n], g[n - 1])
          BY <1>1 DEF Step
        <4>4. g[n - 1] = StoredAt(doc, m - 1)
          BY <4>1
        <4>5. Up(m, StoredAt(doc, m - 1)) = StoredAt(doc, m)
          BY <4>1, StoredUp
        <4>6. g[n] = StoredAt(doc, m)
          BY <4>1
        <4> HIDE DEF g, ms, k, c
        <4> QED
          BY <3>2, <4>2, <4>3, <4>4, <4>5, <4>6
      <3> QED
        BY <3>1, <3>2
    <2> QED
      BY <2>1 DEF Chains
  <1>5. Applied(Stored(doc), v, ms)[k] = g[k]
    <2>1. k \in 0..9 /\ Len(ms) = k
      BY <1>2, <1>3
    <2> HIDE DEF g, ms, k
    <2> QED
      BY <2>1, <1>4, AppliedIs
  <1>6. g[k] = StoredAt(doc, v)
    BY <1>2
  <1> HIDE DEF g, k
  <1> QED
    BY <1>1, <1>3, <1>5, <1>6 DEF Chain

LEMMA ChainDown ==
  ASSUME NEW doc, IsNodeState(doc), NEW v \in 1..MigrationCount, v < doc.version
  PROVE  Chain(Stored(doc), v) = [StoredAt(doc, v) EXCEPT !.doc.version = v]
  <1> DEFINE c == doc.version
             k == c - v
             ms == NeededMigrations(c, v)
             g == [j \in 0..k |-> StoredAt(doc, c - j)]
  <1>1. c \in 1..8 /\ c \in Nat /\ Stored(doc).doc.version = c
    BY DocVersion
  <1>2. /\ c \in 1..MigrationCount /\ k \in 0..9 /\ k \in Nat /\ v \in Nat
        /\ c - k = v /\ v >= 1
    BY <1>1 DEF MigrationCount
  <1>3. ms = [j \in 1..k |-> c - j + 1] /\ Len(ms) = k
    <2>1. ms = [j \in 1..k |-> c - j + 1]
      BY <1>2, NeededDown
    <2> QED
      BY <1>1, <1>2, <2>1
  <1>4. Chains(g, Stored(doc), v, ms, k)
    <2>1. ASSUME NEW n \in 0..k
          PROVE  g[n] = IF n = 0 THEN Stored(doc) ELSE Step(Stored(doc), v, ms[n], g[n - 1])
      <3>1. CASE n = 0
        <4>1. c - 0 = c
          BY <1>1
        <4> QED
          BY <1>2, <3>1, <4>1, StoredAtVersion
      <3>2. CASE n # 0
        <4>1. PICK m \in 2..MigrationCount :
                /\ n \in 1..k /\ n - 1 \in 0..k /\ m <= c
                /\ m = c - n + 1 /\ c - (n - 1) = m /\ c - n = m - 1
          <5>1. c - n + 1 \in 2..MigrationCount
            BY <1>1, <1>2, <3>2 DEF MigrationCount
          <5>2. /\ n \in 1..k /\ n - 1 \in 0..k /\ c - n + 1 <= c
                /\ c - (n - 1) = c - n + 1 /\ c - n = (c - n + 1) - 1
            BY <1>1, <1>2, <3>2
          <5> QED
            BY <5>1, <5>2
        <4>2. ms[n] = m
          BY <1>3, <4>1
        <4>3. Step(Stored(doc), v, ms[n], g[n - 1]) = Down(ms[n], g[n - 1])
          <5>1. ~(c < v)
            BY <1>1, <1>2
          <5> QED
            BY <1>1, <5>1 DEF Step
        <4>4. g[n - 1] = StoredAt(doc, m)
          BY <4>1
        <4>5. Down(m, StoredAt(doc, m)) = StoredAt(doc, m - 1)
          BY <4>1, StoredDown
        <4>6. g[n] = StoredAt(doc, m - 1)
          BY <4>1
        <4> HIDE DEF g, ms, k, c
        <4> QED
          BY <3>2, <4>2, <4>3, <4>4, <4>5, <4>6
      <3> QED
        BY <3>1, <3>2
    <2> QED
      BY <2>1 DEF Chains
  <1>5. Applied(Stored(doc), v, ms)[k] = g[k]
    <2>1. k \in 0..9 /\ Len(ms) = k
      BY <1>2, <1>3
    <2> HIDE DEF g, ms, k
    <2> QED
      BY <2>1, <1>4, AppliedIs
  <1>6. g[k] = StoredAt(doc, v)
    BY <1>2
  <1> HIDE DEF g, k
  <1> QED
    BY <1>1, <1>3, <1>5, <1>6 DEF Chain

(* From nothing, the first migration makes an empty document.              *)
First == [EmptyState EXCEPT !.version = 1]

LEMMA FirstIsNodeState == IsNodeState(First) /\ First.version = 1
  BY DEF First, EmptyState, NoEntries, IsNodeState, IsMap, LatestVersion

LEMMA ChainFromNothing ==
  ASSUME NEW v \in 1..MigrationCount
  PROVE  Chain(Nothing, v).doc = [EmptyState EXCEPT !.version = v]
  <1> DEFINE ms == NeededMigrations(0, v)
             g == [j \in 0..v |-> IF j = 0 THEN Nothing ELSE StoredAt(First, j)]
  <1>1. Nothing.doc.version = 0
    BY DEF Nothing, Extended, EmptyState
  <1>2. v \in 0..9 /\ v \in Nat /\ v >= 1 /\ 0 \in 0..MigrationCount
    BY DEF MigrationCount
  <1>3. ms = [j \in 1..v |-> j] /\ Len(ms) = v
    <2>1. ms = [j \in 1..(v - 0) |-> 0 + j]
      BY <1>2, NeededUp
    <2>2. [j \in 1..(v - 0) |-> 0 + j] = [j \in 1..v |-> j]
      BY <1>2
    <2> QED
      BY <1>2, <2>1, <2>2
  <1>4. Up(1, Nothing) = StoredAt(First, 1)
    <2>1. Up(1, Nothing) = Extended(First, FALSE, "nil")
      <3>1. ASSUME NEW s
            PROVE  Up(1, s) = Extended([EmptyState EXCEPT !.version = 1], FALSE, "nil")
        BY DEF Up
      <3> QED
        BY <3>1, Zenon DEF First
    <2>2. Stored(First) = Extended(First, FALSE, "nil")
      <3>1. (First.version = 2) = FALSE /\ First.version < 4
        BY FirstIsNodeState
      <3> QED
        BY <3>1, Zenon DEF Stored
    <2> QED
      BY <2>1, <2>2, FirstIsNodeState, StoredAtVersion
  <1>5. Chains(g, Nothing, v, ms, v)
    <2>1. ASSUME NEW n \in 0..v
          PROVE  g[n] = IF n = 0 THEN Nothing ELSE Step(Nothing, v, ms[n], g[n - 1])
      <3>1. CASE n = 0
        BY <3>1
      <3>2. CASE n # 0
        <4>1. n \in 1..v /\ n - 1 \in 0..v
          BY <1>2, <3>2
        <4>2. Step(Nothing, v, ms[n], g[n - 1]) = Up(n, g[n - 1])
          BY <1>1, <1>2, <1>3, <4>1 DEF Step
        <4>3. Up(n, g[n - 1]) = StoredAt(First, n)
          <5>1. CASE n = 1
            BY <1>2, <1>4, <5>1
          <5>2. CASE n # 1
            <6>1. n \in 2..MigrationCount /\ First.version < n /\ n - 1 # 0
              BY <1>2, <4>1, <5>2, FirstIsNodeState DEF MigrationCount
            <6>2. g[n - 1] = StoredAt(First, n - 1)
              BY <4>1, <6>1
            <6> QED
              BY <6>1, <6>2, StoredUp, FirstIsNodeState
          <5> QED
            BY <5>1, <5>2
        <4>4. g[n] = StoredAt(First, n)
          BY <3>2
        <4> HIDE DEF g, ms
        <4> QED
          BY <3>2, <4>2, <4>3, <4>4
      <3> QED
        BY <3>1, <3>2
    <2> QED
      BY <2>1 DEF Chains
  <1>6. Applied(Nothing, v, ms)[v] = g[v]
    <2>1. v \in 0..9 /\ Len(ms) = v
      BY <1>2, <1>3
    <2> HIDE DEF g, ms
    <2> QED
      BY <2>1, <1>5, AppliedIs
  <1>7. g[v] = StoredAt(First, v)
    BY <1>2
  <1>8. Chain(Nothing, v) = [StoredAt(First, v) EXCEPT !.doc.version = v]
    <2> HIDE DEF g
    <2> QED
      BY <1>1, <1>3, <1>6, <1>7 DEF Chain
  <1>9. MigratedData(First, v) = [EmptyState EXCEPT !.version = v]
    <2>1. First = [version |-> 1, users |-> NoEntries, apps |-> NoEntries,
                   procs |-> NoEntries, rules |-> NoEntries]
      BY DEF First, EmptyState
    <2>2. [EmptyState EXCEPT !.version = v] =
            [version |-> v, users |-> NoEntries, apps |-> NoEntries,
             procs |-> NoEntries, rules |-> NoEntries]
      BY DEF EmptyState
    <2>3. ~(v < 5 /\ 5 <= First.version) /\ ~(v < 4 /\ 4 <= First.version)
      BY FirstIsNodeState
    <2>4. MigratedData(First, v) =
            [First EXCEPT !.version = v,
                          !.rules = IF First.version < 4 /\ 4 <= v THEN NoEntries ELSE @]
      BY <2>3, Zenon DEF MigratedData
    <2> HIDE DEF First
    <2> QED
      BY <2>1, <2>2, <2>4
  <1>10. Chain(Nothing, v).doc = MigratedData(First, v)
    BY <1>8, Arrives, FirstIsNodeState
  <1> QED
    BY <1>9, <1>10

(* Every range of versions is found and none is found beyond them.         *)
LEMMA RangesFound ==
  ASSUME TypeOK
  PROVE  RangesAreFound
  <1> DEFINE c == registry.version
  <1>1. c \in 1..8 /\ c \in Nat /\ c \in 0..MigrationCount /\ c \in 1..MigrationCount
    BY DEF TypeOK, IsNodeState, LatestVersion, MigrationCount
  <1> SUFFICES ASSUME NEW v \in Versions
               PROVE  Len(NeededMigrations(c, v)) =
                        IF v \in 1..MigrationCount THEN (IF v > c THEN v - c ELSE c - v) ELSE 0
    BY DEF RangesAreFound
  <1>2. v \in Nat
    BY DEF Versions, MigrationCount
  <1>3. CASE v \notin 1..MigrationCount \/ v = c
    <2>1. NeededMigrations(c, v) = NoRange
      BY <1>1, <1>3, NoneOutside
    <2>2. c - c = 0 /\ ~(c > c)
      BY <1>1
    <2> QED
      BY <1>3, <2>1, <2>2 DEF NoRange
  <1>4. CASE v \in 1..MigrationCount /\ v > c
    <2>1. NeededMigrations(c, v) = [j \in 1..(v - c) |-> c + j]
      BY <1>1, <1>2, <1>4, NeededUp
    <2>2. v - c \in Nat
      BY <1>1, <1>2, <1>4
    <2> QED
      BY <1>1, <1>4, <2>1, <2>2
  <1>5. CASE v \in 1..MigrationCount /\ v < c
    <2>1. NeededMigrations(c, v) = [j \in 1..(c - v) |-> c - j + 1]
      BY <1>1, <1>2, <1>5, NeededDown
    <2>2. c - v \in Nat /\ ~(v > c)
      BY <1>1, <1>2, <1>5
    <2> QED
      BY <1>1, <1>5, <2>1, <2>2
  <1> QED
    BY <1>1, <1>2, <1>3, <1>4, <1>5

(* It is all a consequence of the type.                                    *)
LEMMA TypedChains ==
  ASSUME TypeOK
  PROVE  ChainIsMigratedData
  <1>1. IsNodeState(registry)
    BY DEF TypeOK
  <1>2. ASSUME NEW v \in 1..MigrationCount \ {registry.version}
        PROVE  LET s == Chain(Stored(registry), v)
               IN /\ s.doc = MigratedData(registry, v)
                  /\ s.test = (v = 2)
                  /\ s.config = IF v < 4 THEN "nil"
                                ELSE IF registry.version < 4 THEN "empty" ELSE "own"
                  /\ Chain(Nothing, v).doc = [EmptyState EXCEPT !.version = v]
    <2>1. Chain(Stored(registry), v) = [StoredAt(registry, v) EXCEPT !.doc.version = v]
      <3>1. v < registry.version \/ registry.version < v
        BY <1>1, DocVersion
      <3> QED
        BY <1>1, <3>1, ChainUp, ChainDown
    <2>2. v \in 1..MigrationCount
      OBVIOUS
    <2>3. /\ Chain(Stored(registry), v).doc = MigratedData(registry, v)
          /\ Chain(Stored(registry), v).config = ConfigAt(registry, v)
      BY <1>1, <2>1, <2>2, Arrives
    <2>5. Chain(Stored(registry), v).test = (v = 2)
      <3>1. PICK s : s = Chain(Stored(registry), v)
        BY Zenon
      <3>2. s = [StoredAt(registry, v) EXCEPT !.doc.version = v]
        BY <2>1, <3>1
      <3>3. s.test = (v = 2)
        BY <1>1, <2>2, <3>2, TestArrives, Zenon
      <3> QED
        BY <3>1, <3>3, Zenon
    <2>4. Chain(Nothing, v).doc = [EmptyState EXCEPT !.version = v]
      BY <2>2, ChainFromNothing
    <2> QED
      BY <2>3, <2>4, <2>5, Zenon DEF ConfigAt
  <1> QED
    BY <1>2, RangesFound, Zenon DEF ChainIsMigratedData

(***************************************************************************)
(* Between any two versions, up or down, the migrations selected are those *)
(* in between, in order, and applied one after the other they do to the    *)
(* registry what MigratedData says (migrations.go:163-242).                *)
(***************************************************************************)
THEOREM ChainsMigrate == Spec => []ChainIsMigratedData
  <1>1. TypeOK => ChainIsMigratedData
    BY TypedChains
  <1>. QED
    BY <1>1, TypeCorrect, PTL
=============================================================================
