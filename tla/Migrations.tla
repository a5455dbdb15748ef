----------------------------- MODULE Migrations -----------------------------
(***************************************************************************)
(* How a migration is computed (internal/node/state/migrations.go): the    *)
(* loop that selects the data migrations between two versions and the one  *)
(* that applies them, one after the other, up or down.  NodeTransitions    *)
(* has the whole as one operator, MigratedData, which the registry, the    *)
(* database and all proofs use; here it is derived, and compared with that *)
(* operator on every document the registry can become.                     *)
(***************************************************************************)
EXTENDS NodeRegistry, Sequences

SE == INSTANCE SequencesExt

\* NodeDataMigrations: number m leads from version m - 1 to m.  There is one
\* more than there are schemas.
MigrationCount == 9
Versions == 0..(MigrationCount + 1)   \* the versions one may ask for

-----------------------------------------------------------------------------
\* The loop of GetNeededMigrations, the same for both directions: what it has
\* taken so far, whether it is inside the range and whether it has broken off.
Outside == [taken |-> <<>>, inMigration |-> FALSE, over |-> FALSE]

\* The selection begins with the migration whose down version is the current
\* one, or after the migration that leads to either version.
EntersByDown(i, current) == i - 1 = current
EntersByUp(i, current, target) == i \in {current, target}

Taken(loop, i, current, target) ==
  LET last == i \in {current, target}
  IN [taken |-> Append(loop.taken, i), inMigration |-> ~last, over |-> last]

Looked(loop, i, current, target) ==
  IF loop.over THEN loop
  ELSE IF loop.inMigration \/ EntersByDown(i, current) THEN Taken(loop, i, current, target)
  ELSE [loop EXCEPT !.inMigration = EntersByUp(i, current, target)]

NoRange == <<>>   \* the error

\* The loop after each number of migrations.
Search(current, target) ==
  LET loop[n \in 0..MigrationCount] ==
        IF n = 0 THEN Outside ELSE Looked(loop[n - 1], n, current, target)
  IN loop

\* GetNeededMigrations: an error if nothing was taken or the range has no end;
\* going down, the order is reversed.
NeededMigrations(current, target) ==
  LET end == Search(current, target)[MigrationCount]
  IN IF current = target \/ end.inMigration THEN NoRange
     ELSE IF current > target THEN SE!Reverse(end.taken) ELSE end.taken

-----------------------------------------------------------------------------
\* The document with what NodeTransitions leaves out: TestField, and the
\* driver_config of the apps, which is absent, empty or as the user wrote it.
Extended(doc, test, config) == [doc |-> doc, test |-> test, config |-> config]

Nothing == Extended([EmptyState EXCEPT !.version = 0], FALSE, "nil")
Stored(doc) == Extended(doc, doc.version = 2, IF doc.version < 4 THEN "nil" ELSE "own")

\* The functions of NodeDataMigrations; the others copy the state.
Up(m, s) ==
  CASE m = 1 -> Extended([EmptyState EXCEPT !.version = 1], FALSE, "nil")
    [] m = 2 -> [s EXCEPT !.test = TRUE]
    [] m = 3 -> [s EXCEPT !.test = FALSE]
    [] m = 4 -> [s EXCEPT !.config = "empty", !.doc.rules = NoEntries]
    [] OTHER -> s

\* Mutant: the way down to v0.0.4 copies the users as they are.
Down_KeepsDids(m, s) ==
  CASE m = 2 -> [s EXCEPT !.test = FALSE]
    [] m = 3 -> [s EXCEPT !.test = TRUE]
    [] m = 4 -> [s EXCEPT !.config = "nil", !.doc.rules = NoEntries]
    [] OTHER -> s

WithoutDids(users) == [u \in DOMAIN users |-> [users[u] EXCEPT !.did = FALSE]]

Down(m, s) ==
  CASE m = 2 -> [s EXCEPT !.test = FALSE]
    [] m = 3 -> [s EXCEPT !.test = TRUE]
    [] m = 4 -> [s EXCEPT !.config = "nil", !.doc.rules = NoEntries]
    [] m = 5 -> [s EXCEPT !.doc.users = WithoutDids(@)]
    [] OTHER -> s

\* The state after each number of the migrations in ms.
Applied(s, target, ms) ==
  LET state[n \in 0..Len(ms)] ==
        IF n = 0 THEN s
        ELSE IF s.doc.version < target THEN Up(ms[n], state[n - 1]) ELSE Down(ms[n], state[n - 1])
  IN state

\* GetMigrationPatch: one migration after the other, then the version.
Chain(s, target) ==
  LET ms == NeededMigrations(s.doc.version, target)
  IN [Applied(s, target, ms)[Len(ms)] EXCEPT !.doc.version = target]

-----------------------------------------------------------------------------
\* From the version the document has, every version from the first data
\* migration to the last can be reached, and no other; the range is found to
\* its end in both directions.
RangesAreFound ==
  LET current == registry.version
      distance(v) == IF v > current THEN v - current ELSE current - v
  IN \A v \in Versions :
       Len(NeededMigrations(current, v)) =
         IF v \in 1..MigrationCount THEN distance(v) ELSE 0

\* Whatever the document and the version asked for, no migration is missed or
\* taken too many, and the chain does to the document what MigratedData says;
\* from nothing it makes the empty state; the test field exists at version 2
\* only, and a driver_config is lost only by going below version 4.
ChainIsMigratedData ==
  /\ RangesAreFound
  /\ \A v \in 1..MigrationCount \ {registry.version} :
       LET s == Chain(Stored(registry), v)
       IN /\ s.doc = MigratedData(registry, v)
          /\ s.test = (v = 2)
          /\ s.config = IF v < 4 THEN "nil" ELSE IF registry.version < 4 THEN "empty" ELSE "own"
          /\ Chain(Nothing, v).doc = [EmptyState EXCEPT !.version = v]
=============================================================================
