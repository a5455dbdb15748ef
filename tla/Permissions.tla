---------------------------- MODULE Permissions ----------------------------
(***************************************************************************)
(* The SQLite permission store (src/internal/permissions): one row per     *)
(* grantee, owner and object, kept when it is removed (gorm marks it as    *)
(* deleted and hides it) and covered by a unique index that counts hidden  *)
(* rows too.  Handlers run at the same time; an addition is a SELECT and   *)
(* then an UPDATE or an INSERT, a removal is one UPDATE.                   *)
(*                                                                         *)
(* An object is the sequence of the segments of an NSID or of a record's   *)
(* NSID and key; a row stands for its object and for all those below it.   *)
(***************************************************************************)
EXTENDS Naturals, Sequences

CONSTANTS
  Owners, Grantees,
  Segments,    \* the segments objects are made of
  Grantable,   \* the objects that permissions are given for
  Denied,      \* those a denial may be inserted for by hand
  Handlers,    \* requests at work at the same time
  Requests     \* how many requests are made (bound)

Objects == Seq(Segments)
Triples == [grantee : Grantees, owner : Owners, object : Grantable]

ASSUME PermissionsAssumption ==
  Grantable \subseteq Objects /\ Denied \subseteq Grantable /\ Requests \in Nat

VARIABLES
  rows,   \* [Triples -> "absent", "allow", "deny" or "removed"]
  op,     \* [Handlers -> the addition it is doing]
  left    \* requests that can still be made

permVars == <<rows, op, left>>

Live(t) == rows[t] \in {"allow", "deny"}
NoOp == [pc |-> "idle", found |-> FALSE]

PermInit ==
  /\ rows = [t \in Triples |-> "absent"]
  /\ op = [h \in Handlers |-> NoOp]
  /\ left = Requests

Request == left > 0 /\ left' = left - 1

----------------------------------------------------------------------------
\* AddLexiconReadPermission: FirstOrCreate looks for the row first.
AddSelect(h, t) ==
  /\ op[h].pc = "idle"
  /\ Request
  /\ op' = [op EXCEPT ![h] = [pc |-> "write", found |-> Live(t), triple |-> t]]
  /\ UNCHANGED rows

\* Mutant: the UPDATE finds hidden rows too.
Written_Unscoped(t, found) ==
  IF found \/ rows[t] = "absent" THEN [rows EXCEPT ![t] = "allow"] ELSE rows

\* Mutant: a row that was found keeps its effect.
Written_NoAssign(t, found) ==
  IF rows[t] = "absent" THEN [rows EXCEPT ![t] = "allow"] ELSE rows

\* A row it found is updated, if it is still there; otherwise a row is
\* inserted, which the unique index refuses when there is one by now, hidden
\* or not.  Only the refusal is an error.
Written(t, found) ==
  IF (found /\ Live(t)) \/ (~found /\ rows[t] = "absent")
  THEN [rows EXCEPT ![t] = "allow"] ELSE rows

AddWrite(h) ==
  /\ op[h].pc = "write"
  /\ rows' = Written(op[h].triple, op[h].found)
  /\ op' = [op EXCEPT ![h] =
              [pc |-> "done", triple |-> @.triple, found |-> @.found,
               ok |-> @.found \/ rows[@.triple] = "absent"]]
  /\ UNCHANGED left

Answer(h) ==
  /\ op[h].pc = "done"
  /\ op' = [op EXCEPT ![h] = NoOp]
  /\ UNCHANGED <<rows, left>>

\* Mutant: the row is deleted for good.
Remove_Hard(t) ==
  /\ Request
  /\ rows' = [rows EXCEPT ![t] = "absent"]
  /\ UNCHANGED op

\* RemoveLexiconReadPermission: no error when there is no such row.
Remove(t) ==
  /\ Request
  /\ rows' = IF Live(t) THEN [rows EXCEPT ![t] = "removed"] ELSE rows
  /\ UNCHANGED op

\* A denial, which no code writes: it is put into the table by hand, as the
\* tests do.
InsertDenial(t) ==
  /\ Request
  /\ t.object \in Denied /\ rows[t] = "absent"
  /\ rows' = [rows EXCEPT ![t] = "deny"]
  /\ UNCHANGED op

PermNext ==
  \/ \E h \in Handlers, t \in Triples : AddSelect(h, t)
  \/ \E h \in Handlers : AddWrite(h) \/ Answer(h)
  \/ \E t \in Triples : Remove(t) \/ InsertDenial(t)

PermSpec == PermInit /\ [][PermNext]_permVars

----------------------------------------------------------------------------
\* An object is covered by itself and by every NSID above it.
Covers(o, x) == Len(o) <= Len(x) /\ \A i \in 1..Len(o) : o[i] = x[i]

\* The live rows about an object.
Matching(grantee, owner, x) ==
  {t \in Triples : t.grantee = grantee /\ t.owner = owner /\ Live(t) /\ Covers(t.object, x)}

\* Mutant: the shortest row decides.
HasPermission_Shortest(requester, owner, x) ==
  \/ requester = owner
  \/ LET M == Matching(requester, owner, x)
     IN \E t \in M : rows[t] = "allow" /\ \A u \in M : Len(t.object) <= Len(u.object)

\* HasPermission: the owner always; else the longest live row that covers the
\* object decides, and no such row is a refusal.  Rows that cover one object
\* differ in length, so the order by effect never decides.
HasPermission(requester, owner, x) ==
  \/ requester = owner
  \/ LET M == Matching(requester, owner, x)
     IN \E t \in M : rows[t] = "allow" /\ \A u \in M : Len(u.object) <= Len(t.object)

\* ListReadPermissionsByUser: for a requester other than the owner the objects
\* of the live rows that cover the NSID, by effect.
ListByUser(owner, requester, nsid, effect) ==
  {t.object : t \in {u \in Matching(requester, owner, nsid) : rows[u] = effect}}

\* ListReadPermissionsByLexicon, and the endpoint that shows it to the owner.
ListByLexicon(owner) ==
  {<<t.object, t.grantee>> : t \in {u \in Triples : u.owner = owner /\ rows[u] = "allow"}}

----------------------------------------------------------------------------
Op == [pc : {"idle"}, found : BOOLEAN]
        \cup [pc : {"write"}, found : BOOLEAN, triple : Triples]
        \cup [pc : {"done"}, found : BOOLEAN, triple : Triples, ok : BOOLEAN]

\* Type invariant; a handler that found a row finds it again, perhaps removed.
PermTypeOK ==
  /\ rows \in [Triples -> {"absent", "allow", "deny", "removed"}]
  /\ op \in [Handlers -> Op]
  /\ left \in Nat
  /\ \A h \in Handlers : op[h].pc = "write" /\ op[h].found => rows[op[h].triple] # "absent"

\* A removal is final: no addition that had looked before it, however many and
\* however late they write, brings the permission back.
RemovalIsFinal ==
  [][\A t \in Triples : rows[t] = "removed" => rows'[t] = "removed"]_permVars

\* An addition that was acknowledged has left a permission: it can only be
\* gone because it was removed since, and no denial is left in its place.
AcknowledgedAdditionHolds ==
  \A h \in Handlers :
    op[h].pc = "done" /\ op[h].ok => rows[op[h].triple] \in {"allow", "removed"}

\* What the owner is shown is what a grantee may read: an NSID in the owner's
\* list is readable as such by the grantee it stands beside.
ShownIsReadable ==
  \A o \in Owners : \A p \in ListByLexicon(o) : HasPermission(p[2], o, p[1])

----------------------------------------------------------------------------
\* What follows the code does not keep; TLC refutes it (README, section 4).

\* After an addition that found no row the grantee has the permission: it
\* "grants read permission for an entire lexicon (NSID)" (sqlite_store.go:87).
AdditionGrants ==
  [][\A h \in Handlers :
       AddWrite(h) /\ ~op[h].found =>
         LET t == op[h].triple IN HasPermission(t.grantee, t.owner, t.object)']_permVars
============================================================================
