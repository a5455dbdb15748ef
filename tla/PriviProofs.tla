----------------------------- MODULE PriviProofs -----------------------------
(***************************************************************************)
(* Proofs about Permissions, for any number of handlers, grantees and      *)
(* NSIDs: a removal is final, an acknowledged addition has left its        *)
(* permission, and what the owner is shown is what a grantee may read.     *)
(* Then about PriviRepo, which runs over it: it takes no step that the     *)
(* permission store does not take, what it lists its caller could read,    *)
(* and a client that pages through a collection sees it all and once.      *)
(***************************************************************************)
EXTENDS PriviRepo, SequenceTheorems, TLAPS

States == {"absent", "allow", "deny", "removed"}
IInv == PermTypeOK /\ AcknowledgedAdditionHolds

\* What a step may do to one row: come into being, change its effect, or be
\* removed.
Moves(s, n) ==
  /\ s = "removed" => n = "removed"
  /\ n = "absent" => s = "absent"
  /\ s = "allow" => n \in {"allow", "removed"}

RowsMove == \A t \in Triples : Moves(rows[t], rows'[t])

LEMMA InitOK == PermInit => IInv
  BY PermissionsAssumption
  DEF PermInit, IInv, PermTypeOK, AcknowledgedAdditionHolds, NoOp, Op

\* Handlers that a step leaves alone keep what they know of the moving rows.
LEMMA OthersKeep ==
  ASSUME IInv, RowsMove, NEW h \in Handlers, op'[h] = op[h]
  PROVE  /\ op'[h].pc = "write" /\ op'[h].found => rows'[op'[h].triple] # "absent"
         /\ op'[h].pc = "done" /\ op'[h].ok => rows'[op'[h].triple] \in {"allow", "removed"}
<1>1. op[h] \in Op
  BY DEF IInv, PermTypeOK
<1>2. op[h].pc \in {"write", "done"} => op[h].triple \in Triples
  BY <1>1 DEF Op
<1> QED
  BY <1>2 DEF IInv, PermTypeOK, AcknowledgedAdditionHolds, RowsMove, Moves

LEMMA StepAddSelect ==
  ASSUME IInv, NEW h \in Handlers, NEW t \in Triples, AddSelect(h, t)
  PROVE  IInv' /\ RowsMove
<1> DEFINE new == [pc |-> "write", found |-> Live(t), triple |-> t]
<1>1. rows' = rows /\ left' \in Nat
  BY DEF AddSelect, Request, IInv, PermTypeOK
<1>2. RowsMove
  BY <1>1 DEF RowsMove, Moves
<1>3. new \in Op
  BY DEF Op, Live
<1>4. op' = [op EXCEPT ![h] = new]
  BY DEF AddSelect
<1>5. /\ op' \in [Handlers -> Op] /\ op'[h] = new
      /\ \A k \in Handlers \ {h} : op'[k] = op[k]
  BY <1>3, <1>4 DEF IInv, PermTypeOK
<1>6. new.found => rows'[t] # "absent"
  BY <1>1 DEF Live
<1>7. PermTypeOK'
  <2>1. ASSUME NEW k \in Handlers
        PROVE  op'[k].pc = "write" /\ op'[k].found => rows'[op'[k].triple] # "absent"
    BY <1>2, <1>5, <1>6, OthersKeep
  <2> QED
    BY <2>1, <1>1, <1>5 DEF IInv, PermTypeOK
<1>8. AcknowledgedAdditionHolds'
  BY <1>2, <1>5, OthersKeep DEF AcknowledgedAdditionHolds
<1> QED
  BY <1>2, <1>7, <1>8 DEF IInv

LEMMA StepAddWrite ==
  ASSUME IInv, NEW h \in Handlers, AddWrite(h)
  PROVE  IInv' /\ RowsMove
<1> DEFINE t == op[h].triple
           f == op[h].found
           ok == f \/ rows[t] = "absent"
           new == [pc |-> "done", triple |-> t, found |-> f, ok |-> ok]
<1>1. op[h] \in Op /\ op[h].pc = "write"
  BY DEF AddWrite, IInv, PermTypeOK
<1>2. t \in Triples /\ f \in BOOLEAN
  BY <1>1 DEF Op
<1>3. rows[t] \in States /\ (f => rows[t] # "absent")
  BY <1>1, <1>2 DEF IInv, PermTypeOK, States
<1>4. rows' = Written(t, f) /\ op' = [op EXCEPT ![h] = new] /\ left' = left
  BY DEF AddWrite
<1>5. /\ rows' \in [Triples -> States]
      /\ \A u \in Triples \ {t} : rows'[u] = rows[u]
      /\ rows'[t] = IF (f /\ Live(t)) \/ (~f /\ rows[t] = "absent") THEN "allow" ELSE rows[t]
  BY <1>2, <1>4 DEF Written, IInv, PermTypeOK, States
<1>6. RowsMove
  <2>1. Moves(rows[t], rows'[t])
    BY <1>3, <1>5 DEF Moves, Live, States
  <2> QED
    BY <2>1, <1>5 DEF RowsMove, Moves
<1>7. new \in Op
  BY <1>2 DEF Op
<1>8. /\ op' \in [Handlers -> Op] /\ op'[h] = new
      /\ \A k \in Handlers \ {h} : op'[k] = op[k]
  BY <1>4, <1>7 DEF IInv, PermTypeOK
<1>9. ok => rows'[t] \in {"allow", "removed"}
  BY <1>3, <1>5, <1>2 DEF Live, States
<1>10. PermTypeOK'
  <2>1. ASSUME NEW k \in Handlers
        PROVE  op'[k].pc = "write" /\ op'[k].found => rows'[op'[k].triple] # "absent"
    BY <1>6, <1>8, OthersKeep
  <2> QED
    BY <2>1, <1>4, <1>5, <1>8 DEF IInv, PermTypeOK, States
<1>11. AcknowledgedAdditionHolds'
  <2>1. ASSUME NEW k \in Handlers
        PROVE  op'[k].pc = "done" /\ op'[k].ok => rows'[op'[k].triple] \in {"allow", "removed"}
    <3>1. CASE k = h
      <4>1. new.ok = ok /\ new.triple = t
        OBVIOUS
      <4>2. op'[k] = new
        BY <3>1, <1>8
      <4> HIDE DEF new, ok
      <4> QED
        BY <4>1, <4>2, <1>9
    <3>2. CASE k # h
      BY <3>2, <1>6, <1>8, OthersKeep
    <3> QED
      BY <3>1, <3>2
  <2> QED
    BY <2>1 DEF AcknowledgedAdditionHolds
<1> QED
  BY <1>6, <1>10, <1>11 DEF IInv

LEMMA StepAnswer ==
  ASSUME IInv, NEW h \in Handlers, Answer(h)
  PROVE  IInv' /\ RowsMove
<1>1. rows' = rows /\ left' = left /\ op' = [op EXCEPT ![h] = NoOp]
  BY DEF Answer
<1>2. RowsMove
  BY <1>1 DEF RowsMove, Moves
<1>3. NoOp \in Op /\ NoOp.pc = "idle"
  BY DEF NoOp, Op
<1>4. /\ op' \in [Handlers -> Op] /\ op'[h].pc = "idle"
      /\ \A k \in Handlers \ {h} : op'[k] = op[k]
  BY <1>1, <1>3 DEF IInv, PermTypeOK
<1>5. PermTypeOK'
  <2>1. ASSUME NEW k \in Handlers
        PROVE  op'[k].pc = "write" /\ op'[k].found => rows'[op'[k].triple] # "absent"
    BY <1>2, <1>4, OthersKeep
  <2> QED
    BY <2>1, <1>1, <1>4 DEF IInv, PermTypeOK
<1>6. AcknowledgedAdditionHolds'
  BY <1>2, <1>4, OthersKeep DEF AcknowledgedAdditionHolds
<1> QED
  BY <1>2, <1>5, <1>6 DEF IInv

LEMMA StepRows ==
  ASSUME IInv, NEW t \in Triples, Remove(t) \/ InsertDenial(t)
  PROVE  IInv' /\ RowsMove
<1>1. op' = op /\ left' \in Nat
  BY DEF Remove, InsertDenial, Request, IInv, PermTypeOK
<1>2. /\ rows' \in [Triples -> States]
      /\ \A u \in Triples \ {t} : rows'[u] = rows[u]
      /\ Moves(rows[t], rows'[t])
  BY DEF Remove, InsertDenial, IInv, PermTypeOK, States, Moves, Live
<1>3. RowsMove
  BY <1>2 DEF RowsMove, Moves
<1>4. PermTypeOK'
  <2>1. ASSUME NEW k \in Handlers
        PROVE  op'[k].pc = "write" /\ op'[k].found => rows'[op'[k].triple] # "absent"
    BY <1>1, <1>3, OthersKeep
  <2> QED
    BY <2>1, <1>1, <1>2 DEF IInv, PermTypeOK, States
<1>5. AcknowledgedAdditionHolds'
  BY <1>1, <1>3, OthersKeep DEF AcknowledgedAdditionHolds
<1> QED
  BY <1>3, <1>4, <1>5 DEF IInv

LEMMA Step == IInv /\ [PermNext]_permVars => IInv' /\ RowsMove
<1>1. IInv /\ UNCHANGED permVars => IInv' /\ RowsMove
  BY DEF permVars, IInv, PermTypeOK, AcknowledgedAdditionHolds, RowsMove, Moves
<1> QED
  BY <1>1, StepAddSelect, StepAddWrite, StepAnswer, StepRows DEF PermNext

(* The invariant of the permission store, with additions under way. *)
THEOREM Invariance == PermSpec => []IInv
  BY InitOK, Step, PTL DEF PermSpec

\* The variables keep their types, and a row an addition has found stays known.
THEOREM TypeCorrect == PermSpec => []PermTypeOK
<1>1. IInv => PermTypeOK
  BY DEF IInv
<1> QED
  BY Invariance, <1>1, PTL

\* An acknowledged addition has left its permission.
THEOREM Acknowledged == PermSpec => []AcknowledgedAdditionHolds
<1>1. IInv => AcknowledgedAdditionHolds
  BY DEF IInv
<1> QED
  BY Invariance, <1>1, PTL

\* No interleaving of additions brings a removed permission back.
THEOREM RemovalsStay == PermSpec => RemovalIsFinal
<1>1. IInv /\ [PermNext]_permVars =>
        [\A t \in Triples : rows[t] = "removed" => rows'[t] = "removed"]_permVars
  BY Step DEF RowsMove, Moves
<1> QED
  BY Invariance, <1>1, PTL DEF PermSpec, RemovalIsFinal

\* An NSID in the owner's list is readable by the grantee it stands beside:
\* its own row is the longest of those that cover it.
LEMMA ListIsReadable == PermTypeOK => ShownIsReadable
<1> SUFFICES ASSUME PermTypeOK, NEW o \in Owners, NEW t \in Triples,
                    t.owner = o, rows[t] = "allow"
             PROVE  HasPermission(t.grantee, o, t.object)
  BY DEF ShownIsReadable, ListByLexicon
<1>1. t.object \in Seq(Segments)
  BY PermissionsAssumption DEF Triples, Objects
<1>2. Covers(t.object, t.object)
  BY <1>1 DEF Covers
<1>3. t \in Matching(t.grantee, o, t.object)
  BY <1>2 DEF Matching, Live
<1>4. \A u \in Matching(t.grantee, o, t.object) : Len(u.object) <= Len(t.object)
  BY DEF Matching, Covers
<1> QED
  BY <1>3, <1>4 DEF HasPermission

\* What the owner is shown as given can be read.
THEOREM ShownReadable == PermSpec => []ShownIsReadable
  BY TypeCorrect, ListIsReadable, PTL

-----------------------------------------------------------------------------
(***************************************************************************)
(* PriviRepo.                                                              *)
(***************************************************************************)
(* A list that is about to be queried takes no row that was not readable    *)
(* when the permissions were looked up; an answered one holds none.         *)
ListInv ==
  /\ call = [x \in Calls |-> call[x]]
  /\ \A x \in Calls : call[x] # None /\ call[x].op = "list" =>
       /\ call[x].pc = "query" =>
            \A k \in Keys :
              (\E p \in call[x].allow : Matches(p, k)) /\ (\A p \in call[x].deny : ~Matches(p, k))
                => k \in call[x].readable
       /\ call[x].pc = "done" => call[x].rows \subseteq Keys \cap call[x].readable

(* A client that pages has the keys in order up to its cursor, and what was  *)
(* there when it began is among them or after the cursor.                    *)
Pagers ==
  [owner : Owners, collection : Paged, cursor : Keys \cup {None}, got : Seq(Keys),
   start : SUBSET Keys, done : BOOLEAN]

Below(o, c) == {k \in Present(o) : Covers(c, k) /\ k # c}

Ordered(s) == \A i, j \in 1..Len(s) : i < j => Rank(s[i]) < Rank(s[j])
AtCursor(s, cursor) == cursor = IF s = <<>> THEN None ELSE s[Len(s)]

PagerInv ==
  pager # None =>
    /\ pager \in Pagers
    /\ Ordered(pager.got) /\ AtCursor(pager.got, pager.cursor)
    /\ pager.start \subseteq Below(pager.owner, pager.collection)
    /\ \A k \in pager.start :
         (\E i \in 1..Len(pager.got) : pager.got[i] = k) \/ (~pager.done /\ After(pager.cursor, k))

PriviInv ==
  /\ IInv
  /\ records \in [Owners -> [Keys -> (Collections \X Rkeys) \cup {None}]]
  /\ blobs \in [stored : SUBSET (0..maxBlobSize), refused : SUBSET Nat]
  /\ ListInv
  /\ PagerInv

LEMMA KeyIsObject == \A k \in Keys : k \in Seq(Segments)
<1> SUFFICES ASSUME NEW k \in Keys PROVE k \in Seq(Segments)
  OBVIOUS
<1>1. PICK c \in Collections, r \in Rkeys : k = c \o r
  BY DEF Keys
<1>2. c \in Seq(Segments) /\ r \in Seq(Segments)
  BY PriviAssumption DEF Objects
<1> QED BY <1>1, <1>2

LEMMA CoversItself == ASSUME NEW b \in Seq(Segments) PROVE Covers(b, b)
  BY DEF Covers

(* A row that lets a key into a list is the longest that covers the key. *)
LEMMA AllowedIsReadable ==
  ASSUME NEW caller, NEW o \in Owners, NEW c \in Collections, NEW k \in Keys,
         \E p \in AllowList(o, caller, c) : Matches(p, k)
  PROVE  HasPermission(caller, o, k)
<1>1. CASE caller = o
  BY <1>1 DEF HasPermission
<1>2. CASE caller # o
  <2>1. PICK p \in Exactly(ListByUser(o, caller, c, "allow")) : Matches(p, k)
    BY <1>2 DEF AllowList
  <2>2. PICK t \in Triples : /\ t.grantee = caller /\ t.owner = o /\ Live(t) /\ rows[t] = "allow"
                             /\ p = [wild |-> FALSE, object |-> t.object]
    BY DEF Exactly, ListByUser, Matching
  <2>3. k = t.object
    BY <2>1, <2>2 DEF Matches
  <2>4. k \in Seq(Segments)
    BY KeyIsObject
  <2>5. t \in Matching(caller, o, k)
    BY <2>2, <2>3, <2>4, CoversItself DEF Matching
  <2>6. \A u \in Matching(caller, o, k) : Len(u.object) <= Len(t.object)
    BY <2>3 DEF Matching, Covers
  <2> QED BY <2>2, <2>5, <2>6 DEF HasPermission
<1> QED BY <1>1, <1>2

(* What the owner selects of a collection is what lies below it. *)
LEMMA OwnSelection ==
  ASSUME NEW o \in Owners, NEW c \in Collections
  PROVE  Selected(o, AllowList(o, o, c), {}) = Below(o, c)
<1>1. AllowList(o, o, c) = {[wild |-> TRUE, object |-> c]}
  BY DEF AllowList
<1>2. ASSUME NEW k \in Keys
      PROVE  Matches([wild |-> TRUE, object |-> c], k) <=> Covers(c, k) /\ k # c
  <2>1. c \in Seq(Segments) /\ k \in Seq(Segments)
    BY PriviAssumption, KeyIsObject DEF Objects
  <2>2. Covers(c, k) /\ ~(Len(c) < Len(k)) => k = c
    <3> SUFFICES ASSUME Covers(c, k), ~(Len(c) < Len(k)) PROVE k = c
      OBVIOUS
    <3>1. Len(c) = Len(k) /\ \A i \in 1..Len(c) : c[i] = k[i]
      BY <2>1 DEF Covers
    <3> QED BY <2>1, <3>1, SeqEqual
  <2>3. Len(c) < Len(k) => k # c
    BY <2>1
  <2> QED BY <2>2, <2>3 DEF Matches
<1>3. Present(o) \subseteq Keys
  BY DEF Present
<1> QED BY <1>1, <1>2, <1>3 DEF Selected, Below

(* The cursor made of the URI of a row is the row's key, where no collection *)
(* lies below the one that is paged through.                                 *)
LEMMA CursorIsKey ==
  ASSUME NEW c \in Paged, NEW k \in Keys, Covers(c, k), k # c
  PROVE  UriKey(c, k) = k
<1>1. c \in Seq(Segments) /\ k \in Seq(Segments)
  BY PriviAssumption, KeyIsObject DEF Objects
<1>2. Len(k) = Len(c) + 1
  BY PagedAssumption
<1>3. UriKey(c, k) = c \o <<k[Len(k)]>>
  BY DEF UriKey, SE!Last
<1>4. k[Len(k)] \in Segments
  BY <1>1, <1>2
<1>5. /\ c \o <<k[Len(k)]>> \in Seq(Segments)
      /\ Len(c \o <<k[Len(k)]>>) = Len(k)
  BY <1>1, <1>2, <1>4
<1>6. \A i \in 1..Len(k) : (c \o <<k[Len(k)]>>)[i] = k[i]
  BY <1>1, <1>2, <1>4 DEF Covers
<1> QED BY <1>1, <1>3, <1>5, <1>6, SeqEqual

(* Appending what comes after the cursor keeps the order. *)
LEMMA OrderedAppend ==
  ASSUME NEW s \in Seq(Keys), NEW t \in Seq(Keys), NEW cursor,
         Ordered(s), Ordered(t), AtCursor(s, cursor),
         \A i \in 1..Len(t) : After(cursor, t[i])
  PROVE  Ordered(s \o t)
<1>1. /\ s \o t \in Seq(Keys) /\ Len(s \o t) = Len(s) + Len(t)
      /\ Len(s) \in Nat /\ Len(t) \in Nat
      /\ \A i \in 1..Len(s) : (s \o t)[i] = s[i]
      /\ \A i \in 1..Len(t) : (s \o t)[Len(s) + i] = t[i]
  OBVIOUS
<1>2. \A k \in Keys : Rank(k) \in Nat
  BY PriviAssumption
<1>3. ASSUME NEW i \in 1..Len(s), NEW j \in 1..Len(t) PROVE Rank(s[i]) < Rank(t[j])
  <2>1. s # <<>> /\ Len(s) \in 1..Len(s) /\ s[Len(s)] \in Keys /\ s[i] \in Keys /\ t[j] \in Keys
    OBVIOUS
  <2>2. cursor = s[Len(s)]
    BY <2>1 DEF AtCursor
  <2>3. cursor # None
    BY <2>1, <2>2, PriviAssumption
  <2>4. Rank(cursor) < Rank(t[j])
    BY <2>3 DEF After
  <2>5. i = Len(s) \/ Rank(s[i]) < Rank(s[Len(s)])
    BY <2>1 DEF Ordered
  <2> QED BY <1>2, <2>1, <2>2, <2>4, <2>5
<1>4. ASSUME NEW i \in 1..(Len(s) + Len(t)), NEW j \in 1..(Len(s) + Len(t)), i < j
      PROVE  Rank((s \o t)[i]) < Rank((s \o t)[j])
  <2>1. CASE j <= Len(s)
    BY <1>1, <1>4, <2>1 DEF Ordered
  <2>2. CASE i <= Len(s) /\ j > Len(s)
    <3>1. PICK b \in 1..Len(t) : j = Len(s) + b
      <4>1. j - Len(s) \in 1..Len(t) /\ j = Len(s) + (j - Len(s))
        BY <1>1, <2>2
      <4> QED BY <4>1
    <3>2. i \in 1..Len(s)
      BY <1>1, <2>2
    <3> QED BY <1>1, <1>3, <3>1, <3>2
  <2>3. CASE i > Len(s)
    <3>1. PICK a, b \in 1..Len(t) : i = Len(s) + a /\ j = Len(s) + b
      <4>1. /\ j - Len(s) \in 1..Len(t) /\ j = Len(s) + (j - Len(s))
            /\ i - Len(s) \in 1..Len(t) /\ i = Len(s) + (i - Len(s))
        BY <1>1, <1>4, <2>3
      <4> QED BY <4>1
    <3>2. a < b
      BY <1>1, <1>4, <3>1
    <3> QED BY <1>1, <3>1, <3>2 DEF Ordered
  <2> QED BY <1>1, <2>1, <2>2, <2>3
<1> QED BY <1>1, <1>4 DEF Ordered

(* What is known of a page. *)
LEMMA PageIs ==
  ASSUME NEW o \in Owners, NEW c \in Paged, NEW cursor, NEW page \in Pages(o, c, cursor)
  PROVE  /\ page \in Seq(Keys) /\ Len(page) \in 0..Limit
         /\ Ordered(page)
         /\ \A i \in 1..Len(page) : page[i] \in Below(o, c) /\ After(cursor, page[i])
         /\ \A k \in Below(o, c) : After(cursor, k) =>
              \/ \E i \in 1..Len(page) : page[i] = k
              \/ Len(page) = Limit /\ \A i \in 1..Len(page) : Rank(page[i]) < Rank(k)
<1> DEFINE K == {k \in Below(o, c) : After(cursor, k)}
<1>1. c \in Collections
  BY PriviAssumption
<1>2. /\ page \in UNION {[1..n -> K] : n \in 0..Limit}
      /\ \A i, j \in DOMAIN page : i < j => Rank(page[i]) < Rank(page[j])
      /\ \A k \in K : \/ \E i \in DOMAIN page : page[i] = k
                      \/ Len(page) = Limit /\ \A i \in DOMAIN page : Rank(page[i]) < Rank(k)
  BY <1>1, OwnSelection DEF Pages
<1>3. PICK n \in 0..Limit : page \in [1..n -> K]
  BY <1>2
<1>4. n \in Nat /\ K \subseteq Keys
  BY PriviAssumption DEF Below, Present
<1>5. page \in Seq(K) /\ page \in Seq(Keys) /\ Len(page) = n /\ DOMAIN page = 1..n
  <2>1. page \in [1..n -> Keys]
    BY <1>3, <1>4
  <2> HIDE DEF K
  <2> QED BY <1>3, <1>4, <2>1
<1>6. \A i \in 1..n : page[i] \in K
  BY <1>3
<1> QED BY <1>2, <1>5, <1>6 DEF Ordered

-----------------------------------------------------------------------------
LEMMA PriviInitOK == Init => PriviInv
<1> SUFFICES ASSUME Init PROVE PriviInv
  OBVIOUS
<1>1. IInv
  BY InitOK DEF Init
<1>2. records \in [Owners -> [Keys -> (Collections \X Rkeys) \cup {None}]]
  BY DEF Init
<1>3. ListInv
  BY DEF Init, ListInv
<1>4. PagerInv
  BY DEF Init, PagerInv
<1>5. blobs \in [stored : SUBSET (0..maxBlobSize), refused : SUBSET Nat]
  BY DEF Init
<1> QED BY <1>1, <1>2, <1>3, <1>4, <1>5 DEF PriviInv

(* No step of the repository or of the list handlers touches the rows of the *)
(* permission store but those that are the store's own.                      *)
LEMMA PermStep == [Next]_vars => [PermNext]_permVars
  BY DEF Next, vars, PutRecord, Read, GetCheck, GetQuery, ListCheck, ListQuery, Return,
         StartPaging, NextPage, UploadBlob

\* The private records implement the permission store they stand on.
THEOREM StoreUnderPrivi == Spec => PermSpec
<1>1. Init => PermInit
  BY DEF Init
<1> QED BY <1>1, PermStep, PTL DEF Spec, PermSpec


LEMMA TablesNext ==
  ASSUME PriviInv, [Next]_vars
  PROVE  /\ records' \in [Owners -> [Keys -> (Collections \X Rkeys) \cup {None}]]
         /\ \A o \in Owners : Present(o) \subseteq Present(o)'
         /\ blobs' \in [stored : SUBSET (0..maxBlobSize), refused : SUBSET Nat]
<1>1. /\ records \in [Owners -> [Keys -> (Collections \X Rkeys) \cup {None}]]
      /\ blobs \in [stored : SUBSET (0..maxBlobSize), refused : SUBSET Nat]
  BY DEF PriviInv
<1>2. CASE PutRecord
  <2>1. PICK o \in Owners, c \in Collections, k \in Rkeys :
          /\ records' = [records EXCEPT ![o][c \o k] = <<c, k>>]
          /\ UNCHANGED blobs
    BY <1>2 DEF PutRecord
  <2>2. PICK key \in Keys, v \in (Collections \X Rkeys) : key = c \o k /\ v = <<c, k>>
    <3>1. c \o k \in Keys /\ <<c, k>> \in Collections \X Rkeys
      BY DEF Keys
    <3> QED BY <3>1
  <2>3. records' = [records EXCEPT ![o][key] = v]
    BY <2>1, <2>2
  <2>4. [records[o] EXCEPT ![key] = v] \in [Keys -> (Collections \X Rkeys) \cup {None}]
    BY <1>1
  <2>5. /\ records' \in [Owners -> [Keys -> (Collections \X Rkeys) \cup {None}]]
        /\ \A a \in Owners : \A b \in Keys :
             records'[a][b] = IF a = o /\ b = key THEN v ELSE records[a][b]
    BY <1>1, <2>3, <2>4
  <2>6. v # None
    BY PriviAssumption
  <2> QED BY <1>1, <2>1, <2>5, <2>6 DEF Present
<1>3. CASE UploadBlob
  <2>1. PICK n \in BlobSizes :
          /\ blobs' = IF n > maxBlobSize THEN [blobs EXCEPT !.refused = @ \cup {n}]
                                         ELSE [blobs EXCEPT !.stored = @ \cup {n}]
          /\ UNCHANGED records
    BY <1>3 DEF UploadBlob
  <2>2. n \in Nat
    BY PriviAssumption
  <2>3. CASE n > maxBlobSize
    BY <1>1, <2>1, <2>2, <2>3 DEF Present
  <2>4. CASE ~(n > maxBlobSize)
    <3>1. n \in 0..maxBlobSize
      BY <2>2, <2>4 DEF maxBlobSize
    <3> QED BY <1>1, <2>1, <2>4, <3>1 DEF Present
  <2> QED BY <2>3, <2>4
<1>4. CASE ~PutRecord /\ ~UploadBlob
  <2>1. UNCHANGED <<records, blobs>>
    BY <1>4 DEF Next, vars, priviVars, Read, GetCheck, GetQuery, ListCheck, ListQuery, Return,
                StartPaging, NextPage
  <2> QED BY <1>1, <2>1 DEF Present
<1> QED BY <1>2, <1>3, <1>4

(* A list is looked up before its rows are queried: what its patterns admit *)
(* was readable when they were made, whatever becomes of the permissions.   *)
LEMMA ListNext ==
  ASSUME PriviInv, [Next]_vars
  PROVE  ListInv'
<1>1. ListInv
  BY DEF PriviInv
<1>same. ASSUME UNCHANGED call PROVE ListInv'
  BY <1>1, <1>same DEF ListInv
(* One call becomes r. *)
<1>one. ASSUME NEW x \in Calls, NEW r, call' = [call EXCEPT ![x] = r],
               r # None /\ r.op = "list" =>
                 /\ r.pc = "query" =>
                      \A k \in Keys : (\E p \in r.allow : Matches(p, k)) /\ (\A p \in r.deny : ~Matches(p, k))
                                        => k \in r.readable
                 /\ r.pc = "done" => r.rows \subseteq Keys \cap r.readable
        PROVE  ListInv'
  <2>1. \A y \in Calls : call'[y] = IF y = x THEN r ELSE call[y]
    BY <1>1, <1>one DEF ListInv
  <2>2. call' = [y \in Calls |-> call'[y]]
    BY <1>1, <1>one DEF ListInv
  <2> QED BY <1>1, <1>one, <2>1, <2>2 DEF ListInv
<1>2. ASSUME NEW x \in Calls, GetCheck(x) PROVE ListInv'
  <2>1. PICK caller \in Callers, o \in Owners, c \in Collections, k \in Rkeys :
          call' = [call EXCEPT ![x] =
            [op |-> "get", pc |-> IF HasPermission(caller, o, c \o k) THEN "query" ELSE "refused",
             owner |-> o, collection |-> c, rkey |-> k]]
    BY <1>2 DEF GetCheck
  <2>2. [op |-> "get", pc |-> IF HasPermission(caller, o, c \o k) THEN "query" ELSE "refused",
         owner |-> o, collection |-> c, rkey |-> k].op = "get"
    OBVIOUS
  <2> QED BY <1>one, <2>1, <2>2
<1>3. ASSUME NEW x \in Calls, GetQuery(x) PROVE ListInv'
  <2>1. PICK r : r.op = "get" /\ call' = [call EXCEPT ![x] = r]
    BY <1>3 DEF GetQuery
  <2> QED BY <1>one, <2>1
<1>4. ASSUME NEW x \in Calls, ListCheck(x) PROVE ListInv'
  <2>1. PICK caller \in Callers, o \in Owners, c \in Collections :
          call' = [call EXCEPT ![x] =
            [op |-> "list", pc |-> "query", owner |-> o, collection |-> c,
             allow |-> AllowList(o, caller, c), deny |-> DenyList(o, caller, c),
             readable |-> Readable(caller, o)]]
    BY <1>4 DEF ListCheck
  <2> DEFINE r == [op |-> "list", pc |-> "query", owner |-> o, collection |-> c,
                   allow |-> AllowList(o, caller, c), deny |-> DenyList(o, caller, c),
                   readable |-> Readable(caller, o)]
  <2>2. /\ call' = [call EXCEPT ![x] = r]
        /\ r.pc = "query" /\ r.allow = AllowList(o, caller, c)
        /\ r.readable = Readable(caller, o)
    BY <2>1
  <2> HIDE DEF r
  <2>3. ASSUME NEW k \in Keys, \E p \in r.allow : Matches(p, k) PROVE k \in r.readable
    BY <2>2, <2>3, AllowedIsReadable DEF Readable
  <2> QED BY <1>one, <2>2, <2>3
<1>5. ASSUME NEW x \in Calls, ListQuery(x) PROVE ListInv'
  <2>0. PICK r : /\ call' = [call EXCEPT ![x] = r]
                 /\ r = [op |-> "list", pc |-> "done", owner |-> call[x].owner,
                         collection |-> call[x].collection, readable |-> call[x].readable,
                         rows |-> Selected(call[x].owner, call[x].allow, call[x].deny),
                         present |-> Present(call[x].owner)]
    BY <1>5 DEF ListQuery
  <2>1. /\ call' = [call EXCEPT ![x] = r]
        /\ r.pc = "done" /\ r.readable = call[x].readable
        /\ r.rows = Selected(call[x].owner, call[x].allow, call[x].deny)
    BY <2>0
  <2>2. call[x] # None /\ call[x].op = "list" /\ call[x].pc = "query"
    BY <1>5 DEF ListQuery
  <2>3. \A k \in r.rows : k \in Keys /\ k \in r.readable
    BY <1>1, <2>1, <2>2 DEF ListInv, Selected, Present
  <2> QED BY <1>one, <2>1, <2>3
<1>6. ASSUME NEW x \in Calls, Return(x) PROVE ListInv'
  BY <1>6, <1>one DEF Return
<1>7. CASE PermNext /\ UNCHANGED priviVars
  BY <1>7, <1>same DEF priviVars
<1>8. CASE PutRecord \/ StartPaging \/ NextPage \/ UploadBlob
  BY <1>8, <1>same DEF PutRecord, StartPaging, NextPage, UploadBlob
<1>9. CASE UNCHANGED vars
  BY <1>9, <1>same DEF vars, priviVars
<1> QED BY <1>2, <1>3, <1>4, <1>5, <1>6, <1>7, <1>8, <1>9 DEF Next, Read

(* The next page goes on where the last one ended. *)
LEMMA PagerNext ==
  ASSUME PriviInv, [Next]_vars
  PROVE  PagerInv'
<1>1. PagerInv
  BY DEF PriviInv
<1>2. \A o \in Owners : Present(o) \subseteq Present(o)'
  BY TablesNext
<1>3. \A o \in Owners, c \in Paged : Below(o, c) \subseteq Below(o, c)'
  BY <1>2 DEF Below
<1>4. CASE UNCHANGED pager
  BY <1>1, <1>3, <1>4 DEF PagerInv, Pagers
<1>5. CASE StartPaging
  <2>1. PICK o \in Owners, c \in Paged :
          /\ pager' = [owner |-> o, collection |-> c, cursor |-> None, got |-> <<>>,
                       start |-> {k \in Present(o) : Covers(c, k) /\ k # c}, done |-> FALSE]
          /\ UNCHANGED records
    BY <1>5 DEF StartPaging
  <2>2. pager'.start = Below(o, c) /\ Below(o, c) \subseteq Keys
    BY <2>1 DEF Below, Present
  <2>3. pager' \in Pagers
    BY <2>1, <2>2 DEF Pagers
  <2>4. Ordered(pager'.got) /\ AtCursor(pager'.got, pager'.cursor)
    BY <2>1 DEF Ordered, AtCursor
  <2>5. \A k \in pager'.start : After(pager'.cursor, k)
    BY <2>1 DEF After
  <2>6. /\ pager'.owner = o /\ pager'.collection = c /\ ~pager'.done
    BY <2>1
  <2> HIDE <2>1
  <2>7. (pager.start \subseteq Below(pager.owner, pager.collection))'
    <3>1. Below(o, c)' = Below(pager.owner, pager.collection)'
      BY <2>6
    <3> QED BY <1>3, <2>2, <3>1
  <2> QED BY <2>3, <2>4, <2>5, <2>6, <2>7 DEF PagerInv
<1>6. CASE NextPage
  <2>1. PICK page \in Pages(pager.owner, pager.collection, pager.cursor) :
          pager' = [pager EXCEPT !.got = @ \o page, !.done = Len(page) < Limit,
                      !.cursor = IF page = <<>> THEN @ ELSE UriKey(pager.collection, SE!Last(page))]
    BY <1>6 DEF NextPage
  <2>2. /\ pager # None /\ pager \in Pagers /\ ~pager.done /\ records' = records
        /\ Ordered(pager.got) /\ AtCursor(pager.got, pager.cursor)
        /\ pager.start \subseteq Below(pager.owner, pager.collection)
        /\ \A k \in pager.start :
             (\E i \in 1..Len(pager.got) : pager.got[i] = k) \/ After(pager.cursor, k)
    BY <1>1, <1>6 DEF NextPage, PagerInv
  <2>3. PICK o \in Owners, c \in Paged, cursor \in Keys \cup {None}, s \in Seq(Keys), start \in SUBSET Keys :
          /\ o = pager.owner /\ c = pager.collection /\ cursor = pager.cursor /\ s = pager.got
          /\ start = pager.start
    BY <2>2 DEF Pagers
  <2>4. /\ page \in Seq(Keys) /\ Len(page) \in 0..Limit
        /\ Ordered(page)
        /\ \A i \in 1..Len(page) : page[i] \in Below(o, c) /\ After(cursor, page[i])
        /\ \A k \in Below(o, c) : After(cursor, k) =>
             \/ \E i \in 1..Len(page) : page[i] = k
             \/ Len(page) = Limit /\ \A i \in 1..Len(page) : Rank(page[i]) < Rank(k)
    BY <2>1, <2>3, PageIs
  <2> DEFINE next == IF page = <<>> THEN cursor ELSE page[Len(page)]
  <2>5. page # <<>> => Len(page) \in 1..Len(page) /\ page[Len(page)] \in Keys
                       /\ UriKey(c, SE!Last(page)) = page[Len(page)]
    <3> SUFFICES ASSUME page # <<>>
                 PROVE  Len(page) \in 1..Len(page) /\ page[Len(page)] \in Keys
                        /\ UriKey(c, SE!Last(page)) = page[Len(page)]
      OBVIOUS
    <3>1. Len(page) \in 1..Len(page) /\ page[Len(page)] \in Keys
      BY <2>4
    <3>2. page[Len(page)] \in Below(o, c)
      BY <2>4, <3>1
    <3>3. UriKey(c, page[Len(page)]) = page[Len(page)]
      BY <3>1, <3>2, CursorIsKey DEF Below
    <3> QED BY <3>1, <3>3 DEF SE!Last
  <2>6. pager' = [pager EXCEPT !.got = s \o page, !.done = Len(page) < Limit, !.cursor = next]
    BY <2>1, <2>3, <2>5
  <2>7. next \in Keys \cup {None} /\ s \o page \in Seq(Keys) /\ (Len(page) < Limit) \in BOOLEAN
    BY <2>4, <2>5
  <2>8. /\ pager' \in Pagers
        /\ pager'.owner = o /\ pager'.collection = c /\ pager'.start = start
        /\ pager'.got = s \o page /\ pager'.cursor = next /\ pager'.done = (Len(page) < Limit)
    <3> HIDE DEF next
    <3> QED BY <2>2, <2>3, <2>6, <2>7 DEF Pagers
  <2>9. Ordered(s \o page)
    BY <2>2, <2>3, <2>4, OrderedAppend
  <2>10. AtCursor(s \o page, next)
    <3>1. CASE page = <<>>
      <4>1. s \o page = s
        BY <3>1
      <4> QED BY <2>2, <2>3, <3>1, <4>1
    <3>2. CASE page # <<>>
      <4>1. /\ s \o page # <<>> /\ Len(s \o page) = Len(s) + Len(page)
            /\ (s \o page)[Len(s) + Len(page)] = page[Len(page)]
        BY <2>4, <2>5, <3>2
      <4> QED BY <3>2, <4>1 DEF AtCursor
    <3> QED BY <3>1, <3>2
  <2>11. start \subseteq Below(o, c)'
    BY <1>3, <2>2, <2>3
  <2>12. ASSUME NEW k \in start
         PROVE  \/ \E i \in 1..Len(s \o page) : (s \o page)[i] = k
                \/ ~(Len(page) < Limit) /\ After(next, k)
    <3>0. /\ Len(s \o page) = Len(s) + Len(page) /\ Len(s) \in Nat /\ Len(page) \in Nat
          /\ \A i \in 1..Len(s) : (s \o page)[i] = s[i]
          /\ \A i \in 1..Len(page) : (s \o page)[Len(s) + i] = page[i]
      BY <2>4
    <3>1. CASE \E i \in 1..Len(s) : s[i] = k
      <4>1. PICK i \in 1..Len(s) : s[i] = k
        BY <3>1
      <4>2. i \in 1..Len(s \o page) /\ (s \o page)[i] = k
        BY <3>0, <4>1
      <4> QED BY <4>2
    <3>2. CASE ~\E i \in 1..Len(s) : s[i] = k
      <4>1. After(cursor, k) /\ k \in Below(o, c)
        BY <2>2, <2>3, <3>2
      <4>2. CASE \E i \in 1..Len(page) : page[i] = k
        <5>1. PICK i \in 1..Len(page) : page[i] = k
          BY <4>2
        <5>2. Len(s) + i \in 1..Len(s \o page) /\ (s \o page)[Len(s) + i] = k
          BY <3>0, <5>1
        <5> QED BY <5>2
      <4>3. CASE Len(page) = Limit /\ \A i \in 1..Len(page) : Rank(page[i]) < Rank(k)
        <5>1. Limit \in Nat \ {0}
          BY PriviAssumption
        <5>2. page # <<>>
          BY <2>4, <4>3, <5>1
        <5>3. Rank(page[Len(page)]) < Rank(k)
          BY <2>5, <4>3, <5>2
        <5> QED BY <4>3, <5>1, <5>2, <5>3 DEF After
      <4> QED BY <2>4, <4>1, <4>2, <4>3
    <3> QED BY <3>1, <3>2
  <2> HIDE DEF next
  <2> QED BY <2>8, <2>9, <2>10, <2>11, <2>12 DEF PagerInv
<1>7. CASE ~StartPaging /\ ~NextPage
  <2>1. UNCHANGED pager
    BY <1>7 DEF Next, vars, priviVars, PutRecord, Read, GetCheck, GetQuery, ListCheck, ListQuery,
                Return, UploadBlob
  <2> QED BY <1>4, <2>1
<1> QED BY <1>5, <1>6, <1>7

-----------------------------------------------------------------------------
(* The invariant of the private records. *)
THEOREM PriviInvariance == Spec => []PriviInv
<1>1. Init => PriviInv
  BY PriviInitOK
<1>2. PriviInv /\ [Next]_vars => PriviInv'
  <2> SUFFICES ASSUME PriviInv, [Next]_vars PROVE PriviInv'
    OBVIOUS
  <2>1. IInv'
    BY PermStep, Step DEF PriviInv
  <2> QED BY <2>1, TablesNext, ListNext, PagerNext DEF PriviInv
<1> QED BY <1>1, <1>2, PTL DEF Spec

(* The tables hold what is put into them, a list shows keys of the table, and *)
(* no blob above the limit is stored.                                         *)
THEOREM PriviTypeCorrect == Spec => []TypeOK
<1>1. PriviInv => TypeOK
  BY DEF PriviInv, IInv, ListInv, TypeOK, Listed
<1> QED BY <1>1, PriviInvariance, PTL

(* What a list shows its caller could have read when the permissions were *)
(* looked up, whatever happens between that and the query.                *)
THEOREM ListedReadable == Spec => []ListedWasReadable
<1>1. PriviInv => ListedWasReadable
  BY DEF PriviInv, ListInv, ListedWasReadable, Listed
<1> QED BY <1>1, PriviInvariance, PTL

(* A client that pages misses nothing and sees nothing twice, with any limit *)
(* and while records are put, in a collection that has none below it.        *)
THEOREM PagesComplete == Spec => []PagesAreComplete
<1>1. PriviInv => PagesAreComplete
  <2> SUFFICES ASSUME PriviInv, pager # None
               PROVE  /\ \A i, j \in DOMAIN pager.got : pager.got[i] = pager.got[j] => i = j
                      /\ pager.done => pager.start \subseteq {pager.got[i] : i \in DOMAIN pager.got}
    BY DEF PagesAreComplete
  <2>1. /\ pager.got \in Seq(Keys) /\ Ordered(pager.got)
        /\ pager.done => \A k \in pager.start : \E i \in 1..Len(pager.got) : pager.got[i] = k
    BY DEF PriviInv, PagerInv, Pagers
  <2>2. DOMAIN pager.got = 1..Len(pager.got) /\ \A i \in DOMAIN pager.got : pager.got[i] \in Keys
    BY <2>1
  <2>3. \A k \in Keys : Rank(k) \in Nat
    BY PriviAssumption
  <2>4. ASSUME NEW i \in DOMAIN pager.got, NEW j \in DOMAIN pager.got, pager.got[i] = pager.got[j]
        PROVE  i = j
    <3>1. ~(i < j)
      BY <2>1, <2>2, <2>3, <2>4 DEF Ordered
    <3>2. ~(j < i)
      BY <2>1, <2>2, <2>3, <2>4 DEF Ordered
    <3> QED BY <2>2, <3>1, <3>2
  <2> QED BY <2>1, <2>2, <2>4
<1> QED BY <1>1, PriviInvariance, PTL

(* What the permission store keeps it keeps under the repository. *)
THEOREM StoreKeeps == Spec => [](AcknowledgedAdditionHolds /\ ShownIsReadable) /\ RemovalIsFinal
  BY StoreUnderPrivi, Acknowledged, ShownReadable, RemovalsStay, PTL

=============================================================================
