----------------------------- MODULE PriviRepo -----------------------------
(***************************************************************************)
(* Private records (src/internal/privi) over the permission store: a table *)
(* of records under the DID of the owner and the string "collection.rkey", *)
(* and the handlers that put, get and list them.  A get and a list first   *)
(* ask the permission store and then query the table, two separate         *)
(* statements between which rows of both tables may change.                *)
(*                                                                         *)
(* Strings are sequences of segments; a stored value is the collection and *)
(* the key it was put under.                                               *)
(***************************************************************************)
EXTENDS Permissions

CONSTANTS
  Collections, Rkeys,   \* sequences of segments
  Rank(_),              \* the place of a stored key in the order of strings
  Calls,                \* gets and lists at work at the same time
  Paged, Limit,         \* collections a client lists page by page, and the page size
  BlobSizes,            \* the blobs one may upload
  Puts, Reads,          \* how many calls are made (bounds)
  None

SE == INSTANCE SequencesExt

Keys == {c \o k : c \in Collections, k \in Rkeys}

ASSUME PriviAssumption ==
  /\ Collections \subseteq Objects /\ Rkeys \subseteq Objects \ {<<>>} /\ Paged \subseteq Collections
  /\ \A k1, k2 \in Keys : Rank(k1) \in Nat /\ (Rank(k1) = Rank(k2) => k1 = k2)
  /\ Limit \in Nat \ {0} /\ BlobSizes \subseteq Nat
  /\ None \notin Keys \cup (Collections \X Rkeys)

\* A client pages through a collection that has no other below it; through
\* another one it gets cursors that are no stored keys (ListedUriResolves).
ASSUME PagedAssumption ==
  \A c \in Paged : \A k \in Keys : Covers(c, k) /\ k # c => Len(k) = Len(c) + 1

VARIABLES
  records,   \* [Owners -> [Keys -> what was put, or None]]
  call,      \* [Calls -> the get or list it is doing]
  pager,     \* the client that lists a collection page by page, or None
  blobs,     \* sizes of the blobs stored and of those refused
  budget     \* puts and reads that can still be made

priviVars == <<records, call, pager, blobs, budget>>
vars == <<permVars, priviVars>>

Init ==
  /\ PermInit
  /\ records = [o \in Owners |-> [k \in Keys |-> None]]
  /\ call = [c \in Calls |-> None]
  /\ pager = None
  /\ blobs = [stored |-> {}, refused |-> {}]
  /\ budget = [puts |-> Puts, reads |-> Reads]

Spend(what) == budget[what] > 0 /\ budget' = [budget EXCEPT ![what] = @ - 1]
Callers == Owners \cup Grantees
Present(o) == {k \in Keys : records[o][k] # None}

----------------------------------------------------------------------------

\* Server.PutRecord: only the owner, and always an upsert of the joined key.
PutRecord ==
  \E o \in Owners, c \in Collections, k \in Rkeys :
    /\ Spend("puts")
    /\ records' = [records EXCEPT ![o][c \o k] = <<c, k>>]
    /\ UNCHANGED <<permVars, call, pager, blobs>>

\* What the caller could read at this moment (history, for the properties).
Readable(caller, o) == {k \in Keys : HasPermission(caller, o, k)}

\* store.getRecord: HasPermission of collection and key, then the row.
GetCheck(x) ==
  \E caller \in Callers, o \in Owners, c \in Collections, k \in Rkeys :
    /\ call[x] = None
    /\ Spend("reads")
    /\ call' = [call EXCEPT ![x] =
         [op |-> "get", pc |-> IF HasPermission(caller, o, c \o k) THEN "query" ELSE "refused",
          owner |-> o, collection |-> c, rkey |-> k]]
    /\ UNCHANGED <<permVars, records, pager, blobs>>

GetQuery(x) ==
  /\ call[x] # None
  /\ call[x].op = "get" /\ call[x].pc = "query"
  /\ call' = [call EXCEPT ![x] = [op |-> "get", pc |-> "done", owner |-> @.owner,
                collection |-> @.collection, rkey |-> @.rkey,
                value |-> records[@.owner][@.collection \o @.rkey]]]
  /\ UNCHANGED <<permVars, records, pager, blobs, budget>>

\* A pattern of an allow or deny list: "object.*", or the object itself.
Exactly(objects) == {[wild |-> FALSE, object |-> b] : b \in objects}
\* Mutant: an object stands for all that is below it.
Matches_Below(p, k) == Covers(p.object, k)

Matches(p, k) == IF p.wild THEN Covers(p.object, k) /\ Len(p.object) < Len(k) ELSE k = p.object

AllowList(o, caller, c) ==
  IF caller = o THEN {[wild |-> TRUE, object |-> c]} ELSE Exactly(ListByUser(o, caller, c, "allow"))
DenyList(o, caller, c) ==
  IF caller = o THEN {} ELSE Exactly(ListByUser(o, caller, c, "deny"))

\* store.listRecords: the lists of the permission store, then the query.
ListCheck(x) ==
  \E caller \in Callers, o \in Owners, c \in Collections :
    /\ call[x] = None
    /\ Spend("reads")
    /\ call' = [call EXCEPT ![x] =
         [op |-> "list", pc |-> "query", owner |-> o, collection |-> c,
          allow |-> AllowList(o, caller, c), deny |-> DenyList(o, caller, c),
          readable |-> Readable(caller, o)]]
    /\ UNCHANGED <<permVars, records, pager, blobs>>

Selected(o, allow, deny) ==
  {k \in Present(o) : (\E p \in allow : Matches(p, k)) /\ (\A p \in deny : ~Matches(p, k))}

ListQuery(x) ==
  /\ call[x] # None
  /\ call[x].op = "list" /\ call[x].pc = "query"
  /\ call' = [call EXCEPT ![x] = [op |-> "list", pc |-> "done", owner |-> @.owner,
                collection |-> @.collection, readable |-> @.readable,
                rows |-> Selected(@.owner, @.allow, @.deny), present |-> Present(@.owner)]]
  /\ UNCHANGED <<permVars, records, pager, blobs, budget>>

\* The answer has gone out.
Return(x) ==
  /\ call[x] # None
  /\ call[x].pc \in {"refused", "done"}
  /\ call' = [call EXCEPT ![x] = None]
  /\ UNCHANGED <<permVars, records, pager, blobs, budget>>

----------------------------------------------------------------------------
\* The owner's client lists a collection page by page.  An answer has no
\* cursor: the next one is made of the last URI, the collection and the last
\* segment of the stored key.
UriKey(c, k) == c \o <<SE!Last(k)>>

StartPaging ==
  \E o \in Owners, c \in Paged :
    /\ pager = None
    /\ pager' = [owner |-> o, collection |-> c, cursor |-> None, got |-> <<>>,
                 start |-> {k \in Present(o) : Covers(c, k) /\ k # c}, done |-> FALSE]
    /\ UNCHANGED <<permVars, records, call, blobs, budget>>

\* Mutant: the cursor's row is part of the page.
After_Inclusive(cursor, k) == cursor = None \/ Rank(k) >= Rank(cursor)

After(cursor, k) == cursor = None \/ Rank(k) > Rank(cursor)

\* listRecords with cursor and limit: the rows with rkey > cursor, ordered by
\* rkey, as many of them as there are up to the limit.
Pages(o, c, cursor) ==
  LET K == {k \in Selected(o, AllowList(o, o, c), {}) : After(cursor, k)}
  IN {page \in UNION {[1..n -> K] : n \in 0..Limit} :
        /\ \A i, j \in DOMAIN page : i < j => Rank(page[i]) < Rank(page[j])
        /\ \A k \in K : \/ \E i \in DOMAIN page : page[i] = k
                        \/ Len(page) = Limit /\ \A i \in DOMAIN page : Rank(page[i]) < Rank(k)}

NextPage ==
  /\ pager # None
  /\ ~pager.done
  /\ \E page \in Pages(pager.owner, pager.collection, pager.cursor) :
       pager' = [pager EXCEPT !.got = @ \o page, !.done = Len(page) < Limit,
                   !.cursor = IF page = <<>> THEN @ ELSE UriKey(pager.collection, SE!Last(page))]
  /\ UNCHANGED <<permVars, records, call, blobs, budget>>

\* NewSQLiteRepo never sets the limit, so it is 0.
maxBlobSize == 0

\* uploadBlob: what is larger is refused.
UploadBlob ==
  \E n \in BlobSizes :
    /\ blobs' = IF n > maxBlobSize THEN [blobs EXCEPT !.refused = @ \cup {n}]
                                   ELSE [blobs EXCEPT !.stored = @ \cup {n}]
    /\ UNCHANGED <<permVars, records, call, pager, budget>>

Read == \E x \in Calls : GetCheck(x) \/ GetQuery(x) \/ ListCheck(x) \/ ListQuery(x) \/ Return(x)

Next ==
  \/ PermNext /\ UNCHANGED priviVars
  \/ PutRecord
  \/ Read
  \/ StartPaging \/ NextPage
  \/ UploadBlob

Spec == Init /\ [][Next]_vars

----------------------------------------------------------------------------
Listed == {x \in Calls : call[x] # None /\ call[x].op = "list" /\ call[x].pc = "done"}
Got == {x \in Calls : call[x] # None /\ call[x].op = "get" /\ call[x].pc = "done"}

\* Type invariant.
TypeOK ==
  /\ PermTypeOK
  /\ \A o \in Owners : \A k \in Keys : records[o][k] = None \/ records[o][k] \in Collections \X Rkeys
  /\ \A x \in Listed : call[x].rows \subseteq Keys
  /\ blobs.stored \subseteq 0..maxBlobSize

\* What a caller is shown in a list it could have read one by one when the
\* permissions were looked up: the lists, which take every matching row, and
\* HasPermission, which takes the longest, never disagree that way.
ListedWasReadable == \A x \in Listed : call[x].rows \subseteq call[x].readable

\* A client that pages through a collection while records are put misses none
\* that was there when it began, and sees none twice.
PagesAreComplete ==
  pager # None =>
    /\ \A i, j \in DOMAIN pager.got : pager.got[i] = pager.got[j] => i = j
    /\ pager.done => pager.start \subseteq {pager.got[i] : i \in DOMAIN pager.got}

----------------------------------------------------------------------------
\* What follows the code does not keep; TLC refutes it (README, section 4).

\* A get returns what was put under that collection and that key: putRecord
\* "puts a record for the given rkey into the repo" (repo.go:95).  It takes a
\* key with a dot in it, <<Posts, A>> in MCRkeys, to see otherwise.
GetReturnsWhatWasPut ==
  \A x \in Got : call[x].value \in {None, <<call[x].collection, call[x].rkey>>}

\* The URI of a listed record leads back to it: a list holds the records "in a
\* repository, matching a specific collection" (listRecords.json:7).
ListedUriResolves ==
  \A x \in Listed : \A k \in call[x].rows : UriKey(call[x].collection, k) = k

\* A list holds every record of the collection that the caller may read.
ListCoversCollection ==
  \A x \in Listed :
    {k \in call[x].readable \cap call[x].present :
       Covers(call[x].collection, k) /\ Len(k) = Len(call[x].collection) + 1} \subseteq call[x].rows

\* Every upload is stored: "require.NoError(t, err)" after an upload of twenty
\* bytes (repo_test.go:139).
UploadsAreStored == blobs.refused = {}
============================================================================
