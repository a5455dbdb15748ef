---------------------------- MODULE MCPriviRepo ----------------------------
(* Instances of PriviRepo for TLC.  Segments are numbers, so that the order  *)
(* of strings is the order of the numbers read segment by segment.           *)
(*                                                                           *)
(* A run of the model has one of three clients: one that reads while records *)
(* and permissions change, one that pages through a collection while records *)
(* are put, and one that uploads.  An upload touches nothing the others      *)
(* read, and the owner, who is the one to page, needs no permission.         *)
EXTENDS PriviRepo, TLC

CONSTANTS h1, h2
VARIABLE client

Com == 1
Posts == 2
A == 3
B == 4
MCSegments == 1..4
MCRank(k) == LET d(i) == IF i <= Len(k) THEN k[i] ELSE 0
             IN d(1) * 100 + d(2) * 10 + d(3)

\* A collection above another one, and a key that reads like the lower one.
NestedCollections == {<<Com>>, <<Com, Posts>>}
LowerCollection == {<<Com, Posts>>}
MCRkeys == {<<Posts>>, <<A>>, <<B>>}

MCHandlers == {h1, h2}

MCInit == client \in {"reader", "pager", "uploader"} /\ Init

MCNext ==
  /\ UNCHANGED client
  /\ \/ /\ client = "reader"
        /\ (PermNext /\ UNCHANGED priviVars) \/ PutRecord \/ Read
     \/ client = "pager" /\ (PutRecord \/ StartPaging \/ NextPage)
     \/ client = "uploader" /\ UploadBlob

MCSpec == MCInit /\ [][MCNext]_<<client, vars>>

\* The reader's client needs two keys only, the pager's three.
TwoKeys == client = "reader" => \A o \in Owners : \A k \in Present(o) : SE!Last(k) # B

Symmetry == Permutations(Handlers)
============================================================================
