------------------------------ MODULE BffAuth ------------------------------
(***************************************************************************)
(* Authentication between nodes (src/internal/bffauth): a node asks for a  *)
(* challenge, signs it and gets a token for its DID.  Requests run at the  *)
(* same time and share the map of challenge sessions; an answer reads the  *)
(* session, deletes it and then judges the proof, in three steps.          *)
(*                                                                         *)
(* Only memory is kept: a restart empties the map.  The expiry that a      *)
(* session carries is written and never read, so it is left out; the       *)
(* expiry of a token depends on nothing else and is left out too.          *)
(***************************************************************************)
EXTENDS Naturals, FiniteSets

CONSTANTS
  Dids, Keys,   \* who asks, and the key pairs
  SessionIds,   \* uuids; a session and its challenge are drawn together
  Requests,     \* requests to /node/bff/auth, each made once
  None

Ask == [did : Dids, key : Keys]
Proof == [challenge : SessionIds, key : Keys]

ASSUME NoneAssumption == None \notin SessionIds \cup Dids \cup Ask \cup Proof

VARIABLES
  store,    \* the live sessions
  asked,    \* what was asked for under an ID: [did, key], or None
  answers,      \* [Requests -> state of the request]
  spent     \* history: the sessions that a DeleteSession has removed

bffVars == <<store, asked, answers, spent>>

Fresh == [pc |-> "idle", sid |-> None, proof |-> None, token |-> None, late |-> FALSE]

BffInit ==
  /\ store = {}
  /\ asked = [sid \in SessionIds |-> None]
  /\ answers = [r \in Requests |-> Fresh]
  /\ spent = {}

----------------------------------------------------------------------------
\* Mutant: a session ID is taken again.
HandleChallenge_AnyId ==
  \E sid \in SessionIds, a \in Ask :
    /\ asked' = [asked EXCEPT ![sid] = a]
    /\ store' = store \cup {sid}
    /\ UNCHANGED <<answers, spent>>

\* handleChallenge: SaveSession under a new uuid.
HandleChallenge ==
  \E sid \in SessionIds, a \in Ask :
    /\ asked[sid] = None
    /\ asked' = [asked EXCEPT ![sid] = a]
    /\ store' = store \cup {sid}
    /\ UNCHANGED <<answers, spent>>

\* handleAuth reads the session (GetSession); one that is not there ends the
\* request.  "late" records whether it had been deleted by then.
Begin(r) ==
  \E sid \in SessionIds, p \in Proof :
    /\ answers[r].pc = "idle"
    /\ answers' = [answers EXCEPT ![r] = [pc |-> IF sid \in store THEN "read" ELSE "done",
                 sid |-> sid, proof |-> p, token |-> None, late |-> sid \in spent]]
    /\ UNCHANGED <<store, asked, spent>>

\* Mutant: the session stays until the proof was found good.
Delete_Kept(r) ==
  /\ answers[r].pc = "read"
  /\ spent' = spent \cup {answers[r].sid}
  /\ answers' = [answers EXCEPT ![r].pc = "deleted"]
  /\ UNCHANGED <<store, asked>>

\* DeleteSession: no error when another request was faster.
Delete(r) ==
  /\ answers[r].pc = "read"
  /\ store' = store \ {answers[r].sid}
  /\ spent' = spent \cup {answers[r].sid}
  /\ answers' = [answers EXCEPT ![r].pc = "deleted"]
  /\ UNCHANGED asked

\* VerifyProof: the proof signs the session's challenge with its key.
Verifies(r) ==
  /\ answers[r].proof.challenge = answers[r].sid
  /\ answers[r].proof.key = asked[answers[r].sid].key

\* The session is gone whether the proof was good or not.
Finish(r) ==
  /\ answers[r].pc = "deleted"
  /\ answers' = [answers EXCEPT ![r].pc = "done",
               ![r].token = IF Verifies(r) THEN asked[answers[r].sid].did ELSE None]
  /\ UNCHANGED <<store, asked, spent>>

\* A restart drops the sessions and the requests under way.
Restart ==
  /\ store' = {}
  /\ spent' = spent \cup store
  /\ answers' = [r \in Requests |->
               IF answers[r].pc \in {"read", "deleted"} THEN [answers[r] EXCEPT !.pc = "done"] ELSE answers[r]]
  /\ UNCHANGED asked

BffNext ==
  \/ HandleChallenge
  \/ \E r \in Requests : Begin(r) \/ Delete(r) \/ Finish(r)
  \/ Restart

BffSpec == BffInit /\ [][BffNext]_bffVars

----------------------------------------------------------------------------
Request == [pc : {"idle", "read", "deleted", "done"}, sid : SessionIds \cup {None},
            proof : Proof \cup {None}, token : Dids \cup {None}, late : BOOLEAN]

\* Type invariant; a session that is live or being answered was asked for.
BffTypeOK ==
  /\ asked \in [SessionIds -> Ask \cup {None}]
  /\ store \subseteq {sid \in SessionIds : asked[sid] # None}
  /\ spent \subseteq SessionIds
  /\ answers \in [Requests -> Request]
  /\ \A r \in Requests :
       answers[r].pc \in {"read", "deleted"} =>
         /\ answers[r].sid \in SessionIds /\ answers[r].proof \in Proof
         /\ asked[answers[r].sid] # None

\* A request that comes after a session was used gets no token from it,
\* whatever requests and restarts did in between: no ID comes back to life.
NoTokenFromSpent == \A r \in Requests : answers[r].late => answers[r].token = None

\* The token of a request names the DID that the answered challenge was
\* issued for, and the proof was made with the key given for that DID, though
\* the session had been deleted, perhaps twice, before the proof was judged.
TokensAreEarned ==
  \A r \in Requests :
    answers[r].token # None =>
      /\ answers[r].token = asked[answers[r].sid].did
      /\ answers[r].proof = [challenge |-> answers[r].sid, key |-> asked[answers[r].sid].key]

----------------------------------------------------------------------------
\* What follows the code does not keep; TLC refutes it (README, section 4).

\* Two tokens from one session need two requests at the same time: with the
\* requests of a session one after another, a session gives at most one.
\* "This session is used to keep track of challenges that have not yet been
\* used, and to prevent replay attacks" (bffauth/session.go:48).
OneTokenPerSession ==
  \A r1, r2 \in Requests :
    answers[r1].token # None /\ answers[r2].token # None /\ answers[r1].sid = answers[r2].sid => r1 = r2
============================================================================
