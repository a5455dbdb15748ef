---------------------------- MODULE OAuthServer ----------------------------
(***************************************************************************)
(* The node as an OAuth server (src/internal/oauthserver) for apps that    *)
(* want to act for a user, with the user's PDS as identity provider.  An   *)
(* app's flow waits in the browser's auth-session cookie while the PDS     *)
(* authenticates the user; the authorization code and the access token are *)
(* sealed copies of the session, so the server keeps nothing.              *)
(*                                                                         *)
(* A flow is a number: it names the app's challenge, the DPoP key, the     *)
(* verifier and the PDS's code of that flow.  A user is named in a request *)
(* by handle or by DID.  The browser, the apps and the PDS are external.   *)
(***************************************************************************)
EXTENDS Naturals, Sequences, FiniteSets

CONSTANTS
  Users, Apps,
  Slots,       \* requests of the browser in flight at one time
  CookieRoom,  \* how many flows are sure to fit the cookie, whatever their size
  MaxFlows, MaxCallbacks, MaxExchanges,  \* bounds
  MaxFaults    \* client metadata or PDS out of reach, lost responses

ASSUME OAuthAssumption ==
  /\ {CookieRoom, MaxFlows, MaxCallbacks, MaxExchanges, MaxFaults} \subseteq Nat
  /\ IsFiniteSet(Slots)

Idents == [user : Users, form : {"handle", "did"}]
DID(u) == [user |-> u, form |-> "did"]

VARIABLES
  jar,        \* the flashes in the browser's auth-session cookie
  req,        \* [Slots -> the request, its copy of the flashes, its response]
  flows,      \* the flows whose pushed request the PDS accepted
  sent,       \* flows whose user was sent to the PDS, and whose user came back
  redeemed,   \* PDS: flows whose code was redeemed
  codes,      \* the sessions sealed into authorization codes
  held,       \* the codes whose redirect reached the app
  tokens,     \* the sessions sealed into access tokens
  exchanged,  \* [flow -> access tokens issued for its code]
  puts,       \* history: puts done and puts refused, with the owner's user
  used,       \* callbacks and faults so far (bounds)
  tally       \* history: callbacks that failed, steps that may disturb a flow,
              \* flows whose PDS token never arrived

vars == <<jar, req, flows, sent, redeemed, codes, held, tokens, exchanged, puts, used, tally>>
appVars == <<held, tokens, exchanged, puts>>

Idle == [kind |-> "none", pc |-> "idle", ident |-> <<>>, app |-> <<>>, code |-> 0,
         flashes |-> <<>>, set |-> <<>>, saves |-> FALSE, sealed |-> <<>>]

Init ==
  /\ jar = <<>>
  /\ req = [q \in Slots |-> Idle]
  /\ flows = <<>>
  /\ sent = [out |-> {}, back |-> {}]
  /\ redeemed = {} /\ codes = {} /\ held = {} /\ tokens = {}
  /\ exchanged = [f \in 1..MaxFlows |-> 0]
  /\ puts = [done |-> {}, refused |-> {}]
  /\ used = [callbacks |-> 0, faults |-> 0]
  /\ tally = [failed |-> 0, disturbed |-> 0, lost |-> {}]

----------------------------------------------------------------------------
Fault == used.faults < MaxFaults /\ used' = [used EXCEPT !.faults = @ + 1]
Newest == Len(flows)
Last(s) == s[Len(s)]
Handling(q, kind, pc) == req[q].kind = kind /\ req[q].pc = pc

\* The response of a request: the flashes it saves, if it saves the session.
Respond(q, saves, flashes) ==
  req' = [req EXCEPT ![q].pc = "answered", ![q].saves = saves, ![q].set = flashes]

\* What may make a callback fail: a flow left behind, a page loaded again, and
\* a request sent while another is under way.
Disturbs(b) ==
  LET crosses == \E p \in Slots : req[p].pc # "idle"
  IN tally' = [tally EXCEPT !.disturbed =
                 @ + (IF b THEN 1 ELSE 0) + (IF crosses THEN 1 ELSE 0)]

\* The app sends the user's browser to /authorize.
SendAuthorize(q) ==
  \E id \in Idents, app \in Apps :
    /\ req[q].pc = "idle"
    /\ Len(flows) + Cardinality({p \in Slots : Handling(p, "authorize", "handle")}) < MaxFlows
    /\ req' = [req EXCEPT ![q] = [Idle EXCEPT !.kind = "authorize", !.pc = "handle",
                 !.ident = id, !.app = app, !.flashes = jar]]
    /\ Disturbs(flows # <<>> /\ Newest \notin sent.back)
    /\ UNCHANGED <<jar, flows, sent, redeemed, codes, appVars, used>>

\* The PDS sends the user back with the code of a flow; pages are reloaded.
SendCallback(q) ==
  \E f \in sent.out :
    /\ req[q].pc = "idle"
    /\ used.callbacks < MaxCallbacks
    /\ used' = [used EXCEPT !.callbacks = @ + 1]
    /\ req' = [req EXCEPT ![q] = [Idle EXCEPT !.kind = "callback", !.pc = "handle",
                 !.code = f, !.flashes = jar]]
    /\ sent' = [sent EXCEPT !.back = @ \cup {f}]
    /\ Disturbs(f # Newest \/ f \in sent.back)
    /\ UNCHANGED <<jar, flows, redeemed, codes, appVars>>

\* The response arrives: its cookie replaces the browser's, and the redirect
\* takes the user to the PDS, or the code of a finished flow to the app.
Deliver(q) ==
  /\ req[q].pc = "answered"
  /\ jar' = IF req[q].saves THEN req[q].set ELSE jar
  /\ held' = IF req[q].sealed = <<>> THEN held ELSE held \cup {req[q].sealed}
  /\ sent' = IF req[q].kind = "authorize" /\ req[q].saves
             THEN [sent EXCEPT !.out = @ \cup {Last(req[q].set)}] ELSE sent
  /\ req' = [req EXCEPT ![q] = Idle]
  /\ UNCHANGED <<flows, redeemed, codes, tokens, exchanged, puts, used, tally>>

Lose(q) ==
  /\ req[q].pc = "answered"
  /\ Fault
  /\ req' = [req EXCEPT ![q] = Idle]
  /\ UNCHANGED <<jar, flows, sent, redeemed, codes, appVars, tally>>

----------------------------------------------------------------------------
\* HandleAuthorize.  Any failure is answered before the session is saved; the
\* cookie whose flows have no room cannot be saved.
AuthorizeFails(q) ==
  /\ Handling(q, "authorize", "handle")
  /\ Fault
  /\ Respond(q, FALSE, <<>>)
  /\ UNCHANGED <<jar, flows, sent, redeemed, codes, appVars, tally>>

HandleAuthorize(q) ==
  LET n == Len(flows) + 1
  IN /\ Handling(q, "authorize", "handle")
     /\ n <= MaxFlows
     /\ flows' = Append(flows, [ident |-> req[q].ident, app |-> req[q].app])
     /\ \/ Respond(q, TRUE, Append(req[q].flashes, n))
        \/ Len(req[q].flashes) >= CookieRoom /\ Respond(q, FALSE, <<>>)
     /\ UNCHANGED <<jar, sent, redeemed, codes, appVars, used, tally>>

\* The flashes are cleared whatever comes of the callback; the oldest is the
\* flow that goes on.
FailCallback(q) ==
  /\ Respond(q, TRUE, <<>>)
  /\ tally' = [tally EXCEPT !.failed = IF req[q].code = Newest THEN @ + 1 ELSE @]
  /\ UNCHANGED <<jar, flows, sent, redeemed, codes, appVars>>

CallbackWithoutFlow(q) ==
  /\ Handling(q, "callback", "handle")
  /\ req[q].flashes = <<>>
  /\ FailCallback(q)
  /\ UNCHANGED used

\* NewAuthorizeRequest fetches the app's metadata again and checks the request.
RecreateRequest(q) ==
  /\ Handling(q, "callback", "handle")
  /\ req[q].flashes # <<>>
  /\ req' = [req EXCEPT ![q].pc = "exchange"]
  /\ UNCHANGED <<jar, flows, sent, redeemed, codes, appVars, used, tally>>

CallbackFails(q) ==
  /\ req[q].kind = "callback"
  /\ req[q].pc = "exchange" \/ (req[q].pc = "handle" /\ req[q].flashes # <<>>)
  /\ Fault
  /\ FailCallback(q)

\* The PDS redeems a code once, for the key and the verifier of its flow.
Redeems(code, key) == code = key /\ code \notin redeemed

\* The PDS redeems the code and its answer is lost.
ExchangeLost(q) ==
  /\ Handling(q, "callback", "exchange")
  /\ Redeems(req[q].code, Head(req[q].flashes))
  /\ Fault
  /\ redeemed' = redeemed \cup {req[q].code}
  /\ Respond(q, TRUE, <<>>)
  /\ tally' = [tally EXCEPT !.lost = @ \cup {req[q].code},
                           !.failed = IF req[q].code = Newest THEN @ + 1 ELSE @]
  /\ UNCHANGED <<jar, flows, sent, codes, appVars>>

\* newAuthorizeSession: subject, client and challenge of the app's request,
\* key and verifier of the flash, and the PDS token of the code.
Sealed(form, key, code) ==
  [subject |-> flows[form].ident, client |-> flows[form].app, challenge |-> form,
   key |-> key, token |-> code]

\* Mutant: the newest flash is the app's request, the oldest the PDS flow.
FinishCallback_NewestForm(q) ==
  LET key == Head(req[q].flashes)
      code == req[q].code
      s == Sealed(Last(req[q].flashes), key, code)
  IN /\ Handling(q, "callback", "exchange")
     /\ IF Redeems(code, key)
        THEN /\ redeemed' = redeemed \cup {code}
             /\ codes' = codes \cup {s}
             /\ req' = [req EXCEPT ![q].pc = "answered", ![q].saves = TRUE,
                                   ![q].set = <<>>, ![q].sealed = s]
             /\ UNCHANGED <<jar, flows, sent, appVars, tally>>
        ELSE FailCallback(q)
     /\ UNCHANGED used

\* Mutant: the flashes stay when the PDS refuses.
FinishCallback_Keeps(q) ==
  /\ Handling(q, "callback", "exchange")
  /\ ~Redeems(req[q].code, Head(req[q].flashes))
  /\ Respond(q, FALSE, <<>>)
  /\ tally' = [tally EXCEPT !.failed = IF req[q].code = Newest THEN @ + 1 ELSE @]
  /\ UNCHANGED <<jar, flows, sent, redeemed, codes, appVars, used>>

\* Mutant: the PDS answers, and the app's request cannot be made again.
FinishCallback_Late(q) ==
  /\ Handling(q, "callback", "exchange")
  /\ Redeems(req[q].code, Head(req[q].flashes))
  /\ Fault
  /\ redeemed' = redeemed \cup {req[q].code}
  /\ Respond(q, TRUE, <<>>)
  /\ UNCHANGED <<jar, flows, sent, codes, appVars, tally>>

\* ExchangeCode with the key and the verifier of the oldest flash, then
\* NewAuthorizeResponse for its request.
FinishCallback(q) ==
  LET f == Head(req[q].flashes)
      code == req[q].code
  IN /\ Handling(q, "callback", "exchange")
     /\ IF Redeems(code, f)
        THEN /\ redeemed' = redeemed \cup {code}
             /\ codes' = codes \cup {Sealed(f, f, code)}
             /\ req' = [req EXCEPT ![q].pc = "answered", ![q].saves = TRUE,
                                   ![q].set = <<>>, ![q].sealed = Sealed(f, f, code)]
             /\ UNCHANGED <<jar, flows, sent, appVars, tally>>
        ELSE FailCallback(q)
     /\ UNCHANGED used

----------------------------------------------------------------------------
\* newAccessTokenSession: what an access token keeps of the session.
Access(s) == [subject |-> s.subject, key |-> s.key, token |-> s.token]

\* HandleToken, authorization_code: a code is good for the client and for the
\* verifier of its challenge.  The app may send it again after a lost answer;
\* InvalidateAuthorizeCodeSession does nothing.
HandleToken ==
  \E s \in held, app \in Apps, verifier \in 1..Len(flows) :
    /\ flows[verifier].app = app
    /\ s.client = app /\ s.challenge = verifier
    /\ exchanged[s.token] < MaxExchanges
    /\ tokens' = tokens \cup {Access(s)}
    /\ exchanged' = [exchanged EXCEPT ![s.token] = @ + 1]
    /\ UNCHANGED <<jar, req, flows, sent, redeemed, codes, held, puts, used, tally>>

\* Mutant: any valid token may put.
PutRecord_AnyToken ==
  \E t \in tokens, u \in Users :
    /\ puts' = [puts EXCEPT !.done = @ \cup {<<t, u>>}]
    /\ UNCHANGED <<jar, req, flows, sent, redeemed, codes, held, tokens, exchanged, used, tally>>

\* Validate and the check of Server.PutRecord: the token's subject is compared
\* with the DID of the repository's owner.
PutRecord ==
  \E t \in tokens, owner \in Users :
    /\ puts' = IF t.subject = DID(owner)
               THEN [puts EXCEPT !.done = @ \cup {<<t, owner>>}]
               ELSE [puts EXCEPT !.refused = @ \cup {<<t, owner>>}]
    /\ UNCHANGED <<jar, req, flows, sent, redeemed, codes, held, tokens, exchanged, used, tally>>

Next ==
  \/ \E q \in Slots :
       \/ SendAuthorize(q) \/ SendCallback(q) \/ Deliver(q) \/ Lose(q)
       \/ AuthorizeFails(q) \/ HandleAuthorize(q)
       \/ CallbackWithoutFlow(q) \/ RecreateRequest(q) \/ CallbackFails(q)
       \/ ExchangeLost(q) \/ FinishCallback(q)
  \/ HandleToken
  \/ PutRecord

Spec == Init /\ [][Next]_vars

----------------------------------------------------------------------------
SealedSessions == [subject : Idents, client : Apps, challenge : 1..MaxFlows,
                   key : 1..MaxFlows, token : 1..MaxFlows]

\* Type invariant.
TypeOK ==
  /\ jar \in Seq(1..Len(flows))
  /\ flows \in Seq([ident : Idents, app : Apps]) /\ redeemed \subseteq 1..Len(flows)
  /\ held \subseteq codes /\ codes \subseteq SealedSessions
  /\ tokens \subseteq [subject : Idents, key : 1..MaxFlows, token : 1..MaxFlows]

\* Whatever flows wait in the cookie and however their responses cross, the
\* user, the app, the key and the PDS token in a code are those of one flow.
CodesHoldOneFlow ==
  \A s \in codes : s = Sealed(s.token, s.token, s.token)

\* A PDS code is not redeemed for nothing: unless the PDS's answer is lost, an
\* authorization code was made from it.  What else can fail in HandleCallback
\* fails before the PDS's code is spent.
RedeemedBecomesCode == \A f \in redeemed \ tally.lost : \E s \in codes : s.token = f

\* A record is put only for the user who authenticated with the PDS.
OwnerAuthenticated ==
  \A p \in puts.done : flows[p[1].token].ident.user = p[2] /\ p[1].token \in redeemed

\* The callback of the newest flow fails at most once for each flow left behind,
\* page loaded again, request sent while another was under way, and fault: a
\* failure clears what caused it.
FailuresArePaidFor == tally.failed <= tally.disturbed + used.faults

----------------------------------------------------------------------------
\* What follows the code does not keep; TLC refutes it (README, section 4).

\* A code is exchanged once: "code is self-contained and single-use".
CodesAreSingleUse == \A f \in 1..MaxFlows : exchanged[f] <= 1

\* The check that lets "only owner" put lets the owner put: a token whose user
\* is the owner of the repository is not refused.
OwnersPutsAreServed == \A p \in puts.refused : flows[p[1].token].ident.user # p[2]
============================================================================
