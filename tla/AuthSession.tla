---------------------------- MODULE AuthSession ----------------------------
(***************************************************************************)
(* The node as an OAuth client (src/internal/auth): login, callback and    *)
(* the XRPC broker.  The server keeps nothing between requests: a session  *)
(* is the value of two cookies.  A handler works on the copy that came     *)
(* with its request, and what it saves replaces the browser's copy when    *)
(* the response arrives, whatever other responses did in between.          *)
(*                                                                         *)
(* A login attempt is a number: it names the DPoP key, the verifier and    *)
(* the code of that attempt.  A token is the attempt whose code was        *)
(* redeemed and its generation: each refresh makes the next one and spends *)
(* the one before.  The authorization server and the PDS are external.     *)
(***************************************************************************)
EXTENDS Naturals, Sequences, FiniteSets

CONSTANTS
  Accounts,     \* the identities a user may log in with
  None,         \* no value in a cookie
  Slots,        \* requests in flight at one time
  MaxLogins, MaxRequests, MaxExpiries,  \* bounds
  MaxFaults     \* transport errors, repeated nonce demands, lost responses

ASSUME AuthAssumption ==
  /\ {MaxLogins, MaxRequests, MaxExpiries, MaxFaults} \subseteq Nat
  /\ None \notin Accounts \cup {"auth", "pds"}

VARIABLES
  jar,      \* the browser's cookies: dpop-session, auth-session's flashes, did
  req,      \* [Slots -> the request, its copy of the cookies, its response]
  logins,   \* account and key of the attempts whose pushed request was accepted
  called,   \* the attempts whose callback was sent
  grants,   \* authorization server, per attempt: newest generation, bound key,
            \* newest expired generation
  used,     \* requests, expiries and faults so far (bounds)
  tally     \* history: callbacks that failed, steps that may disturb a login,
            \* requests sent while another was under way

vars == <<jar, req, logins, called, grants, used, tally>>

----------------------------------------------------------------------------
Token == [grant : 0..MaxLogins, gen : Nat]
Session == [key : 0..MaxLogins, nonce : {None, "auth", "pds"}, token : Token,
            issuer : BOOLEAN, account : Accounts \cup {None}]

ASSUME NoneAssumption == None \notin Session /\ None \notin Seq(1..MaxLogins)

NoToken == [grant |-> 0, gen |-> 0]
EmptySession ==
  [key |-> 0, nonce |-> None, token |-> NoToken, issuer |-> FALSE, account |-> None]
NoCookies == [dpop |-> None, flashes |-> None, did |-> None]
Idle == [kind |-> "none", pc |-> "idle", arg |-> None, cookie |-> EmptySession,
         sess |-> EmptySession, flashes |-> <<>>, set |-> NoCookies, answer |-> "none"]

Init ==
  /\ jar = [dpop |-> EmptySession, flashes |-> <<>>, did |-> None]
  /\ req = [q \in Slots |-> Idle]
  /\ logins = <<>>
  /\ called = {}
  /\ grants = [n \in 1..MaxLogins |-> [gen |-> 0, key |-> 0, expired |-> 0]]
  /\ used = [requests |-> 0, expiries |-> 0, faults |-> 0]
  /\ tally = [failed |-> 0, disturbed |-> 0, crossed |-> 0]

----------------------------------------------------------------------------
\* DpopHttpClient.Do: the proof carries the session's nonce, whichever server
\* it came from.  A server that wants another one says so, the session takes
\* the nonce of that answer, if it has one, and the request is signed and sent
\* once more; the second answer is returned whatever it is.
Do(s, server) ==
  {[sess |-> [s EXCEPT !.nonce = p[1]], out |-> p[2]] :
      p \in {x \in {s.nonce, server} \X {"answer", "nonce", "error"} :
              x[2] = "answer" => x[1] = server}}

Charge(out) ==
  /\ used.faults + (IF out = "answer" THEN 0 ELSE 1) <= MaxFaults
  /\ used' = [used EXCEPT !.faults = @ + (IF out = "answer" THEN 0 ELSE 1)]

\* The resource server takes an unexpired token of the account it hosts, sent
\* with a proof of the key the token is bound to.
Accepts(s) ==
  LET g == s.token.grant
  IN /\ g # 0
     /\ logins[g].account = s.account
     /\ grants[g].key = s.key
     /\ s.token.gen > grants[g].expired

\* The token endpoint: a refresh token is good for one use and for its key.
Renews(s) ==
  LET g == s.token.grant
  IN g # 0 /\ grants[g].key = s.key /\ s.token.gen = grants[g].gen

\* The token endpoint: a code is good for one use, with the verifier and the
\* key of the pushed request it answers.
Redeems(s, code, verifier) ==
  code = verifier /\ s.key = logins[code].key /\ grants[code].gen = 0

\* What it issues for a code: the first token, bound to the key of the request.
Issues(code, key) ==
  grants' = [grants EXCEPT ![code] = [gen |-> 1, key |-> key, expired |-> 0]]

\* OAuthClient.ExchangeCode and RefreshToken: any answer but a 200 is an error.
ExchangeCode(s, code, verifier) ==
  {[sess |-> d.sess, out |-> d.out,
    ok |-> d.out = "answer" /\ Redeems(d.sess, code, verifier)] : d \in Do(s, "auth")}

RefreshToken(s) ==
  {[sess |-> d.sess, out |-> d.out, ok |-> d.out = "answer" /\ Renews(d.sess)] :
      d \in Do(s, "auth")}

Respond(q, answer, cookies) ==
  req' = [req EXCEPT ![q].pc = "answered", ![q].answer = answer, ![q].set = cookies]

----------------------------------------------------------------------------
Count(b) == IF b THEN 1 ELSE 0

\* The browser sends a request with the cookies it has now.
Send(q, kind, arg, disturbs) ==
  /\ req[q].pc = "idle"
  /\ used.requests < MaxRequests
  /\ used' = [used EXCEPT !.requests = @ + 1]
  /\ req' = [req EXCEPT ![q] = [Idle EXCEPT !.kind = kind, !.pc = "handle", !.arg = arg,
               !.cookie = jar.dpop, !.sess = jar.dpop, !.flashes = jar.flashes]]
  /\ tally' = [tally EXCEPT !.disturbed = @ + Count(disturbs),
                            !.crossed = @ + Count(\E p \in Slots : req[p].pc # "idle")]
  /\ UNCHANGED <<jar, logins, grants>>

SendLogin(q) ==
  /\ \E a \in Accounts :
       Send(q, "login", a, logins # <<>> /\ Len(logins) \notin called)
  /\ UNCHANGED called

\* The authorization server sends the user back with the code of an attempt;
\* the user may reload that page, or come back to an older one.
SendCallback(q) ==
  \E n \in 1..Len(logins) :
    /\ Send(q, "callback", n, n # Len(logins) \/ n \in called)
    /\ called' = called \cup {n}

SendBroker(q) == Send(q, "broker", None, FALSE) /\ UNCHANGED called

\* The response arrives: its Set-Cookie headers replace what the browser has.
Deliver(q) ==
  /\ req[q].pc = "answered"
  /\ jar' = [c \in DOMAIN jar |->
               IF req[q].set[c] = None THEN jar[c] ELSE req[q].set[c]]
  /\ req' = [req EXCEPT ![q] = Idle]
  /\ UNCHANGED <<logins, called, grants, used, tally>>

Lose(q) ==
  /\ req[q].pc = "answered"
  /\ used.faults < MaxFaults
  /\ used' = [used EXCEPT !.faults = @ + 1]
  /\ req' = [req EXCEPT ![q] = Idle]
  /\ UNCHANGED <<jar, logins, called, grants, tally>>

----------------------------------------------------------------------------
Handling(q, kind, pc) == req[q].kind = kind /\ req[q].pc = pc

\* Mutant: no key is put into the session.
NewSession_NoKey(s, n, a) == [s EXCEPT !.account = a]

\* Mutant: a login keeps the key the cookie has.
NewSession_OldKey(s, n, a) ==
  [s EXCEPT !.key = IF s.key = 0 THEN n ELSE s.key, !.account = a]

\* newCookieSession: a fresh key and the identity, over what the cookie had.
NewSession(s, n, a) == [s EXCEPT !.key = n, !.account = a]

\* makePushedAuthorizationRequest: what the authorization server remembers of it
\* is the account it hinted at and the key that signed it.
PushedRequest(s, a) == [account |-> a, key |-> s.key]

\* OAuthClient.Authorize: one pushed request, under the key of the session.
Authorize(s, a) ==
  {[sess |-> d.sess, out |-> d.out, attempt |-> PushedRequest(d.sess, a)] :
      d \in Do(s, "auth")}

\* loginHandler.ServeHTTP.  The pushed request goes out under the new key; on
\* any failure the handler answers 500 and saves neither cookie.
Login(q) ==
  LET n == Len(logins) + 1
  IN /\ Handling(q, "login", "handle")
     /\ n <= MaxLogins
     /\ \E d \in Authorize(NewSession(req[q].sess, n, req[q].arg), req[q].arg) :
          /\ Charge(d.out)
          /\ IF d.out = "answer"
             THEN /\ logins' = Append(logins, d.attempt)
                  /\ Respond(q, "redirect", [NoCookies EXCEPT
                       !.dpop = d.sess, !.flashes = Append(req[q].flashes, n)])
             ELSE UNCHANGED logins /\ Respond(q, "error", NoCookies)
     /\ UNCHANGED <<jar, called, grants, tally>>

\* Mutant: the flashes are saved with the session, on success only.
Cleared_Not == NoCookies

\* callbackHandler.ServeHTTP.  The flashes are cleared first and for good; the
\* oldest one gives the verifier.  Only success saves the session.
Cleared == [NoCookies EXCEPT !.flashes = <<>>]

\* Mutant: the session is saved on every way out (a deferred Save).
Fail_SavesSession(q, cookies) ==
  /\ Respond(q, "error", [cookies EXCEPT !.dpop = [req[q].sess EXCEPT !.nonce = "auth"]])
  /\ tally' = [tally EXCEPT !.failed = @ + (IF req[q].arg = Len(logins) THEN 1 ELSE 0)]

Fail(q, cookies) ==
  /\ Respond(q, "error", cookies)
  /\ tally' = [tally EXCEPT !.failed = @ + (IF req[q].arg = Len(logins) THEN 1 ELSE 0)]

CallbackUnable(q) ==
  /\ Handling(q, "callback", "handle")
  /\ req[q].flashes = <<>> \/ req[q].sess.key = 0
  /\ Fail(q, Cleared)
  /\ UNCHANGED <<jar, logins, called, grants, used>>

Callback(q) ==
  LET code == req[q].arg
      verifier == Head(req[q].flashes)
  IN /\ Handling(q, "callback", "handle")
     /\ req[q].flashes # <<>> /\ req[q].sess.key # 0
     /\ \E d \in ExchangeCode(req[q].sess, code, verifier) :
          /\ Charge(d.out)
          /\ IF d.ok
             THEN /\ Issues(code, d.sess.key)
                  /\ Respond(q, "home", [dpop |-> [d.sess EXCEPT !.issuer = TRUE,
                                           !.token = [grant |-> code, gen |-> 1]],
                                         flashes |-> <<>>, did |-> d.sess.account])
                  /\ UNCHANGED tally
             ELSE Fail(q, Cleared) /\ UNCHANGED grants
     /\ UNCHANGED <<jar, logins, called>>

\* The code is redeemed and the answer is lost.
CallbackLost(q) ==
  LET code == req[q].arg
  IN /\ Handling(q, "callback", "handle")
     /\ req[q].flashes # <<>> /\ Redeems(req[q].sess, code, Head(req[q].flashes))
     /\ Charge("error")
     /\ Issues(code, req[q].sess.key)
     /\ Fail(q, Cleared)
     /\ UNCHANGED <<jar, logins, called>>

----------------------------------------------------------------------------
\* getForwardingDpopClient: a request is signed with the session's key and
\* carries its access token.
HasToken(s) == s.key # 0 /\ s.token # NoToken

\* xrpcBrokerHandler.ServeHTTP up to the first answer of the PDS.  Any answer
\* but a 401 is passed on and nothing is saved, a nonce learnt on the way
\* included.
BrokerUnable(q) ==
  /\ Handling(q, "broker", "handle")
  /\ ~HasToken(req[q].sess)
  /\ Respond(q, "error", NoCookies)
  /\ UNCHANGED <<jar, logins, called, grants, used, tally>>

BrokerForward(q) ==
  /\ Handling(q, "broker", "handle")
  /\ HasToken(req[q].sess)
  /\ \E d \in Do(req[q].sess, "pds") :
       /\ Charge(d.out)
       /\ CASE d.out = "error" -> Respond(q, "error", NoCookies)
            [] d.out = "answer" /\ Accepts(d.sess) -> Respond(q, "ok", NoCookies)
            [] OTHER -> req' = [req EXCEPT ![q].pc = "refresh", ![q].sess = d.sess]
  /\ UNCHANGED <<jar, logins, called, grants, tally>>

\* Mutant: the second try is sent with the token of the first.
BrokerRefresh_OldToken(q) ==
  LET g == req[q].sess.token.grant
  IN /\ Handling(q, "broker", "refresh")
     /\ \E d \in Do(req[q].sess, "auth") :
          /\ Charge(d.out) /\ d.out = "answer" /\ Renews(d.sess)
          /\ grants' = [grants EXCEPT ![g].gen = @ + 1]
          /\ req' = [req EXCEPT ![q].pc = "retry", ![q].sess = d.sess]
     /\ UNCHANGED <<jar, logins, called, tally>>

\* refreshSession: a refusal is answered 401 and saves nothing; success saves
\* the cookie before the request is sent again.
BrokerRefresh(q) ==
  LET g == req[q].sess.token.grant
      next == [grant |-> g, gen |-> req[q].sess.token.gen + 1]
  IN /\ Handling(q, "broker", "refresh")
     /\ \E d \in RefreshToken(req[q].sess) :
          /\ Charge(d.out)
          /\ IF d.ok /\ req[q].sess.issuer
             THEN /\ grants' = [grants EXCEPT ![g].gen = next.gen]
                  /\ LET s == [d.sess EXCEPT !.token = next]
                     IN req' = [req EXCEPT ![q].pc = "retry", ![q].sess = s,
                                           ![q].set = [NoCookies EXCEPT !.dpop = s]]
             ELSE UNCHANGED grants /\ Respond(q, "unauthorized", NoCookies)
     /\ UNCHANGED <<jar, logins, called, tally>>

\* The refresh token is spent and the answer is lost: the browser keeps it.
RefreshLost(q) ==
  /\ Handling(q, "broker", "refresh")
  /\ req[q].sess.issuer /\ Renews(req[q].sess)
  /\ Charge("error")
  /\ grants' = [grants EXCEPT ![req[q].sess.token.grant].gen = @ + 1]
  /\ Respond(q, "unauthorized", NoCookies)
  /\ UNCHANGED <<jar, logins, called, tally>>

\* Mutant: the renewed session is not saved when the second try is served.
BrokerRetry_NoSave(q) ==
  /\ Handling(q, "broker", "retry")
  /\ \E d \in Do(req[q].sess, "pds") : Charge(d.out) /\ Respond(q, "ok", NoCookies)
  /\ UNCHANGED <<jar, logins, called, grants, tally>>

\* The second try: its answer is passed on, a 401 too, and the session saved
\* again; after a transport error the first save is what the response carries.
BrokerRetry(q) ==
  /\ Handling(q, "broker", "retry")
  /\ \E d \in Do(req[q].sess, "pds") :
       /\ Charge(d.out)
       /\ CASE d.out = "error" -> Respond(q, "error", req[q].set)
            [] d.out = "answer" /\ Accepts(d.sess) ->
                 Respond(q, "ok", [NoCookies EXCEPT !.dpop = d.sess])
            [] OTHER -> Respond(q, "unauthorized", [NoCookies EXCEPT !.dpop = d.sess])
  /\ UNCHANGED <<jar, logins, called, grants, tally>>

\* Time passes: the newest access token of a grant expires.
Expire ==
  \E n \in 1..MaxLogins :
    /\ used.expiries < MaxExpiries
    /\ grants[n].expired < grants[n].gen
    /\ grants' = [grants EXCEPT ![n].expired = grants[n].gen]
    /\ used' = [used EXCEPT !.expiries = @ + 1]
    /\ UNCHANGED <<jar, req, logins, called, tally>>

Next ==
  \/ \E q \in Slots :
       \/ SendLogin(q) \/ SendCallback(q) \/ SendBroker(q) \/ Deliver(q) \/ Lose(q)
       \/ Login(q) \/ CallbackUnable(q) \/ Callback(q) \/ CallbackLost(q)
       \/ BrokerUnable(q) \/ BrokerForward(q) \/ BrokerRefresh(q)
       \/ RefreshLost(q) \/ BrokerRetry(q)
  \/ Expire

Spec == Init /\ [][Next]_vars

----------------------------------------------------------------------------
\* The token of a session is bound to the session's key.
Bound(s) == s.token # NoToken /\ grants[s.token.grant].key = s.key

Cookies == [dpop : Session \cup {None}, flashes : Seq(1..MaxLogins) \cup {None},
            did : Accounts \cup {None}]
Request == [kind : {"none", "login", "callback", "broker"},
            pc : {"idle", "handle", "refresh", "retry", "answered"},
            arg : Accounts \cup 1..MaxLogins \cup {None},
            cookie : Session, sess : Session, flashes : Seq(1..MaxLogins), set : Cookies,
            answer : {"none", "redirect", "home", "ok", "unauthorized", "error"}]
Grant == [gen : Nat, key : 0..MaxLogins, expired : Nat]

\* Type invariant.
TypeOK ==
  /\ jar \in [dpop : Session, flashes : Seq(1..MaxLogins), did : Accounts \cup {None}]
  /\ req \in [Slots -> Request]
  /\ logins \in Seq([account : Accounts, key : 1..MaxLogins]) /\ Len(logins) <= MaxLogins
  /\ called \subseteq 1..Len(logins)
  /\ grants \in [1..MaxLogins -> Grant]
  /\ \A n \in 1..MaxLogins : grants[n].expired <= grants[n].gen
  /\ used \in [requests : Nat, expiries : Nat, faults : Nat]
  /\ tally \in [failed : Nat, disturbed : Nat, crossed : Nat]

\* Whatever tabs, late responses and abandoned logins did to the cookie, a
\* token that works under the cookie's key is a token of the account the
\* cookie names: identity, key and token never come from two logins.
TokenOfIdentity == Bound(jar.dpop) =>
  logins[jar.dpop.token.grant].account = jar.dpop.account

\* A callback or a brokered request that changes the browser's session leaves
\* it a token that fits its key, be the response late or overtaken: a session
\* is saved only with a token that was just issued for its key.
NewTokenFitsKey ==
  [][\A q \in Slots :
       req[q].kind # "login" /\ Deliver(q) /\ jar'.dpop # jar.dpop
         => Bound(jar.dpop)']_vars

\* So far one request was made after the other, and nothing failed.
Quiet == tally.crossed = 0 /\ used.faults = 0

\* With one request at a time and no fault, the browser never holds a spent
\* refresh token under the right key: every rotation reaches the cookie.
RotationReachesBrowser ==
  Quiet /\ (\A q \in Slots : req[q].pc = "idle") /\ Bound(jar.dpop)
    => jar.dpop.token.gen = grants[jar.dpop.token.grant].gen

\* With one request at a time and no fault, a request sent with a token bound
\* to its key is served, expired or not, and whichever server's nonce the
\* session had: one retry per call and one refresh are enough, unless the new token
\* expires too before it is used.
BoundTokenIsServed ==
  \A q \in Slots :
    Quiet /\ req[q].kind = "broker" /\ req[q].pc = "answered" /\ Bound(req[q].cookie)
      => \/ req[q].answer = "ok"
         \/ grants[req[q].cookie.token.grant].expired > req[q].cookie.token.gen

\* The callback of the newest login fails at most once for each login left
\* behind, callback repeated and fault before it, and for each of two requests
\* that were under way together: a failure clears the states that caused it.
FailuresArePaidFor == tally.failed <= tally.disturbed + 2 * tally.crossed + used.faults

============================================================================
