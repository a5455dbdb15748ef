------------------------- MODULE AuthSessionProofs -------------------------
(***************************************************************************)
(* Proofs about AuthSession, for any number of requests in flight, logins  *)
(* and accounts.                                                           *)
(*                                                                         *)
(* Sessions are copied: into requests, into the handlers' variables and    *)
(* into responses, and a copy lives on while the rest changes.  So what    *)
(* the invariants say, they say of every copy.                             *)
(***************************************************************************)
EXTENDS AuthSession, FiniteSetTheorems, SequenceTheorems, TLAPS

(* A copy of a session: its key is that of an attempt for its account, and *)
(* its token one that was issued in the answer to some attempt.            *)
Sound(s) ==
  /\ s.key <= Len(logins)
  /\ s.key # 0 => logins[s.key].account = s.account
  /\ \/ s.token = NoToken
     \/ /\ s.token.grant \in 1..Len(logins) /\ s.issuer
        /\ s.token.gen \in 1..grants[s.token.grant].gen

(* The authorization server has the key of the attempt, and issues nothing *)
(* but to the attempts it knows.                                           *)
Granted ==
  /\ \A n \in 1..Len(logins) : logins[n].key = n
  /\ \A n \in 1..MaxLogins : grants[n].gen # 0 => n <= Len(logins) /\ grants[n].key = n

(* What a request is at each point of its handler.                         *)
Placed(r) ==
  /\ r.pc = "idle" => r = Idle
  /\ r.pc # "idle" => r.kind # "none"
  /\ r.pc = "handle" => r.set = NoCookies /\ r.sess = r.cookie
  /\ r.pc \in {"refresh", "retry"} => r.kind = "broker"
  /\ r.kind = "login" => r.arg \in Accounts
  /\ r.kind = "callback" => r.arg \in called

Copied(r) ==
  /\ Sound(r.cookie) /\ Sound(r.sess)
  /\ r.set.dpop # None => Sound(r.set.dpop)

(* What is saved, except by a login, fits its key.                         *)
Issued(r) ==
  /\ r.kind # "login" /\ r.set.dpop # None => Bound(r.set.dpop)
  /\ r.pc = "retry" => Bound(r.sess)

RequestOK(r) == Placed(r) /\ Copied(r) /\ Issued(r)

(* The inductive invariant.                                                *)
IInv ==
  /\ TypeOK /\ Granted /\ Sound(jar.dpop)
  /\ \A q \in Slots : RequestOK(req[q])

-----------------------------------------------------------------------------
(* The values of the beginning have their types.                           *)
LEMMA Constants ==
  /\ NoToken \in Token /\ EmptySession \in Session /\ NoCookies \in Cookies
  /\ Idle \in Request
  /\ EmptySession # None
<1>1. MaxLogins \in Nat
  BY AuthAssumption
<1>2. NoToken \in Token /\ EmptySession \in Session /\ NoCookies \in Cookies
  BY <1>1 DEF NoToken, Token, EmptySession, Session, NoCookies, Cookies
<1>3. <<>> \in Seq(1..MaxLogins)
  OBVIOUS
<1>. QED
  BY <1>2, <1>3, NoneAssumption DEF Idle, Request

(* Before the first login nothing is known of anybody.                     *)
LEMMA InitOK == Init => IInv
<1>. SUFFICES ASSUME Init PROVE IInv
  OBVIOUS
<1>1. MaxLogins \in Nat
  BY AuthAssumption
<1>2. TypeOK
  BY <1>1, Constants DEF Init, TypeOK, Grant
<1>3. Granted
  BY <1>1 DEF Init, Granted
<1>4. Sound(EmptySession)
  BY DEF Init, Sound, EmptySession
<1>5. RequestOK(Idle)
  BY <1>4 DEF RequestOK, Placed, Copied, Issued, Idle, NoCookies
<1>. QED
  BY <1>2, <1>3, <1>4, <1>5 DEF Init, IInv

(* A request to the other side changes the nonce of a session, if anything. *)
LEMMA DoKeeps ==
  ASSUME NEW s \in Session, NEW server \in {"auth", "pds"}, NEW d \in Do(s, server)
  PROVE  /\ d.sess \in Session /\ d.out \in {"answer", "nonce", "error"}
         /\ d.sess = [s EXCEPT !.nonce = d.sess.nonce]
         /\ d.out = "answer" => d.sess.nonce = server
<1>1. PICK p \in {s.nonce, server} \X {"answer", "nonce", "error"} :
         /\ p[2] = "answer" => p[1] = server
         /\ d = [sess |-> [s EXCEPT !.nonce = p[1]], out |-> p[2]]
  BY DEF Do
<1>2. p[1] \in {s.nonce, server} /\ p[2] \in {"answer", "nonce", "error"}
  BY <1>1
<1>3. p[1] \in {None, "auth", "pds"}
  BY <1>2 DEF Session
<1>. QED
  BY <1>1, <1>2, <1>3 DEF Session

(* The nonce is of no account.                                             *)
LEMMA NonceIsFree ==
  ASSUME NEW s \in Session, NEW n, NEW z, z = [s EXCEPT !.nonce = n]
  PROVE  /\ Sound(s) => Sound(z)
         /\ Bound(s) <=> Bound(z)
BY DEF Sound, Bound, Session

(* Attempts stay, tokens are only added, and callbacks are not unsent.     *)
Grows ==
  /\ Len(logins) <= Len(logins')
  /\ \A n \in 1..Len(logins) : logins'[n] = logins[n]
  /\ \A n \in 1..MaxLogins :
       /\ grants[n].gen <= grants'[n].gen
       /\ grants[n].gen # 0 => grants'[n].key = grants[n].key
  /\ called \subseteq called'

(* The types of all but the requests.                                      *)
RestTyped ==
  /\ jar \in [dpop : Session, flashes : Seq(1..MaxLogins), did : Accounts \cup {None}]
  /\ logins \in Seq([account : Accounts, key : 1..MaxLogins]) /\ Len(logins) <= MaxLogins
  /\ called \subseteq 1..Len(logins)
  /\ grants \in [1..MaxLogins -> Grant]
  /\ \A n \in 1..MaxLogins : grants[n].expired <= grants[n].gen
  /\ used \in [requests : Nat, expiries : Nat, faults : Nat]
  /\ tally \in [failed : Nat, disturbed : Nat, crossed : Nat]

(* So what is true of a copy stays true.                                   *)
LEMMA SoundStays ==
  ASSUME RestTyped, RestTyped', Grows, NEW s \in Session, Sound(s)
  PROVE  Sound(s)' /\ (Bound(s) => Bound(s)')
<1>1. MaxLogins \in Nat /\ Len(logins) \in 0..MaxLogins /\ Len(logins') \in 0..MaxLogins
  <2>1. MaxLogins \in Nat
    BY AuthAssumption
  <2>2. Len(logins) \in Nat /\ Len(logins') \in Nat
    BY DEF RestTyped
  <2>. QED
    BY <2>1, <2>2 DEF RestTyped
<1>2. s.key \in 0..MaxLogins /\ s.token.gen \in Nat
  BY <1>1 DEF Session, Token
<1>3. \A n \in 1..MaxLogins : grants[n].gen \in Nat /\ grants'[n].gen \in Nat
  BY DEF RestTyped, Grant
<1>4. CASE s.token = NoToken
  BY <1>1, <1>2, <1>4 DEF Sound, Bound, Grows
<1>5. CASE s.token # NoToken
  <2>1. /\ s.token.grant \in 1..Len(logins) /\ s.issuer
        /\ s.token.gen \in 1..grants[s.token.grant].gen
    BY <1>5 DEF Sound
  <2>2. s.token.grant \in 1..MaxLogins /\ s.token.grant \in 1..Len(logins')
    BY <1>1, <2>1 DEF Grows
  <2>3. /\ grants[s.token.grant].gen # 0
        /\ grants'[s.token.grant].gen \in Nat
        /\ grants[s.token.grant].gen <= grants'[s.token.grant].gen
        /\ grants'[s.token.grant].key = grants[s.token.grant].key
    BY <1>3, <2>1, <2>2 DEF Grows
  <2>. QED
    BY <1>1, <1>2, <1>3, <2>1, <2>2, <2>3 DEF Sound, Bound, Grows
<1>. QED
  BY <1>4, <1>5

(* A step that changes one request, and lets the rest grow.                *)
LEMMA OneRequest ==
  ASSUME IInv, Grows, RestTyped', Granted', Sound(jar.dpop)',
         NEW q \in Slots, NEW r \in Request, req' = [req EXCEPT ![q] = r],
         RequestOK(r)'
  PROVE  IInv'
<1>1. ASSUME NEW p \in Slots, p # q
      PROVE  RequestOK(req[p])'
  <2>1. PICK s \in Request : s = req[p]
    BY DEF IInv, TypeOK
  <2>2. req'[p] = s /\ RequestOK(s)
    BY <1>1, <2>1 DEF IInv, TypeOK
  <2>3. s.cookie \in Session /\ s.sess \in Session /\ s.set.dpop \in Session \cup {None}
    BY DEF Request, Cookies
  <2>. RestTyped
    BY DEF IInv, TypeOK, RestTyped
  <2>4. Placed(s)'
    BY <2>2 DEF RequestOK, Placed, Grows
  <2>5. Copied(s)'
    BY <2>2, <2>3, SoundStays DEF RequestOK, Copied, IInv
  <2>6. Issued(s)'
    BY <2>2, <2>3, SoundStays DEF RequestOK, Issued, Copied, IInv
  <2>7. Placed(req[p])'
    BY <2>2, <2>4 DEF Placed
  <2>8. Copied(req[p])'
    BY <2>2, <2>5 DEF Copied, Sound
  <2>9. Issued(req[p])'
    BY <2>2, <2>6 DEF Issued, Bound
  <2>. QED
    BY <2>7, <2>8, <2>9 DEF RequestOK
<1>2. RequestOK(req[q])'
  <2>1. req'[q] = r
    BY DEF IInv, TypeOK
  <2>. QED
    BY <2>1 DEF RequestOK, Placed, Copied, Issued, Sound, Bound
<1>3. TypeOK'
  BY DEF IInv, TypeOK, RestTyped
<1>. QED
  BY <1>1, <1>2, <1>3 DEF IInv

(* A handler that answers with cookies that are sound.                     *)
LEMMA Responds ==
  ASSUME IInv, Grows, RestTyped', Granted', UNCHANGED jar,
         NEW q \in Slots, req[q].pc \in {"handle", "refresh", "retry"},
         NEW answer \in {"redirect", "home", "ok", "unauthorized", "error"},
         NEW cookies \in Cookies, Respond(q, answer, cookies),
         cookies.dpop # None =>
           /\ Sound(cookies.dpop)'
           /\ req[q].kind # "login" => Bound(cookies.dpop)'
  PROVE  IInv'
<1>. DEFINE r == [req[q] EXCEPT !.pc = "answered", !.answer = answer, !.set = cookies]
<1>1. req[q] \in Request /\ RequestOK(req[q])
  BY DEF IInv, TypeOK
<1>2. PICK s \in Request : s = req[q]
  BY <1>1
<1>3. s.cookie \in Session /\ s.sess \in Session /\ RequestOK(s) /\ RestTyped
  BY <1>1, <1>2 DEF Request, IInv, TypeOK, RestTyped
<1>4. /\ r \in Request /\ r.pc = "answered" /\ r.set = cookies
      /\ r.kind = s.kind /\ r.arg = s.arg /\ r.cookie = s.cookie /\ r.sess = s.sess
  BY <1>2 DEF Request
<1>5. req' = [req EXCEPT ![q] = r]
  BY <1>1 DEF Respond, IInv, TypeOK, Request
<1>6. Sound(s.cookie)' /\ Sound(s.sess)'
  BY <1>3, SoundStays DEF RequestOK, Copied
<1>. HIDE DEF r
<1>7. PICK z \in Request : z = r
  BY <1>4
<1>8. RequestOK(z)'
  <2>1. Placed(z)'
    BY <1>2, <1>3, <1>4, <1>7 DEF RequestOK, Placed, Grows
  <2>2. Copied(z)'
    BY <1>4, <1>6, <1>7 DEF Copied
  <2>3. Issued(z)'
    BY <1>2, <1>4, <1>7 DEF Issued
  <2>. QED
    BY <2>1, <2>2, <2>3 DEF RequestOK
<1>9. Sound(jar.dpop)'
  <2>1. PICK j \in Session : j = jar.dpop
    BY <1>3 DEF RestTyped
  <2>2. Sound(j) /\ j = jar'.dpop
    BY <2>1 DEF IInv
  <2>. QED
    BY <1>3, <2>2, SoundStays DEF Sound
<1>. QED
  BY <1>5, <1>7, <1>8, <1>9, OneRequest

(* Nothing is known anew, and nothing forgotten.                           *)
LEMMA Unchanged ==
  ASSUME IInv, UNCHANGED <<logins, grants>>, called \subseteq called'
  PROVE  Grows /\ Granted'
<1>1. \A n \in 1..MaxLogins : grants[n].gen \in Nat
  BY DEF IInv, TypeOK, Grant
<1>2. Len(logins) \in Nat
  BY DEF IInv, TypeOK
<1>. QED
  BY <1>1, <1>2 DEF Grows, Granted, IInv

(* The browser sends a request.                                            *)
LEMMA SendStep ==
  ASSUME IInv, NEW q \in Slots, NEW kind \in {"login", "callback", "broker"},
         NEW arg \in Accounts \cup 1..MaxLogins \cup {None},
         NEW disturbs \in BOOLEAN, Send(q, kind, arg, disturbs),
         kind = "login" => arg \in Accounts,
         kind = "callback" => arg \in called',
         called \subseteq called', called' \subseteq 1..Len(logins)
  PROVE  IInv'
<1>. DEFINE r == [Idle EXCEPT !.kind = kind, !.pc = "handle", !.arg = arg,
               !.cookie = jar.dpop, !.sess = jar.dpop, !.flashes = jar.flashes]
<1>1. Grows /\ Granted'
  BY Unchanged DEF Send
<1>2. RestTyped'
  <2>1. used' \in [requests : Nat, expiries : Nat, faults : Nat]
    <3>1. used \in [requests : Nat, expiries : Nat, faults : Nat]
      BY DEF IInv, TypeOK
    <3>2. used' = [used EXCEPT !.requests = @ + 1]
      BY DEF Send
    <3>. QED
      BY <3>1, <3>2
  <2>2. tally' \in [failed : Nat, disturbed : Nat, crossed : Nat]
    <3>1. tally \in [failed : Nat, disturbed : Nat, crossed : Nat]
      BY DEF IInv, TypeOK
    <3>2. PICK m \in Nat, n \in Nat :
            tally' = [tally EXCEPT !.disturbed = @ + m, !.crossed = @ + n]
      BY DEF Send, Count
    <3>3. tally.disturbed + m \in Nat /\ tally.crossed + n \in Nat
      BY <3>1
    <3>. QED
      BY <3>1, <3>2, <3>3
  <2>. QED
    BY <2>1, <2>2 DEF IInv, TypeOK, RestTyped, Send
<1>3. PICK j \in Session : j = jar.dpop /\ Sound(j) /\ Sound(j)'
  BY <1>1, <1>2, SoundStays DEF IInv, TypeOK, RestTyped
<1>4. r \in Request
  BY Constants DEF IInv, TypeOK, Request
<1>5. /\ r.kind = kind /\ r.pc = "handle" /\ r.arg = arg /\ r.cookie = j /\ r.sess = j
      /\ r.set = NoCookies
  BY <1>3 DEF Idle
<1>6. req' = [req EXCEPT ![q] = r]
  BY DEF Send
<1>. HIDE DEF r
<1>7. PICK z \in Request : z = r
  BY <1>4
<1>8. RequestOK(z)'
  BY <1>3, <1>5, <1>7 DEF RequestOK, Placed, Copied, Issued, NoCookies
<1>9. Sound(jar.dpop)'
  BY <1>3 DEF Send, Sound
<1>. QED
  BY <1>1, <1>2, <1>6, <1>7, <1>8, <1>9, OneRequest

(* What a call to the other side costs.                                    *)
LEMMA ChargeTyped ==
  ASSUME IInv, NEW out, Charge(out)
  PROVE  used' \in [requests : Nat, expiries : Nat, faults : Nat]
<1>1. used \in [requests : Nat, expiries : Nat, faults : Nat]
  BY DEF IInv, TypeOK
<1>2. PICK m \in Nat : used' = [used EXCEPT !.faults = @ + m]
  BY DEF Charge
<1>3. used.faults + m \in Nat
  BY <1>1
<1>. QED
  BY <1>1, <1>2, <1>3

LEMMA FailTyped ==
  ASSUME IInv, NEW q, NEW cookies, Fail(q, cookies)
  PROVE  tally' \in [failed : Nat, disturbed : Nat, crossed : Nat]
<1>1. tally \in [failed : Nat, disturbed : Nat, crossed : Nat]
  BY DEF IInv, TypeOK
<1>2. PICK m \in Nat : tally' = [tally EXCEPT !.failed = @ + m]
  BY DEF Fail
<1>3. tally.failed + m \in Nat
  BY <1>1
<1>. QED
  BY <1>1, <1>2, <1>3

(* The numbers of the attempts.                                            *)
LEMMA Attempts ==
  ASSUME IInv
  PROVE  /\ MaxLogins \in Nat /\ Len(logins) \in 0..MaxLogins /\ 1..Len(logins) \subseteq 1..MaxLogins
         /\ \A n \in 1..MaxLogins : grants[n] \in Grant /\ grants[n].gen \in Nat
<1>1. MaxLogins \in Nat
  BY AuthAssumption
<1>2. Len(logins) \in Nat /\ Len(logins) <= MaxLogins
  BY DEF IInv, TypeOK
<1>3. \A n \in 1..MaxLogins : grants[n] \in Grant
  BY DEF IInv, TypeOK
<1>. QED
  BY <1>1, <1>2, <1>3 DEF Grant

(* Cookies without a session tell the browser nothing.                     *)
LEMMA PlainCookies ==
  /\ NoCookies \in Cookies /\ NoCookies.dpop = None
  /\ Cleared \in Cookies /\ Cleared.dpop = None /\ Cleared.flashes = <<>>
<1>1. <<>> \in Seq(1..MaxLogins)
  OBVIOUS
<1>. QED
  BY <1>1 DEF Cleared, NoCookies, Cookies

(* What a request has is sound.                                            *)
LEMMA RequestIs ==
  ASSUME IInv, NEW q \in Slots
  PROVE  /\ req[q] \in Request /\ RequestOK(req[q])
         /\ req[q].sess \in Session /\ Sound(req[q].sess)
         /\ req[q].cookie \in Session /\ Sound(req[q].cookie)
BY DEF IInv, TypeOK, Request, RequestOK, Copied

(* A login adds an attempt, whose key is new.                              *)
LEMMA LoginStep ==
  ASSUME IInv, NEW q \in Slots, Login(q)
  PROVE  IInv'
<1>. DEFINE n == Len(logins) + 1
             s == NewSession(req[q].sess, n, req[q].arg)
<1>1. /\ req[q].kind = "login" /\ req[q].pc = "handle" /\ n <= MaxLogins /\ n \in 1..MaxLogins
      /\ req[q].arg \in Accounts
  BY RequestIs, Attempts DEF Login, Handling, RequestOK, Placed
<1>2. s \in Session /\ s.key = n /\ s.account = req[q].arg /\ s.token = req[q].sess.token
      /\ s.issuer = req[q].sess.issuer
  <2>1. PICK z \in Session : z = req[q].sess
    BY RequestIs
  <2>2. s = [z EXCEPT !.key = n, !.account = req[q].arg]
    BY <2>1 DEF NewSession
  <2>3. n \in 0..MaxLogins /\ req[q].arg \in Accounts \cup {None}
    BY <1>1, Attempts
  <2>. HIDE DEF s, n
  <2>. QED
    BY <2>1, <2>2, <2>3 DEF Session
<1>. HIDE DEF s
<1>3. PICK d \in Authorize(s, req[q].arg) :
        /\ Charge(d.out)
        /\ IF d.out = "answer"
           THEN /\ logins' = Append(logins, d.attempt)
                /\ Respond(q, "redirect", [NoCookies EXCEPT
                     !.dpop = d.sess, !.flashes = Append(req[q].flashes, n)])
           ELSE UNCHANGED logins /\ Respond(q, "error", NoCookies)
  BY DEF Login, s
<1>4. PICK e \in Do(s, "auth") : d = [sess |-> e.sess, out |-> e.out, attempt |-> PushedRequest(e.sess, req[q].arg)]
  BY DEF Authorize
<1>5. /\ d.sess \in Session /\ d.sess = [s EXCEPT !.nonce = d.sess.nonce]
      /\ d.attempt = [account |-> req[q].arg, key |-> n]
  BY <1>2, <1>4, DoKeeps DEF PushedRequest, Session
<1>6. UNCHANGED <<jar, called, grants, tally>>
  BY DEF Login
<1>7. used' \in [requests : Nat, expiries : Nat, faults : Nat]
  BY <1>3, ChargeTyped
<1>8. CASE d.out = "answer"
  <2>. DEFINE c == [NoCookies EXCEPT !.dpop = d.sess, !.flashes = Append(req[q].flashes, n)]
  <2>1. logins' = Append(logins, d.attempt) /\ Respond(q, "redirect", c)
    BY <1>3, <1>8
  <2>2. d.attempt \in [account : Accounts, key : 1..MaxLogins]
    BY <1>1, <1>5
  <2>3. /\ logins' \in Seq([account : Accounts, key : 1..MaxLogins])
        /\ Len(logins') = n /\ logins'[n] = d.attempt
        /\ \A i \in 1..Len(logins) : logins'[i] = logins[i]
    BY <2>1, <2>2, AppendProperties DEF IInv, TypeOK
  <2>4. Grows
    BY <1>6, <2>3, Attempts DEF Grows
  <2>5. RestTyped'
    BY <1>1, <1>6, <1>7, <2>3, Attempts DEF RestTyped, IInv, TypeOK
  <2>6. Granted'
    <3>1. \A i \in 1..Len(logins) : logins[i].key = i
      BY DEF IInv, Granted
    <3>2. \A i \in 1..Len(logins') : i = n \/ i \in 1..Len(logins)
      BY <2>3, Attempts
    <3>3. logins'[n].key = n
      BY <1>5, <2>3
    <3>4. \A i \in 1..Len(logins') : logins'[i].key = i
      BY <2>3, <3>1, <3>2, <3>3
    <3>5. \A i \in 1..MaxLogins : grants'[i].gen # 0 => i <= Len(logins') /\ grants'[i].key = i
      BY <1>6, <2>3, Attempts DEF IInv, Granted
    <3>. QED
      BY <3>4, <3>5 DEF Granted
  <2>7. c \in Cookies /\ c.dpop = d.sess
    <3>1. Append(req[q].flashes, n) \in Seq(1..MaxLogins)
      BY <1>1, RequestIs, AppendProperties DEF Request
    <3>. QED
      BY <1>5, <3>1, PlainCookies DEF Cookies, NoCookies
  <2>8. Sound(d.sess)'
    <3>1. PICK z \in Session : z = req[q].sess
      BY RequestIs
    <3>2. Sound(z)'
      BY <2>4, <2>5, <3>1, SoundStays, RequestIs DEF IInv, TypeOK, RestTyped
    <3>3. d.sess.key = n /\ d.sess.account = req[q].arg /\ d.sess.token = z.token /\ d.sess.issuer = z.issuer
      BY <1>2, <1>5, <3>1 DEF Session
    <3>. QED
      BY <1>1, <1>5, <2>3, <3>2, <3>3 DEF Sound
  <2>. HIDE DEF c
  <2>9. PICK z \in Session : z = d.sess
    BY <1>5
  <2>. QED
    BY <1>1, <1>6, <2>1, <2>4, <2>5, <2>6, <2>7, <2>8, Responds
<1>9. CASE d.out # "answer"
  <2>1. UNCHANGED <<logins, grants>> /\ Respond(q, "error", NoCookies)
    BY <1>3, <1>6, <1>9
  <2>2. Grows /\ Granted'
    BY <1>6, <2>1, Unchanged
  <2>3. RestTyped'
    BY <1>6, <1>7, <2>1 DEF RestTyped, IInv, TypeOK
  <2>. QED
    BY <1>1, <1>6, <2>1, <2>2, <2>3, PlainCookies, Responds
<1>. QED
  BY <1>8, <1>9

(* A request of a callback is about an attempt there is.                   *)
LEMMA CallbackIs ==
  ASSUME IInv, NEW q \in Slots, req[q].kind = "callback"
  PROVE  req[q].arg \in 1..Len(logins) /\ req[q].arg \in 1..MaxLogins /\ req[q].arg \in called
BY RequestIs, Attempts DEF RequestOK, Placed, IInv, TypeOK

(* What a redeemed code leaves with the authorization server.              *)
LEMMA Redeemed ==
  ASSUME IInv, NEW code \in 1..Len(logins), NEW s \in Session, Redeems(s, code, code),
         Issues(code, s.key),
         UNCHANGED <<logins, called>>
  PROVE  /\ Grows /\ Granted' /\ s.key = code
         /\ grants' \in [1..MaxLogins -> Grant]
         /\ \A n \in 1..MaxLogins : grants'[n].expired <= grants'[n].gen
         /\ grants'[code].gen = 1 /\ grants'[code].key = code
         /\ \A n \in (1..MaxLogins) \ {code} : grants'[n] = grants[n]
<1>1. code \in 1..MaxLogins /\ s.key = code /\ grants[code].gen = 0
  BY Attempts DEF Redeems, IInv, Granted
<1>. DEFINE new == [gen |-> 1, key |-> code, expired |-> 0]
<1>2. new \in Grant
  BY <1>1, Attempts DEF Grant
<1>3. grants \in [1..MaxLogins -> Grant] /\ new.gen = 1 /\ new.key = code /\ new.expired = 0
  BY DEF IInv, TypeOK
<1>4. grants' = [grants EXCEPT ![code] = new]
  BY <1>1 DEF Issues
<1>. HIDE DEF new
<1>5. /\ grants'[code] = new /\ grants' \in [1..MaxLogins -> Grant]
      /\ \A n \in (1..MaxLogins) \ {code} : grants'[n] = grants[n]
  BY <1>1, <1>2, <1>3, <1>4
<1>6. \A n \in 1..MaxLogins : grants'[n].expired <= grants'[n].gen
  BY <1>3, <1>1, <1>2, <1>5 DEF IInv, TypeOK
<1>7. Grows
  BY <1>1, <1>3, <1>5, Attempts DEF Grows
<1>8. Granted'
  BY <1>1, <1>3, <1>5, Attempts DEF Granted, IInv
<1>. QED
  BY <1>1, <1>3, <1>5, <1>6, <1>7, <1>8

(* What a renewed token leaves with it.                                    *)
LEMMA Renewed ==
  ASSUME IInv, NEW s \in Session, Sound(s), s.token # NoToken, Renews(s),
         grants' = [grants EXCEPT ![s.token.grant].gen = s.token.gen + 1],
         UNCHANGED <<logins, called>>
  PROVE  /\ Grows /\ Granted'
         /\ s.token.grant \in 1..Len(logins) /\ s.token.grant \in 1..MaxLogins
         /\ s.token.gen \in Nat /\ grants[s.token.grant].gen = s.token.gen
         /\ grants' \in [1..MaxLogins -> Grant]
         /\ \A n \in 1..MaxLogins : grants'[n].expired <= grants'[n].gen
         /\ grants'[s.token.grant].gen = s.token.gen + 1
         /\ \A n \in 1..MaxLogins : /\ grants'[n].key = grants[n].key
                                    /\ n # s.token.grant => grants'[n] = grants[n]
<1>. DEFINE g == s.token.grant
<1>1. /\ g \in 1..Len(logins) /\ g \in 1..MaxLogins /\ s.token.gen \in Nat
      /\ grants[g].gen = s.token.gen /\ s.token.gen # 0
  BY Attempts DEF Sound, Renews, Session, Token
<1>2. /\ grants[g] \in Grant /\ grants[g].expired \in Nat /\ grants[g].expired <= grants[g].gen
      /\ s.token.gen + 1 \in Nat
  <2>1. grants[g] \in Grant /\ grants[g].expired <= grants[g].gen
    BY <1>1 DEF IInv, TypeOK
  <2>. HIDE DEF g
  <2>. QED
    BY <1>1, <2>1 DEF Grant
<1>. DEFINE new == [grants[g] EXCEPT !.gen = s.token.gen + 1]
<1>3. new \in Grant /\ new.key = grants[g].key /\ new.expired = grants[g].expired
      /\ new.gen = s.token.gen + 1
  BY <1>2 DEF Grant
<1>4. /\ grants'[g] = new /\ grants' \in [1..MaxLogins -> Grant]
      /\ \A n \in (1..MaxLogins) \ {g} : grants'[n] = grants[n]
  BY <1>1, <1>3 DEF IInv, TypeOK
<1>. HIDE DEF new, g
<1>5. \A n \in 1..MaxLogins : grants'[n].expired <= grants'[n].gen
  <2>1. grants'[g].expired <= grants'[g].gen
    BY <1>1, <1>2, <1>3, <1>4
  <2>. QED
    BY <1>4, <2>1 DEF IInv, TypeOK
<1>6. Grows
  BY <1>1, <1>2, <1>3, <1>4, Attempts DEF Grows
<1>7. Granted'
  BY <1>1, <1>3, <1>4, Attempts DEF Granted, IInv
<1>. QED
  BY <1>1, <1>3, <1>4, <1>5, <1>6, <1>7 DEF g

(* A callback that does not get as far as the exchange.                    *)
LEMMA CallbackUnableStep ==
  ASSUME IInv, NEW q \in Slots, CallbackUnable(q)
  PROVE  IInv'
<1>1. /\ req[q].pc = "handle" /\ Respond(q, "error", Cleared)
      /\ UNCHANGED <<jar, logins, called, grants, used>>
  BY DEF CallbackUnable, Handling, Fail
<1>2. Grows /\ Granted'
  BY <1>1, Unchanged
<1>3. tally' \in [failed : Nat, disturbed : Nat, crossed : Nat]
  BY FailTyped DEF CallbackUnable
<1>4. RestTyped'
  BY <1>1, <1>3 DEF RestTyped, IInv, TypeOK
<1>. QED
  BY <1>1, <1>2, <1>4, PlainCookies, Responds

(* The exchange of a code, with what comes of it.                          *)
LEMMA CallbackStep ==
  ASSUME IInv, NEW q \in Slots, Callback(q)
  PROVE  IInv'
<1>. DEFINE code == req[q].arg
<1>1. /\ req[q].kind = "callback" /\ req[q].pc = "handle" /\ UNCHANGED <<jar, logins, called>>
      /\ code \in 1..Len(logins)
  BY CallbackIs DEF Callback, Handling
<1>2. PICK d \in ExchangeCode(req[q].sess, code, Head(req[q].flashes)) :
        /\ Charge(d.out)
        /\ IF d.ok
           THEN /\ Issues(code, d.sess.key)
                /\ Respond(q, "home", [dpop |-> [d.sess EXCEPT !.issuer = TRUE,
                                         !.token = [grant |-> code, gen |-> 1]],
                                       flashes |-> <<>>, did |-> d.sess.account])
                /\ UNCHANGED tally
           ELSE Fail(q, Cleared) /\ UNCHANGED grants
  BY DEF Callback
<1>3. PICK e \in Do(req[q].sess, "auth") :
        d = [sess |-> e.sess, out |-> e.out,
             ok |-> e.out = "answer" /\ Redeems(e.sess, code, Head(req[q].flashes))]
  BY <1>2 DEF ExchangeCode
<1>4. /\ d.sess \in Session /\ d.sess = [req[q].sess EXCEPT !.nonce = d.sess.nonce]
      /\ d.ok => Redeems(d.sess, code, code)
  <2>1. e.sess \in Session /\ e.sess = [req[q].sess EXCEPT !.nonce = e.sess.nonce]
    BY RequestIs, DoKeeps
  <2>. QED
    BY <1>3, <2>1 DEF Redeems
<1>5. used' \in [requests : Nat, expiries : Nat, faults : Nat]
  BY <1>2, ChargeTyped
<1>6. CASE d.ok
  <2>1. PICK s \in Session : s = [d.sess EXCEPT !.issuer = TRUE, !.token = [grant |-> code, gen |-> 1]]
    <3>1. [grant |-> code, gen |-> 1] \in Token
      BY <1>1, Attempts DEF Token
    <3>. QED
      BY <1>4, <3>1 DEF Session
  <2>2. /\ s.key = d.sess.key /\ s.account = d.sess.account /\ s.issuer
        /\ s.token = [grant |-> code, gen |-> 1]
    BY <1>4, <2>1 DEF Session
  <2>. DEFINE c == [dpop |-> s, flashes |-> <<>>, did |-> d.sess.account]
  <2>3. Respond(q, "home", c) /\ UNCHANGED tally
    BY <1>2, <1>6, <2>1
  <2>4. /\ Grows /\ Granted' /\ d.sess.key = code
        /\ grants' \in [1..MaxLogins -> Grant]
        /\ \A n \in 1..MaxLogins : grants'[n].expired <= grants'[n].gen
        /\ grants'[code].gen = 1 /\ grants'[code].key = code
    BY <1>1, <1>2, <1>4, <1>6, Redeemed
  <2>5. RestTyped'
    BY <1>1, <1>5, <2>3, <2>4 DEF RestTyped, IInv, TypeOK
  <2>6. c \in Cookies /\ c.dpop = s
    <3>1. <<>> \in Seq(1..MaxLogins) /\ d.sess.account \in Accounts \cup {None}
      BY <1>4 DEF Session
    <3>. QED
      BY <3>1 DEF Cookies
  <2>7. Sound(s)' /\ Bound(s)'
    <3>1. Sound(d.sess)
      BY <1>4, RequestIs, NonceIsFree
    <3>2. logins[code].account = s.account
      BY <1>1, <2>2, <2>4, <3>1, Attempts DEF Sound
    <3>. QED
      BY <1>1, <2>2, <2>4, <3>2, Attempts DEF Sound, Bound, NoToken
  <2>. HIDE DEF c
  <2>. QED
    BY <1>1, <2>3, <2>4, <2>5, <2>6, <2>7, Responds
<1>7. CASE ~d.ok
  <2>1. Fail(q, Cleared) /\ UNCHANGED grants
    BY <1>2, <1>7
  <2>2. Grows /\ Granted'
    BY <1>1, <2>1, Unchanged
  <2>3. RestTyped'
    BY <1>1, <1>5, <2>1, FailTyped DEF RestTyped, IInv, TypeOK
  <2>. QED
    BY <1>1, <2>1, <2>2, <2>3, PlainCookies, Responds DEF Fail
<1>. QED
  BY <1>6, <1>7

(* A redeemed code whose answer is lost.                                   *)
LEMMA CallbackLostStep ==
  ASSUME IInv, NEW q \in Slots, CallbackLost(q)
  PROVE  IInv'
<1>. DEFINE code == req[q].arg
<1>1. /\ req[q].pc = "handle" /\ req[q].kind = "callback" /\ Respond(q, "error", Cleared)
      /\ UNCHANGED <<jar, logins, called>> /\ code \in 1..Len(logins)
      /\ Charge("error") /\ Fail(q, Cleared)
  BY CallbackIs DEF CallbackLost, Handling, Fail
<1>2. /\ req[q].sess \in Session /\ Redeems(req[q].sess, code, code)
      /\ Issues(code, req[q].sess.key)
  BY RequestIs DEF CallbackLost, Redeems
<1>3. /\ Grows /\ Granted' /\ grants' \in [1..MaxLogins -> Grant]
      /\ \A n \in 1..MaxLogins : grants'[n].expired <= grants'[n].gen
  BY <1>1, <1>2, Redeemed
<1>4. RestTyped'
  BY <1>1, <1>3, ChargeTyped, FailTyped DEF RestTyped, IInv, TypeOK
<1>. QED
  BY <1>1, <1>3, <1>4, PlainCookies, Responds

(* A broker that goes on to its next call.                                 *)
LEMMA GoesOn ==
  ASSUME IInv, Grows, RestTyped', Granted', UNCHANGED jar,
         NEW q \in Slots, req[q].kind = "broker",
         NEW r \in Request, req' = [req EXCEPT ![q] = r],
         r.kind = "broker", r.cookie = req[q].cookie, r.pc \in {"refresh", "retry"},
         Sound(r.sess)', r.set.dpop # None => r.set.dpop = r.sess,
         r.set.dpop # None \/ r.pc = "retry" => Bound(r.sess)'
  PROVE  IInv'
<1>1. RestTyped
  BY DEF IInv, TypeOK, RestTyped
<1>2. PICK z \in Session : z = req[q].cookie
  BY RequestIs
<1>3. Sound(z)'
  BY <1>1, <1>2, RequestIs, SoundStays
<1>4. RequestOK(r)'
  <2>1. Placed(r)'
    BY DEF Placed
  <2>2. Copied(r)'
    BY <1>2, <1>3 DEF Copied, Sound
  <2>3. Issued(r)'
    BY DEF Issued, Bound
  <2>. QED
    BY <2>1, <2>2, <2>3 DEF RequestOK
<1>5. Sound(jar.dpop)'
  <2>1. PICK j \in Session : j = jar.dpop
    BY <1>1 DEF RestTyped
  <2>2. Sound(j) /\ j = jar'.dpop
    BY <2>1 DEF IInv
  <2>. QED
    BY <1>1, <2>2, SoundStays DEF Sound
<1>. QED
  BY <1>4, <1>5, OneRequest

(* A broker without a token.                                               *)
LEMMA BrokerUnableStep ==
  ASSUME IInv, NEW q \in Slots, BrokerUnable(q)
  PROVE  IInv'
<1>1. /\ req[q].pc = "handle" /\ Respond(q, "error", NoCookies)
      /\ UNCHANGED <<jar, logins, called, grants, used, tally>>
  BY DEF BrokerUnable, Handling
<1>2. Grows /\ Granted'
  BY <1>1, Unchanged
<1>3. RestTyped'
  BY <1>1 DEF RestTyped, IInv, TypeOK
<1>. QED
  BY <1>1, <1>2, <1>3, PlainCookies, Responds

(* What a call that is charged and changes neither attempts nor grants     *)
(* leaves alone.                                                           *)
LEMMA CallOnly ==
  ASSUME IInv, NEW out, Charge(out), UNCHANGED <<jar, logins, called, grants, tally>>
  PROVE  Grows /\ Granted' /\ RestTyped'
<1>1. Grows /\ Granted'
  BY Unchanged
<1>2. RestTyped'
  BY ChargeTyped DEF RestTyped, IInv, TypeOK
<1>. QED
  BY <1>1, <1>2

(* The first try at the PDS.                                               *)
LEMMA BrokerForwardStep ==
  ASSUME IInv, NEW q \in Slots, BrokerForward(q)
  PROVE  IInv'
<1>1. /\ req[q].kind = "broker" /\ req[q].pc = "handle"
      /\ UNCHANGED <<jar, logins, called, grants, tally>>
  BY DEF BrokerForward, Handling
<1>2. PICK d \in Do(req[q].sess, "pds") :
        /\ Charge(d.out)
        /\ \/ \E a \in {"error", "ok"} : Respond(q, a, NoCookies)
           \/ req' = [req EXCEPT ![q].pc = "refresh", ![q].sess = d.sess]
  BY DEF BrokerForward
<1>3. Grows /\ Granted' /\ RestTyped'
  BY <1>1, <1>2, CallOnly
<1>4. ASSUME NEW a \in {"error", "ok"}, Respond(q, a, NoCookies)
      PROVE  IInv'
  BY <1>1, <1>3, <1>4, PlainCookies, Responds
<1>5. ASSUME req' = [req EXCEPT ![q].pc = "refresh", ![q].sess = d.sess]
      PROVE  IInv'
  <2>. DEFINE r == [req[q] EXCEPT !.pc = "refresh", !.sess = d.sess]
  <2>1. req[q] \in Request /\ req \in [Slots -> Request]
    BY DEF IInv, TypeOK
  <2>2. d.sess \in Session /\ d.sess = [req[q].sess EXCEPT !.nonce = d.sess.nonce]
    BY RequestIs, DoKeeps
  <2>3. r \in Request /\ r.kind = "broker" /\ r.cookie = req[q].cookie /\ r.pc = "refresh"
        /\ r.sess = d.sess /\ r.set = req[q].set
    BY <1>1, <2>1, <2>2 DEF Request
  <2>4. req' = [req EXCEPT ![q] = r]
    BY <1>5, <2>1
  <2>5. req[q].set.dpop = None
    BY <1>1, RequestIs, PlainCookies DEF RequestOK, Placed
  <2>6. PICK z \in Session : z = d.sess
    BY <2>2
  <2>7. Sound(z)'
    <3>1. Sound(z)
      BY <2>2, <2>6, RequestIs, NonceIsFree
    <3>. QED
      BY <3>1, <1>3, SoundStays DEF IInv, TypeOK, RestTyped
  <2>. HIDE DEF r
  <2>. QED
    BY <1>1, <1>3, <2>3, <2>4, <2>5, <2>6, <2>7, GoesOn DEF Sound
<1>. QED
  BY <1>2, <1>4, <1>5

(* The refresh, whose new token goes into the response.                    *)
LEMMA BrokerRefreshStep ==
  ASSUME IInv, NEW q \in Slots, BrokerRefresh(q)
  PROVE  IInv'
<1>. DEFINE next == [grant |-> req[q].sess.token.grant, gen |-> req[q].sess.token.gen + 1]
<1>1. /\ req[q].kind = "broker" /\ req[q].pc = "refresh"
      /\ UNCHANGED <<jar, logins, called, tally>>
  BY DEF BrokerRefresh, Handling
<1>2. PICK d \in RefreshToken(req[q].sess) :
        /\ Charge(d.out)
        /\ IF d.ok /\ req[q].sess.issuer
           THEN /\ grants' = [grants EXCEPT ![req[q].sess.token.grant].gen = next.gen]
                /\ LET s == [d.sess EXCEPT !.token = next]
                   IN req' = [req EXCEPT ![q].pc = "retry", ![q].sess = s,
                                         ![q].set = [NoCookies EXCEPT !.dpop = s]]
           ELSE UNCHANGED grants /\ Respond(q, "unauthorized", NoCookies)
  BY DEF BrokerRefresh
<1>3. PICK e \in Do(req[q].sess, "auth") :
        d = [sess |-> e.sess, out |-> e.out, ok |-> e.out = "answer" /\ Renews(e.sess)]
  BY <1>2 DEF RefreshToken
<1>4. /\ d.sess \in Session /\ Sound(d.sess)
      /\ d.sess.token = req[q].sess.token /\ d.sess.issuer = req[q].sess.issuer
      /\ d.sess.account = req[q].sess.account /\ d.sess.key = req[q].sess.key
      /\ d.ok => Renews(d.sess)
  <2>1. e.sess \in Session /\ e.sess = [req[q].sess EXCEPT !.nonce = e.sess.nonce]
    BY RequestIs, DoKeeps
  <2>2. Sound(e.sess)
    BY <2>1, RequestIs, NonceIsFree
  <2>3. /\ e.sess.token = req[q].sess.token /\ e.sess.issuer = req[q].sess.issuer
        /\ e.sess.account = req[q].sess.account /\ e.sess.key = req[q].sess.key
    BY <2>1, RequestIs DEF Session
  <2>. QED
    BY <1>3, <2>1, <2>2, <2>3
<1>5. used' \in [requests : Nat, expiries : Nat, faults : Nat]
  BY <1>2, ChargeTyped
<1>6. CASE d.ok /\ req[q].sess.issuer
  <2>. DEFINE s == [d.sess EXCEPT !.token = next]
              c == [NoCookies EXCEPT !.dpop = s]
              r == [req[q] EXCEPT !.pc = "retry", !.sess = s, !.set = c]
              g == d.sess.token.grant
  <2>1. /\ grants' = [grants EXCEPT ![g].gen = d.sess.token.gen + 1]
        /\ req' = [req EXCEPT ![q].pc = "retry", ![q].sess = s, ![q].set = c]
    BY <1>2, <1>4, <1>6
  <2>2. d.sess.token # NoToken /\ Renews(d.sess)
    BY <1>4, <1>6 DEF Renews, NoToken
  <2>3. /\ Grows /\ Granted' /\ g \in 1..Len(logins) /\ g \in 1..MaxLogins
        /\ d.sess.token.gen \in Nat /\ grants[g].gen = d.sess.token.gen
        /\ grants' \in [1..MaxLogins -> Grant]
        /\ \A n \in 1..MaxLogins : grants'[n].expired <= grants'[n].gen
        /\ grants'[g].gen = d.sess.token.gen + 1 /\ grants'[g].key = grants[g].key
    BY <1>1, <1>4, <2>1, <2>2, Renewed
  <2>4. RestTyped'
    BY <1>1, <1>5, <2>3 DEF RestTyped, IInv, TypeOK
  <2>5. next \in Token
    BY <1>4, <2>3, Attempts DEF Token
  <2>6. /\ s \in Session /\ s.key = d.sess.key /\ s.account = d.sess.account
        /\ s.issuer = d.sess.issuer /\ s.token = next
    BY <1>4, <2>5 DEF Session
  <2>7. c \in Cookies /\ c.dpop = s
    BY <2>6, PlainCookies DEF Cookies, NoCookies
  <2>. HIDE DEF s, c
  <2>8. req[q] \in Request /\ req \in [Slots -> Request]
    BY DEF IInv, TypeOK
  <2>9. r \in Request /\ r.kind = "broker" /\ r.cookie = req[q].cookie /\ r.pc = "retry"
        /\ r.sess = s /\ r.set = c
    BY <1>1, <2>6, <2>7, <2>8 DEF Request
  <2>10. req' = [req EXCEPT ![q] = r]
    BY <2>1, <2>8
  <2>11. PICK z \in Session : z = s
    BY <2>6
  <2>12. Sound(z)' /\ Bound(z)'
    <3>1. z.token = [grant |-> g, gen |-> d.sess.token.gen + 1]
      BY <1>4, <2>6, <2>11
    <3>2. grants[g].key = d.sess.key
      BY <2>2 DEF Renews
    <3>3. Bound(z)'
      BY <2>3, <2>6, <2>11, <3>1, <3>2 DEF Bound, NoToken
    <3>4. Sound(z)'
      <4>1. z.token.grant = g /\ z.token.gen \in 1..grants'[g].gen
        BY <2>3, <3>1
      <4>2. z.key = d.sess.key /\ z.account = d.sess.account /\ z.issuer
        BY <1>4, <1>6, <2>6, <2>11
      <4>. HIDE DEF g
      <4>. QED
        BY <1>1, <1>4, <2>3, <4>1, <4>2 DEF Sound
    <3>. QED
      BY <3>3, <3>4
  <2>. HIDE DEF r
  <2>13. PICK x \in Request : x = r
    BY <2>9
  <2>. QED
    BY <1>1, <2>3, <2>4, <2>7, <2>9, <2>10, <2>11, <2>12, <2>13, GoesOn
<1>7. CASE ~(d.ok /\ req[q].sess.issuer)
  <2>1. UNCHANGED grants /\ Respond(q, "unauthorized", NoCookies)
    BY <1>2, <1>7
  <2>. QED
    BY <1>1, <1>2, <2>1, CallOnly, PlainCookies, Responds
<1>. QED
  BY <1>6, <1>7

(* A refresh whose answer is lost.                                         *)
LEMMA RefreshLostStep ==
  ASSUME IInv, NEW q \in Slots, RefreshLost(q)
  PROVE  IInv'
<1>. DEFINE s == req[q].sess
<1>1. /\ req[q].kind = "broker" /\ req[q].pc = "refresh" /\ s.issuer /\ Renews(s)
      /\ grants' = [grants EXCEPT ![s.token.grant].gen = @ + 1]
      /\ Respond(q, "unauthorized", NoCookies) /\ UNCHANGED <<jar, logins, called, tally>>
      /\ Charge("error")
  BY DEF RefreshLost, Handling
<1>2. s \in Session /\ Sound(s)
  BY RequestIs
<1>3. s.token # NoToken
  BY <1>1 DEF Renews, NoToken
<1>4. grants[s.token.grant].gen = s.token.gen
  BY <1>1 DEF Renews
<1>5. grants' = [grants EXCEPT ![s.token.grant].gen = s.token.gen + 1]
  BY <1>1, <1>4
<1>6. /\ Grows /\ Granted' /\ grants' \in [1..MaxLogins -> Grant]
      /\ \A n \in 1..MaxLogins : grants'[n].expired <= grants'[n].gen
  BY <1>1, <1>2, <1>3, <1>5, Renewed
<1>7. RestTyped'
  BY <1>1, <1>6, ChargeTyped DEF RestTyped, IInv, TypeOK
<1>. QED
  BY <1>1, <1>6, <1>7, PlainCookies, Responds

(* The second try.                                                         *)
LEMMA BrokerRetryStep ==
  ASSUME IInv, NEW q \in Slots, BrokerRetry(q)
  PROVE  IInv'
<1>1. /\ req[q].kind = "broker" /\ req[q].pc = "retry"
      /\ UNCHANGED <<jar, logins, called, grants, tally>>
  BY DEF BrokerRetry, Handling
<1>2. PICK d \in Do(req[q].sess, "pds") :
        /\ Charge(d.out)
        /\ \/ Respond(q, "error", req[q].set)
           \/ \E a \in {"ok", "unauthorized"} : Respond(q, a, [NoCookies EXCEPT !.dpop = d.sess])
  BY DEF BrokerRetry
<1>3. Grows /\ Granted' /\ RestTyped' /\ RestTyped
  BY <1>1, <1>2, CallOnly DEF IInv, TypeOK, RestTyped
<1>4. ASSUME Respond(q, "error", req[q].set)
      PROVE  IInv'
  <2>1. PICK c \in Cookies : c = req[q].set
    BY RequestIs DEF Request
  <2>2. c.dpop # None => Sound(c.dpop) /\ Bound(c.dpop)
    BY <1>1, <2>1, RequestIs DEF RequestOK, Copied, Issued
  <2>3. c.dpop # None => c.dpop \in Session
    BY DEF Cookies
  <2>4. c.dpop # None => Sound(c.dpop)' /\ Bound(c.dpop)'
    BY <1>3, <2>2, <2>3, SoundStays
  <2>. QED
    BY <1>1, <1>3, <1>4, <2>1, <2>4, Responds
<1>5. ASSUME NEW a \in {"ok", "unauthorized"}, Respond(q, a, [NoCookies EXCEPT !.dpop = d.sess])
      PROVE  IInv'
  <2>1. d.sess \in Session /\ d.sess = [req[q].sess EXCEPT !.nonce = d.sess.nonce]
    BY RequestIs, DoKeeps
  <2>2. PICK z \in Session : z = d.sess
    BY <2>1
  <2>3. Sound(z) /\ Bound(z)
    BY <1>1, <2>1, <2>2, RequestIs, NonceIsFree DEF RequestOK, Issued
  <2>4. Sound(z)' /\ Bound(z)'
    BY <1>3, <2>3, SoundStays
  <2>. DEFINE c == [NoCookies EXCEPT !.dpop = z]
  <2>5. c \in Cookies /\ c.dpop = z
    BY PlainCookies DEF Cookies, NoCookies
  <2>6. Respond(q, a, c)
    BY <1>5, <2>2
  <2>. HIDE DEF c
  <2>. QED
    BY <1>1, <1>3, <2>4, <2>5, <2>6, Responds
<1>. QED
  BY <1>2, <1>4, <1>5

(* A response arrives, and is what the browser has now.                    *)
LEMMA DeliverStep ==
  ASSUME IInv, NEW q \in Slots, Deliver(q)
  PROVE  IInv'
<1>1. /\ req[q].pc = "answered" /\ req' = [req EXCEPT ![q] = Idle]
      /\ UNCHANGED <<logins, called, grants, used, tally>>
  BY DEF Deliver
<1>2. Grows /\ Granted'
  BY <1>1, Unchanged
<1>3. req[q].set \in Cookies /\ Copied(req[q])
  BY RequestIs DEF Request, RequestOK
<1>4. jar \in [dpop : Session, flashes : Seq(1..MaxLogins), did : Accounts \cup {None}]
  BY DEF IInv, TypeOK
<1>5. /\ jar' \in [dpop : Session, flashes : Seq(1..MaxLogins), did : Accounts \cup {None}]
      /\ jar'.dpop = IF req[q].set.dpop = None THEN jar.dpop ELSE req[q].set.dpop
  <2>1. DOMAIN jar = {"dpop", "flashes", "did"}
    BY <1>4
  <2>2. jar' = [c \in {"dpop", "flashes", "did"} |->
                  IF req[q].set[c] = None THEN jar[c] ELSE req[q].set[c]]
    BY <2>1 DEF Deliver
  <2>. QED
    BY <1>3, <1>4, <2>2 DEF Cookies
<1>6. RestTyped'
  BY <1>1, <1>5 DEF RestTyped, IInv, TypeOK
<1>7. Sound(jar.dpop)'
  BY <1>1, <1>3, <1>5 DEF Copied, IInv, Sound
<1>8. RequestOK(Idle)'
  BY Attempts, <1>1 DEF RequestOK, Placed, Copied, Issued, Idle, NoCookies, Sound, EmptySession
<1>. QED
  BY <1>1, <1>2, <1>6, <1>7, <1>8, Constants, OneRequest

(* A response is lost.                                                     *)
LEMMA LoseStep ==
  ASSUME IInv, NEW q \in Slots, Lose(q)
  PROVE  IInv'
<1>1. /\ req' = [req EXCEPT ![q] = Idle] /\ used' = [used EXCEPT !.faults = @ + 1]
      /\ UNCHANGED <<jar, logins, called, grants, tally>>
  BY DEF Lose
<1>2. Grows /\ Granted'
  BY <1>1, Unchanged
<1>3. used' \in [requests : Nat, expiries : Nat, faults : Nat]
  <2>1. used \in [requests : Nat, expiries : Nat, faults : Nat]
    BY DEF IInv, TypeOK
  <2>. QED
    BY <1>1, <2>1
<1>4. RestTyped'
  BY <1>1, <1>3 DEF RestTyped, IInv, TypeOK
<1>5. Sound(jar.dpop)'
  BY <1>1 DEF IInv, Sound
<1>6. RequestOK(Idle)'
  BY Attempts, <1>1 DEF RequestOK, Placed, Copied, Issued, Idle, NoCookies, Sound, EmptySession
<1>. QED
  BY <1>1, <1>2, <1>4, <1>5, <1>6, Constants, OneRequest

(* A token expires.                                                        *)
LEMMA ExpireStep ==
  ASSUME IInv, Expire
  PROVE  IInv'
<1>1. PICK n \in 1..MaxLogins :
        /\ grants' = [grants EXCEPT ![n].expired = grants[n].gen]
        /\ used' = [used EXCEPT !.expiries = @ + 1]
        /\ UNCHANGED <<jar, req, logins, called, tally>>
  BY DEF Expire
<1>. DEFINE new == [grants[n] EXCEPT !.expired = grants[n].gen]
<1>2. grants[n] \in Grant /\ grants \in [1..MaxLogins -> Grant]
  BY DEF IInv, TypeOK
<1>3. new \in Grant /\ new.gen = grants[n].gen /\ new.key = grants[n].key /\ new.expired = new.gen
  BY <1>2 DEF Grant
<1>4. grants' = [grants EXCEPT ![n] = new]
  BY <1>1, <1>2
<1>. HIDE DEF new
<1>5. /\ grants' \in [1..MaxLogins -> Grant]
      /\ \A m \in 1..MaxLogins : grants'[m].gen = grants[m].gen /\ grants'[m].key = grants[m].key
  BY <1>2, <1>3, <1>4
<1>6. \A m \in 1..MaxLogins : grants'[m].expired <= grants'[m].gen
  <2>1. grants'[n].expired <= grants'[n].gen
    BY <1>2, <1>3, <1>4 DEF Grant
  <2>. QED
    BY <1>2, <1>4, <2>1 DEF IInv, TypeOK
<1>7. used' \in [requests : Nat, expiries : Nat, faults : Nat]
  <2>1. used \in [requests : Nat, expiries : Nat, faults : Nat]
    BY DEF IInv, TypeOK
  <2>. QED
    BY <1>1, <2>1
<1>8. RestTyped' /\ RestTyped
  BY <1>1, <1>5, <1>6, <1>7 DEF RestTyped, IInv, TypeOK
<1>9. Grows
  BY <1>1, <1>5, Attempts DEF Grows
<1>10. Granted'
  BY <1>1, <1>5, Attempts DEF Granted, IInv
<1>11. Sound(jar.dpop)'
  <2>1. PICK j \in Session : j = jar.dpop
    BY <1>8 DEF RestTyped
  <2>2. Sound(j) /\ j = jar'.dpop
    BY <1>1, <2>1 DEF IInv
  <2>. QED
    BY <1>8, <1>9, <2>2, SoundStays DEF Sound
<1>12. ASSUME NEW q \in Slots PROVE RequestOK(req[q])'
  <2>1. PICK r \in Request : r = req[q] /\ r = req'[q] /\ RequestOK(r)
    BY <1>1, RequestIs
  <2>2. r.cookie \in Session /\ r.sess \in Session /\ r.set.dpop \in Session \cup {None}
    BY DEF Request, Cookies
  <2>3. Placed(req[q])'
    BY <1>1, <2>1 DEF RequestOK, Placed
  <2>4. Copied(r)' /\ Issued(r)'
    BY <1>8, <1>9, <2>1, <2>2, SoundStays DEF RequestOK, Copied, Issued
  <2>5. Copied(req[q])'
    BY <2>1, <2>4 DEF Copied, Sound
  <2>6. Issued(req[q])'
    BY <2>1, <2>4 DEF Issued, Bound
  <2>. QED
    BY <2>3, <2>5, <2>6 DEF RequestOK
<1>13. TypeOK'
  BY <1>1, <1>8 DEF IInv, TypeOK, RestTyped
<1>. QED
  BY <1>10, <1>11, <1>12, <1>13 DEF IInv

(* The three kinds of requests.                                            *)
LEMMA SendsStep ==
  ASSUME IInv, NEW q \in Slots, SendLogin(q) \/ SendCallback(q) \/ SendBroker(q)
  PROVE  IInv'
<1>1. called \subseteq 1..Len(logins)
  BY DEF IInv, TypeOK
<1>2. CASE SendLogin(q)
  <2>. DEFINE b == logins # <<>> /\ Len(logins) \notin called
  <2>1. PICK a \in Accounts : Send(q, "login", a, b)
    BY <1>2 DEF SendLogin
  <2>2. b \in BOOLEAN /\ called' = called
    BY <1>2 DEF SendLogin
  <2>. HIDE DEF b
  <2>. QED
    BY <1>1, <2>1, <2>2, SendStep
<1>3. CASE SendCallback(q)
  <2>1. PICK n \in 1..Len(logins) :
          Send(q, "callback", n, n # Len(logins) \/ n \in called) /\ called' = called \cup {n}
    BY <1>3 DEF SendCallback
  <2>. DEFINE b == n # Len(logins) \/ n \in called
  <2>2. b \in BOOLEAN /\ Send(q, "callback", n, b)
    BY <2>1
  <2>3. n \in 1..MaxLogins
    BY Attempts
  <2>. HIDE DEF b
  <2>. QED
    BY <1>1, <2>1, <2>2, <2>3, SendStep
<1>4. CASE SendBroker(q)
  BY <1>1, <1>4, SendStep DEF SendBroker
<1>. QED
  BY <1>2, <1>3, <1>4

(* Nothing happens here.                                                   *)
LEMMA StutterStep ==
  ASSUME IInv, UNCHANGED vars
  PROVE  IInv'
BY DEF vars, IInv, TypeOK, Granted, RequestOK, Placed, Copied, Issued, Sound, Bound

(* Every step keeps the invariant.                                         *)
LEMMA IInvStep ==
  ASSUME IInv, [Next]_vars
  PROVE  IInv'
<1>1. CASE UNCHANGED vars
  BY <1>1, StutterStep
<1>2. CASE Expire
  BY <1>2, ExpireStep
<1>3. ASSUME NEW q \in Slots,
             \/ SendLogin(q) \/ SendCallback(q) \/ SendBroker(q) \/ Deliver(q) \/ Lose(q)
             \/ Login(q) \/ CallbackUnable(q) \/ Callback(q) \/ CallbackLost(q)
             \/ BrokerUnable(q) \/ BrokerForward(q) \/ BrokerRefresh(q)
             \/ RefreshLost(q) \/ BrokerRetry(q)
      PROVE  IInv'
  BY <1>3, SendsStep, DeliverStep, LoseStep, LoginStep, CallbackUnableStep, CallbackStep,
     CallbackLostStep, BrokerUnableStep, BrokerForwardStep, BrokerRefreshStep,
     RefreshLostStep, BrokerRetryStep
<1>. QED
  BY <1>1, <1>2, <1>3 DEF Next

(***************************************************************************)
(* Every copy of a session, in the browser, in a request, in a handler or  *)
(* in a response, is sound, and what is saved other than by a login fits   *)
(* its key.                                                                *)
(***************************************************************************)
THEOREM Invariance == Spec => []IInv
<1>. QED
  BY InitOK, IInvStep, PTL DEF Spec

(* Cookies, requests, attempts and grants have their types.                *)
THEOREM TypeCorrect == Spec => []TypeOK
<1>1. IInv => TypeOK
  BY DEF IInv
<1>. QED
  BY <1>1, Invariance, PTL

(***************************************************************************)
(* A token that works under the browser's key is a token of the account    *)
(* the browser's cookie names, whatever late and abandoned requests did to *)
(* the cookie: a key names its attempt, the attempt its account, and a     *)
(* token works under the key of its own attempt only.                      *)
(***************************************************************************)
THEOREM OneIdentity == Spec => []TokenOfIdentity
<1>1. ASSUME IInv PROVE TokenOfIdentity
  <2>. SUFFICES ASSUME Bound(jar.dpop)
                PROVE  logins[jar.dpop.token.grant].account = jar.dpop.account
    BY DEF TokenOfIdentity
  <2>. DEFINE g == jar.dpop.token.grant
  <2>1. /\ g \in 1..Len(logins) /\ jar.dpop.token.gen \in 1..grants[g].gen
        /\ grants[g].key = jar.dpop.key
    BY <1>1 DEF Bound, IInv, Sound
  <2>2. grants[g].key = g /\ g # 0
    BY <1>1, <2>1, Attempts DEF IInv, Granted
  <2>. QED
    BY <1>1, <2>1, <2>2 DEF IInv, Granted, Sound
<1>. QED
  BY <1>1, Invariance, PTL

(***************************************************************************)
(* A callback or a brokered request that changes the browser's session     *)
(* leaves a token that fits its key, however late its response comes.      *)
(***************************************************************************)
THEOREM SavedTokensFit == Spec => NewTokenFitsKey
<1>1. ASSUME IInv, NEW q \in Slots, req[q].kind # "login", Deliver(q), jar'.dpop # jar.dpop
      PROVE  Bound(jar.dpop)'
  <2>1. jar \in [dpop : Session, flashes : Seq(1..MaxLogins), did : Accounts \cup {None}]
    BY <1>1 DEF IInv, TypeOK
  <2>2. jar' = [c \in DOMAIN jar |-> IF req[q].set[c] = None THEN jar[c] ELSE req[q].set[c]]
    BY <1>1 DEF Deliver
  <2>3. req[q].set.dpop # None /\ jar'.dpop = req[q].set.dpop
    BY <1>1, <2>1, <2>2
  <2>4. Bound(req[q].set.dpop) /\ UNCHANGED grants
    BY <1>1, <2>3, RequestIs DEF RequestOK, Issued, Deliver
  <2>. QED
    BY <2>3, <2>4 DEF Bound
<1>2. IInv => \A q \in Slots :
                req[q].kind # "login" /\ Deliver(q) /\ jar'.dpop # jar.dpop => Bound(jar.dpop)'
  BY <1>1
<1>. QED
  BY <1>2, Invariance, PTL DEF NewTokenFitsKey

-----------------------------------------------------------------------------
Busy(q) == req[q].pc # "idle"

(* A session that has the newest token of its grant, if it fits its key.   *)
Fresh(s) == Bound(s) => s.token.gen = grants[s.token.grant].gen

(* The session the browser has once it has the response.                   *)
Left(r) == IF r.set.dpop = None THEN jar.dpop ELSE r.set.dpop

(* A broker that answers something else than the PDS's own answer had no   *)
(* token, or its token and the one it was renewed to have expired.         *)
Served(r) ==
  r.kind = "broker" /\ Bound(r.cookie) =>
    \/ r.answer = "ok"
    \/ grants[r.cookie.token.grant].expired > r.cookie.token.gen

(* A request that is alone: its cookie is the browser's, what it works on  *)
(* differs from that by the nonce, and after the refresh by one generation *)
(* of the token, which is in the response already.                         *)
Serial(r) ==
  /\ r.pc # "idle" => r.cookie = jar.dpop
  /\ r.pc \in {"handle", "refresh"} =>
       /\ Fresh(r.cookie)
       /\ r.sess.key = r.cookie.key /\ r.sess.token = r.cookie.token
       /\ r.sess.issuer = r.cookie.issuer
  /\ r.pc = "retry" =>
       /\ Fresh(r.sess) /\ r.set.dpop = r.sess
       /\ r.sess.key = r.cookie.key /\ r.sess.token.grant = r.cookie.token.grant
       /\ r.sess.token.gen = r.cookie.token.gen + 1
  /\ r.pc = "answered" => Fresh(Left(r)) /\ Served(r)

(* One request after the other, and nothing failed: each is serial.        *)
Orderly ==
  Quiet =>
    /\ \A p, q \in Slots : Busy(p) /\ Busy(q) => p = q
    /\ (\A q \in Slots : ~Busy(q)) => Fresh(jar.dpop)
    /\ \A q \in Slots : Serial(req[q])

(* A token that works under a key was issued for it, for the same account. *)
LEMMA BoundIs ==
  ASSUME IInv, NEW s \in Session, Sound(s), Bound(s)
  PROVE  /\ s.token.grant \in 1..Len(logins) /\ s.token.grant \in 1..MaxLogins
         /\ s.key = s.token.grant /\ s.issuer
         /\ s.token.gen \in Nat /\ grants[s.token.grant].gen \in Nat
         /\ grants[s.token.grant].expired \in Nat
         /\ logins[s.token.grant].account = s.account
<1>. DEFINE g == s.token.grant
<1>1. /\ g \in 1..Len(logins) /\ g \in 1..MaxLogins /\ s.issuer
      /\ s.token.gen \in 1..grants[g].gen /\ grants[g].key = s.key
  BY Attempts DEF Bound, Sound
<1>2. grants[g].gen \in Nat /\ grants[g].expired \in Nat /\ s.token.gen \in Nat
  <2>1. grants[g] \in Grant
    BY <1>1, Attempts
  <2>. QED
    BY <1>1, <2>1 DEF Grant
<1>3. grants[g].key = g /\ g # 0
  BY <1>1, <1>2 DEF IInv, Granted
<1>. HIDE DEF g
<1>4. s.key = g /\ logins[g].account = s.account
  BY <1>1, <1>3 DEF Sound
<1>. QED
  BY <1>1, <1>2, <1>4 DEF g

(* Whoever is busy is alone.                                               *)
LEMMA Alone ==
  ASSUME IInv, Orderly, Quiet, NEW q \in Slots, Busy(q), NEW p \in Slots, p # q
  PROVE  req[p] = Idle
BY RequestIs DEF Orderly, Busy, RequestOK, Placed

LEMMA SerialOnly ==
  ASSUME IInv, Orderly, Quiet, UNCHANGED jar,
         NEW q \in Slots, Busy(q), NEW r \in Request, r.pc # "idle",
         req' = [req EXCEPT ![q] = r], Serial(r)'
  PROVE  Orderly'
<1>1. req'[q] = r /\ \A p \in Slots : p # q => req'[p] = Idle
  BY Alone DEF IInv, TypeOK
<1>2. \A p \in Slots : Busy(p)' <=> p = q
  BY <1>1 DEF Busy, Idle
<1>3. \A p \in Slots : Serial(req[p])'
  <2>1. Serial(Idle)'
    BY DEF Serial, Idle
  <2>2. \A p \in Slots \ {q} : Serial(req[p])'
    BY <1>1, <2>1 DEF Serial, Fresh, Bound, Left, Served
  <2>3. Serial(req[q])'
    BY <1>1 DEF Serial, Fresh, Bound, Left, Served
  <2>. QED
    BY <2>2, <2>3
<1>. QED
  BY <1>2, <1>3 DEF Orderly

LEMMA SerialAnswer ==
  ASSUME IInv, Orderly, Quiet, UNCHANGED jar, NEW q \in Slots, Busy(q),
         NEW answer \in {"redirect", "home", "ok", "unauthorized", "error"},
         NEW cookies \in Cookies, Respond(q, answer, cookies),
         cookies.dpop = None => Fresh(jar.dpop)',
         cookies.dpop # None => Fresh(cookies.dpop)',
         NEW k \in Session, k = req[q].cookie,
         req[q].kind = "broker" /\ Bound(k)' =>
           answer = "ok" \/ grants'[k.token.grant].expired > k.token.gen
  PROVE  Orderly'
<1>1. PICK s \in Request : s = req[q]
  BY RequestIs
<1>. DEFINE r == [s EXCEPT !.pc = "answered", !.answer = answer, !.set = cookies]
<1>2. /\ r \in Request /\ r.pc = "answered" /\ r.set = cookies /\ r.answer = answer
      /\ r.kind = s.kind /\ r.cookie = k
  BY <1>1 DEF Request
<1>3. req' = [req EXCEPT ![q] = r]
  BY <1>1 DEF Respond, IInv, TypeOK, Request
<1>. HIDE DEF r
<1>4. k = jar'.dpop
  BY DEF Orderly, Serial, Busy
<1>5. Fresh(Left(r))'
  BY <1>2 DEF Left, Fresh, Bound
<1>6. Served(r)'
  BY <1>1, <1>2 DEF Served, Bound
<1>7. PICK z \in Request : z = r
  BY <1>2
<1>8. Serial(z)'
  BY <1>2, <1>4, <1>5, <1>6, <1>7 DEF Serial, Left, Served, Fresh
<1>. QED
  BY <1>2, <1>3, <1>7, <1>8, SerialOnly

(* Nothing failed in a call that had no fault.                             *)
LEMMA QuietCall ==
  ASSUME IInv, NEW out \in {"answer", "nonce", "error"}, Charge(out), Quiet',
         tally'.crossed = tally.crossed
  PROVE  out = "answer" /\ Quiet
<1>1. used \in [requests : Nat, expiries : Nat, faults : Nat]
  BY DEF IInv, TypeOK
<1>. QED
  BY <1>1 DEF Charge, Quiet

(* The browser sends a request when nobody else has one.                   *)
LEMMA SerialSend ==
  ASSUME IInv, Orderly, Quiet', NEW q \in Slots, NEW kind, NEW arg, NEW disturbs \in BOOLEAN,
         Send(q, kind, arg, disturbs)
  PROVE  Orderly'
<1>1. /\ tally \in [failed : Nat, disturbed : Nat, crossed : Nat]
      /\ used \in [requests : Nat, expiries : Nat, faults : Nat]
  BY DEF IInv, TypeOK
<1>2. used'.faults = used.faults
  BY <1>1 DEF Send
<1>3. tally'.crossed = tally.crossed + Count(\E p \in Slots : req[p].pc # "idle")
  BY <1>1 DEF Send
<1>4. Quiet /\ \A p \in Slots : ~Busy(p)
  <2>1. tally.crossed = 0 /\ ~(\E p \in Slots : req[p].pc # "idle")
    BY <1>1, <1>3 DEF Quiet, Count
  <2>. QED
    BY <1>2, <2>1 DEF Quiet, Busy
<1>5. Fresh(jar.dpop)
  BY <1>4 DEF Orderly
<1>. DEFINE r == [Idle EXCEPT !.kind = kind, !.pc = "handle", !.arg = arg,
               !.cookie = jar.dpop, !.sess = jar.dpop, !.flashes = jar.flashes]
<1>6. req' = [req EXCEPT ![q] = r] /\ UNCHANGED <<jar, logins, grants>>
  BY DEF Send
<1>7. r.pc = "handle" /\ r.cookie = jar.dpop /\ r.sess = jar.dpop
  BY DEF Idle
<1>. HIDE DEF r
<1>8. req'[q] = r /\ \A p \in Slots : p # q => req'[p] = req[p] /\ ~Busy(p)
  BY <1>4, <1>6 DEF IInv, TypeOK
<1>9. \A p \in Slots : Busy(p)' <=> p = q
  BY <1>7, <1>8 DEF Busy
<1>10. Serial(req[q])'
  BY <1>5, <1>6, <1>7, <1>8 DEF Serial, Fresh, Bound
<1>11. \A p \in Slots \ {q} : Serial(req[p])'
  BY <1>8 DEF Serial, Busy
<1>. QED
  BY <1>9, <1>10, <1>11 DEF Orderly

LEMMA SerialSends ==
  ASSUME IInv, Orderly, Quiet', NEW q \in Slots,
         SendLogin(q) \/ SendCallback(q) \/ SendBroker(q)
  PROVE  Orderly'
<1>1. CASE SendLogin(q)
  <2>. DEFINE b == logins # <<>> /\ Len(logins) \notin called
  <2>1. PICK a \in Accounts : Send(q, "login", a, b)
    BY <1>1 DEF SendLogin
  <2>2. b \in BOOLEAN
    OBVIOUS
  <2>. HIDE DEF b
  <2>. QED
    BY <2>1, <2>2, SerialSend
<1>2. CASE SendCallback(q)
  <2>1. PICK n \in 1..Len(logins) : Send(q, "callback", n, n # Len(logins) \/ n \in called)
    BY <1>2 DEF SendCallback
  <2>. DEFINE b == n # Len(logins) \/ n \in called
  <2>2. b \in BOOLEAN /\ Send(q, "callback", n, b)
    BY <2>1
  <2>. HIDE DEF b
  <2>. QED
    BY <2>2, SerialSend
<1>3. CASE SendBroker(q)
  BY <1>3, SerialSend DEF SendBroker
<1>. QED
  BY <1>1, <1>2, <1>3

(* The only request is answered, and the browser is idle again.            *)
LEMMA SerialDeliver ==
  ASSUME IInv, Orderly, Quiet', NEW q \in Slots, Deliver(q)
  PROVE  Orderly'
<1>1. /\ req[q].pc = "answered" /\ req' = [req EXCEPT ![q] = Idle]
      /\ UNCHANGED <<logins, called, grants, used, tally>>
  BY DEF Deliver
<1>2. Quiet /\ Busy(q)
  BY <1>1 DEF Quiet, Busy
<1>3. \A p \in Slots : req'[p] = Idle
  BY <1>1, <1>2, Alone DEF IInv, TypeOK
<1>4. jar'.dpop = Left(req[q])
  <2>1. jar \in [dpop : Session, flashes : Seq(1..MaxLogins), did : Accounts \cup {None}]
    BY DEF IInv, TypeOK
  <2>2. jar' = [c \in DOMAIN jar |-> IF req[q].set[c] = None THEN jar[c] ELSE req[q].set[c]]
    BY DEF Deliver
  <2>. QED
    BY <2>1, <2>2 DEF Left
<1>5. Fresh(Left(req[q]))
  BY <1>1, <1>2 DEF Orderly, Serial
<1>6. Fresh(jar.dpop)'
  BY <1>1, <1>4, <1>5 DEF Fresh, Bound
<1>. QED
  BY <1>3, <1>6 DEF Orderly, Busy, Serial, Idle

(* A handler that has just begun, or waits for the refresh.                *)
LEMMA SerialIs ==
  ASSUME IInv, Orderly, Quiet, NEW q \in Slots, req[q].pc \in {"handle", "refresh"}
  PROVE  /\ req[q].cookie = jar.dpop /\ req[q].cookie \in Session /\ Sound(req[q].cookie)
         /\ Fresh(req[q].cookie)
         /\ req[q].sess.key = req[q].cookie.key /\ req[q].sess.token = req[q].cookie.token
         /\ req[q].sess.issuer = req[q].cookie.issuer
         /\ Busy(q)
BY RequestIs DEF Orderly, Serial, Busy

(* A login leaves the old token, which does not fit the new key.           *)
LEMMA SerialLogin ==
  ASSUME IInv, IInv', Orderly, Quiet', NEW q \in Slots, Login(q)
  PROVE  Orderly'
<1>. DEFINE n == Len(logins) + 1
            s == NewSession(req[q].sess, n, req[q].arg)
<1>1. req[q].kind = "login" /\ req[q].pc = "handle" /\ n \in 1..MaxLogins
  BY Attempts DEF Login, Handling
<1>2. PICK z \in Session : z = req[q].sess /\ Sound(z)
  BY RequestIs
<1>3. req[q].arg \in Accounts
  BY <1>1, RequestIs DEF RequestOK, Placed
<1>4. s \in Session /\ s.key = n /\ s.token = z.token
  <2>1. s = [z EXCEPT !.key = n, !.account = req[q].arg]
    BY <1>2 DEF NewSession
  <2>2. n \in 0..MaxLogins /\ req[q].arg \in Accounts \cup {None}
    BY <1>1, <1>3, Attempts
  <2>. HIDE DEF s, n
  <2>. QED
    BY <1>2, <2>1, <2>2 DEF Session
<1>5. PICK d \in Authorize(s, req[q].arg) :
        /\ Charge(d.out)
        /\ d.out = "answer" =>
             Respond(q, "redirect", [NoCookies EXCEPT
                     !.dpop = d.sess, !.flashes = Append(req[q].flashes, n)])
  BY DEF Login
<1>. HIDE DEF s
<1>6. PICK e \in Do(s, "auth") : d = [sess |-> e.sess, out |-> e.out, attempt |-> PushedRequest(e.sess, req[q].arg)]
  BY DEF Authorize
<1>7. /\ d.out \in {"answer", "nonce", "error"} /\ d.sess \in Session
      /\ d.sess = [s EXCEPT !.nonce = d.sess.nonce]
  BY <1>4, <1>6, DoKeeps
<1>8. PICK y \in Session : y = d.sess
  BY <1>7
<1>9. y.key = n /\ y.token = z.token
  BY <1>4, <1>7, <1>8 DEF Session
<1>. DEFINE c == [NoCookies EXCEPT !.dpop = y, !.flashes = Append(req[q].flashes, n)]
<1>10. UNCHANGED <<jar, called, grants, tally>>
  BY DEF Login
<1>11. Respond(q, "redirect", c) /\ Quiet
  BY <1>5, <1>7, <1>8, <1>10, QuietCall
<1>12. c \in Cookies /\ c.dpop = y /\ y # None
  <2>1. Append(req[q].flashes, n) \in Seq(1..MaxLogins)
    BY <1>1, RequestIs, AppendProperties DEF Request
  <2>. QED
    BY <2>1, PlainCookies, NoneAssumption DEF Cookies, NoCookies
<1>13. ~Bound(y)'
  <2>1. SUFFICES ASSUME y.token # NoToken, grants[y.token.grant].key = n PROVE FALSE
    BY <1>9, <1>10 DEF Bound
  <2>2. /\ z.token.grant \in 1..Len(logins) /\ z.token.grant \in 1..MaxLogins
        /\ z.token.gen \in 1..grants[z.token.grant].gen
    BY <1>2, <1>9, <2>1, Attempts DEF Sound
  <2>3. grants[z.token.grant].key = z.token.grant
    BY <2>2, Attempts DEF IInv, Granted
  <2>. QED
    BY <1>9, <2>1, <2>2, <2>3, Attempts
<1>14. PICK k \in Session : k = req[q].cookie
  BY RequestIs
<1>15. Busy(q)
  BY <1>1 DEF Busy
<1>. HIDE DEF c
<1>. QED
  BY <1>1, <1>10, <1>11, <1>12, <1>13, <1>14, <1>15, SerialAnswer DEF Fresh

(* A callback leaves the first token of its code, or the session there was. *)
LEMMA SerialCallback ==
  ASSUME IInv, Orderly, Quiet', NEW q \in Slots,
         CallbackUnable(q) \/ Callback(q) \/ CallbackLost(q)
  PROVE  Orderly'
<1>1. /\ req[q].kind = "callback" /\ req[q].pc = "handle" /\ UNCHANGED <<jar, logins, called>>
      /\ Busy(q)
  BY DEF CallbackUnable, Callback, CallbackLost, Handling, Busy
<1>. DEFINE code == req[q].arg
<1>2. /\ tally \in [failed : Nat, disturbed : Nat, crossed : Nat]
      /\ used \in [requests : Nat, expiries : Nat, faults : Nat]
  BY DEF IInv, TypeOK
<1>3. \A cookies : Fail(q, cookies) => tally'.crossed = tally.crossed
  BY <1>2 DEF Fail
<1>4. PICK k \in Session : k = req[q].cookie
  BY RequestIs
<1>5. ASSUME Fail(q, Cleared), UNCHANGED grants, Quiet
      PROVE  Orderly'
  <2>1. Fresh(jar.dpop)
    BY <1>1, <1>5, SerialIs
  <2>2. Fresh(jar.dpop)'
    BY <1>1, <1>5, <2>1 DEF Fresh, Bound
  <2>. QED
    BY <1>1, <1>4, <1>5, <2>2, PlainCookies, SerialAnswer DEF Fail
<1>6. CASE CallbackUnable(q)
  <2>1. Fail(q, Cleared) /\ UNCHANGED <<grants, used>>
    BY <1>6 DEF CallbackUnable
  <2>2. Quiet
    BY <1>3, <2>1 DEF Quiet
  <2>. QED
    BY <1>5, <2>1, <2>2
<1>7. CASE Callback(q)
  <2>1. PICK d \in ExchangeCode(req[q].sess, code, Head(req[q].flashes)) :
          /\ Charge(d.out)
          /\ IF d.ok
             THEN /\ Issues(code, d.sess.key)
                  /\ Respond(q, "home", [dpop |-> [d.sess EXCEPT !.issuer = TRUE,
                                           !.token = [grant |-> code, gen |-> 1]],
                                         flashes |-> <<>>, did |-> d.sess.account])
                  /\ UNCHANGED tally
             ELSE Fail(q, Cleared) /\ UNCHANGED grants
    BY <1>7 DEF Callback
  <2>2. PICK e \in Do(req[q].sess, "auth") :
          d = [sess |-> e.sess, out |-> e.out,
               ok |-> e.out = "answer" /\ Redeems(e.sess, code, Head(req[q].flashes))]
    BY <2>1 DEF ExchangeCode
  <2>3. e.sess \in Session /\ e.out \in {"answer", "nonce", "error"}
    BY RequestIs, DoKeeps
  <2>4. Quiet
    BY <1>3, <2>1, <2>2, <2>3, QuietCall
  <2>5. CASE ~d.ok
    BY <1>5, <2>1, <2>4, <2>5
  <2>6. CASE d.ok
    <3>1. code \in 1..Len(logins) /\ code \in 1..MaxLogins
      BY <1>1, CallbackIs
    <3>2. [grant |-> code, gen |-> 1] \in Token
      BY <3>1, Attempts DEF Token
    <3>3. PICK s \in Session :
            s = [d.sess EXCEPT !.issuer = TRUE, !.token = [grant |-> code, gen |-> 1]]
      BY <2>2, <2>3, <3>2 DEF Session
    <3>4. s.token = [grant |-> code, gen |-> 1] /\ s # None /\ d.sess.account \in Accounts \cup {None}
      BY <2>2, <2>3, <3>3, NoneAssumption DEF Session
    <3>. DEFINE c == [dpop |-> s, flashes |-> <<>>, did |-> d.sess.account]
    <3>5. c \in Cookies /\ c.dpop = s
      <4>1. <<>> \in Seq(1..MaxLogins)
        OBVIOUS
      <4>. QED
        BY <3>4, <4>1 DEF Cookies
    <3>6. Respond(q, "home", c) /\ Issues(code, d.sess.key)
      BY <2>1, <2>6, <3>3
    <3>7. grants'[code].gen = 1
      BY <3>1, <3>6 DEF Issues, IInv, TypeOK
    <3>8. Fresh(s)'
      BY <3>4, <3>7 DEF Fresh
    <3>. HIDE DEF c
    <3>. QED
      BY <1>1, <1>4, <2>4, <3>4, <3>5, <3>6, <3>8, SerialAnswer
  <2>. QED
    BY <2>5, <2>6
<1>8. CASE CallbackLost(q)
  <2>1. Charge("error") /\ Fail(q, Cleared)
    BY <1>8 DEF CallbackLost
  <2>. QED
    BY <1>3, <2>1, QuietCall
<1>. QED
  BY <1>6, <1>7, <1>8

(* A broker that has no token is not one whose token fits its key.         *)
LEMMA SerialBrokerUnable ==
  ASSUME IInv, Orderly, Quiet', NEW q \in Slots, BrokerUnable(q)
  PROVE  Orderly'
<1>1. /\ req[q].pc = "handle" /\ ~HasToken(req[q].sess) /\ Respond(q, "error", NoCookies)
      /\ UNCHANGED <<jar, logins, called, grants, used, tally>>
  BY DEF BrokerUnable, Handling
<1>2. Quiet
  BY <1>1 DEF Quiet
<1>3. PICK k \in Session : k = req[q].cookie /\ Sound(k) /\ Fresh(k)
  BY <1>1, <1>2, SerialIs
<1>4. ~Bound(k)
  <2>1. k.key = 0 \/ k.token = NoToken
    BY <1>1, <1>2, <1>3, SerialIs DEF HasToken
  <2>2. SUFFICES ASSUME Bound(k) PROVE FALSE
    OBVIOUS
  <2>3. k.key = k.token.grant /\ k.token.grant \in 1..MaxLogins /\ k.token # NoToken
    BY <1>3, <2>2, BoundIs DEF Bound
  <2>. QED
    BY <2>1, <2>3, Attempts
<1>5. ~Bound(k)' /\ k = jar.dpop
  BY <1>1, <1>2, <1>3, <1>4, SerialIs DEF Bound
<1>6. Fresh(jar.dpop)'
  BY <1>1, <1>5 DEF Fresh, Bound
<1>7. Busy(q)
  BY <1>1 DEF Busy
<1>. QED
  BY <1>1, <1>2, <1>3, <1>5, <1>6, <1>7, PlainCookies, SerialAnswer

(* The first try: served, or on to the refresh with the token as it was.   *)
LEMMA SerialBrokerForward ==
  ASSUME IInv, Orderly, Quiet', NEW q \in Slots, BrokerForward(q)
  PROVE  Orderly'
<1>1. /\ req[q].kind = "broker" /\ req[q].pc = "handle"
      /\ UNCHANGED <<jar, logins, called, grants, tally>>
  BY DEF BrokerForward, Handling
<1>2. PICK d \in Do(req[q].sess, "pds") :
        /\ Charge(d.out)
        /\ d.out = "answer" =>
             \/ Respond(q, "ok", NoCookies)
             \/ req' = [req EXCEPT ![q].pc = "refresh", ![q].sess = d.sess]
  BY DEF BrokerForward
<1>3. /\ d.sess \in Session /\ d.out \in {"answer", "nonce", "error"}
      /\ d.sess = [req[q].sess EXCEPT !.nonce = d.sess.nonce]
  BY RequestIs, DoKeeps
<1>4. Quiet /\ d.out = "answer"
  BY <1>1, <1>2, <1>3, QuietCall
<1>5. PICK k \in Session : k = req[q].cookie /\ Sound(k) /\ Fresh(k) /\ k = jar.dpop
  BY <1>1, <1>4, SerialIs
<1>6. Fresh(k)' /\ Fresh(jar.dpop)'
  BY <1>1, <1>5 DEF Fresh, Bound
<1>7. Busy(q)
  BY <1>1 DEF Busy
<1>8. CASE Respond(q, "ok", NoCookies)
  BY <1>1, <1>4, <1>5, <1>6, <1>7, <1>8, PlainCookies, SerialAnswer
<1>9. CASE req' = [req EXCEPT ![q].pc = "refresh", ![q].sess = d.sess]
  <2>. DEFINE r == [req[q] EXCEPT !.pc = "refresh", !.sess = d.sess]
  <2>1. req[q] \in Request /\ req \in [Slots -> Request]
    BY DEF IInv, TypeOK
  <2>2. /\ r \in Request /\ r.cookie = k /\ r.pc = "refresh" /\ r.sess = d.sess
    BY <1>3, <1>5, <2>1 DEF Request
  <2>3. req' = [req EXCEPT ![q] = r]
    BY <1>9, <2>1
  <2>4. d.sess.key = k.key /\ d.sess.token = k.token /\ d.sess.issuer = k.issuer
    <3>1. PICK s \in Session : s = req[q].sess
      BY RequestIs
    <3>2. s.key = k.key /\ s.token = k.token /\ s.issuer = k.issuer
      BY <1>1, <1>4, <1>5, <3>1, SerialIs
    <3>. QED
      BY <1>3, <3>1, <3>2 DEF Session
  <2>. HIDE DEF r
  <2>5. PICK z \in Request : z = r
    BY <2>2
  <2>6. Serial(z)'
    BY <1>1, <1>5, <1>6, <2>2, <2>4, <2>5 DEF Serial
  <2>. QED
    BY <1>1, <1>4, <1>7, <2>2, <2>3, <2>5, <2>6, SerialOnly
<1>. QED
  BY <1>2, <1>4, <1>8, <1>9

(* The refresh: a token that fits its key is the newest one, so it is      *)
(* renewed, and the next one is in the response at once.                   *)
LEMMA SerialBrokerRefresh ==
  ASSUME IInv, Orderly, Quiet', NEW q \in Slots, BrokerRefresh(q)
  PROVE  Orderly'
<1>. DEFINE next == [grant |-> req[q].sess.token.grant, gen |-> req[q].sess.token.gen + 1]
<1>1. /\ req[q].kind = "broker" /\ req[q].pc = "refresh"
      /\ UNCHANGED <<jar, logins, called, tally>> /\ Busy(q)
  BY DEF BrokerRefresh, Handling, Busy
<1>2. PICK d \in RefreshToken(req[q].sess) :
        /\ Charge(d.out)
        /\ IF d.ok /\ req[q].sess.issuer
           THEN /\ grants' = [grants EXCEPT ![req[q].sess.token.grant].gen = next.gen]
                /\ LET s == [d.sess EXCEPT !.token = next]
                   IN req' = [req EXCEPT ![q].pc = "retry", ![q].sess = s,
                                         ![q].set = [NoCookies EXCEPT !.dpop = s]]
           ELSE UNCHANGED grants /\ Respond(q, "unauthorized", NoCookies)
  BY DEF BrokerRefresh
<1>3. PICK e \in Do(req[q].sess, "auth") :
        d = [sess |-> e.sess, out |-> e.out, ok |-> e.out = "answer" /\ Renews(e.sess)]
  BY <1>2 DEF RefreshToken
<1>4. /\ e.sess \in Session /\ e.sess = [req[q].sess EXCEPT !.nonce = e.sess.nonce]
      /\ e.out \in {"answer", "nonce", "error"}
  BY RequestIs, DoKeeps
<1>5. Quiet /\ e.out = "answer"
  BY <1>1, <1>2, <1>3, <1>4, QuietCall
<1>6. PICK k \in Session : k = req[q].cookie /\ Sound(k) /\ Fresh(k) /\ k = jar.dpop
  BY <1>1, <1>5, SerialIs
<1>7. PICK s \in Session : s = req[q].sess /\ Sound(s)
  BY RequestIs
<1>8. s.key = k.key /\ s.token = k.token /\ s.issuer = k.issuer
  BY <1>1, <1>5, <1>6, <1>7, SerialIs
<1>9. PICK y \in Session : y = d.sess
  BY <1>3, <1>4
<1>10. y.key = k.key /\ y.token = k.token /\ y.issuer = k.issuer /\ y.account = s.account
  BY <1>3, <1>4, <1>7, <1>8, <1>9 DEF Session
<1>11. d.ok <=> Renews(y)
  BY <1>3, <1>5, <1>9
<1>12. CASE d.ok /\ s.issuer
  <2>. DEFINE z == [y EXCEPT !.token = next]
              c == [NoCookies EXCEPT !.dpop = z]
              r == [req[q] EXCEPT !.pc = "retry", !.sess = z, !.set = c]
              g == k.token.grant
  <2>1. /\ grants' = [grants EXCEPT ![s.token.grant].gen = s.token.gen + 1]
        /\ req' = [req EXCEPT ![q].pc = "retry", ![q].sess = z, ![q].set = c]
    BY <1>2, <1>7, <1>9, <1>12
  <2>2. s.token # NoToken /\ Renews(s)
    BY <1>8, <1>10, <1>11, <1>12 DEF Renews, NoToken
  <2>3. /\ s.token.gen \in Nat /\ g \in 1..MaxLogins /\ grants'[g].gen = k.token.gen + 1
    BY <1>1, <1>7, <1>8, <2>1, <2>2, Renewed
  <2>4. next = [grant |-> g, gen |-> k.token.gen + 1] /\ next \in Token
    BY <1>7, <1>8, <2>3, Attempts DEF Token
  <2>5. z \in Session /\ z.key = k.key /\ z.token = next
    BY <1>10, <2>4 DEF Session
  <2>6. c \in Cookies /\ c.dpop = z
    BY <2>5, PlainCookies DEF Cookies, NoCookies
  <2>. HIDE DEF z, c
  <2>7. req[q] \in Request /\ req \in [Slots -> Request]
    BY DEF IInv, TypeOK
  <2>8. r \in Request /\ r.cookie = k /\ r.pc = "retry" /\ r.sess = z /\ r.set = c
    BY <1>6, <2>5, <2>6, <2>7 DEF Request
  <2>9. req' = [req EXCEPT ![q] = r]
    BY <2>1, <2>7
  <2>. HIDE DEF r
  <2>10. PICK x \in Session : x = z
    BY <2>5
  <2>11. Fresh(x)'
    BY <2>3, <2>4, <2>5, <2>10 DEF Fresh
  <2>12. PICK w \in Request : w = r
    BY <2>8
  <2>13. Serial(w)'
    BY <1>1, <1>6, <2>4, <2>5, <2>6, <2>8, <2>10, <2>11, <2>12 DEF Serial
  <2>. QED
    BY <1>1, <1>5, <2>8, <2>9, <2>12, <2>13, SerialOnly
<1>13. CASE ~(d.ok /\ s.issuer)
  <2>1. UNCHANGED grants /\ Respond(q, "unauthorized", NoCookies)
    BY <1>2, <1>7, <1>13
  <2>2. ~Bound(k)
    <3>1. SUFFICES ASSUME Bound(k) PROVE Renews(y) /\ s.issuer
      BY <1>11, <1>13
    <3>2. /\ k.token.grant \in 1..MaxLogins /\ k.issuer
          /\ k.token.gen = grants[k.token.grant].gen /\ grants[k.token.grant].key = k.key
      BY <1>6, <3>1, BoundIs DEF Fresh, Bound
    <3>3. k.token.grant # 0
      BY <3>2, Attempts
    <3>. QED
      BY <1>8, <1>10, <3>2, <3>3 DEF Renews
  <2>3. ~Bound(k)' /\ Fresh(jar.dpop)'
    BY <1>1, <1>6, <2>1, <2>2 DEF Bound, Fresh
  <2>. QED
    BY <1>1, <1>5, <1>6, <2>1, <2>3, PlainCookies, SerialAnswer
<1>. QED
  BY <1>12, <1>13

(* The second try: refused only when the new token has expired too.        *)
LEMMA SerialBrokerRetry ==
  ASSUME IInv, Orderly, Quiet', NEW q \in Slots, BrokerRetry(q)
  PROVE  Orderly'
<1>1. /\ req[q].kind = "broker" /\ req[q].pc = "retry" /\ Busy(q)
      /\ UNCHANGED <<jar, logins, called, grants, tally>>
  BY DEF BrokerRetry, Handling, Busy
<1>2. PICK d \in Do(req[q].sess, "pds") :
        /\ Charge(d.out)
        /\ d.out = "answer" =>
             \/ Accepts(d.sess) /\ Respond(q, "ok", [NoCookies EXCEPT !.dpop = d.sess])
             \/ ~Accepts(d.sess) /\ Respond(q, "unauthorized", [NoCookies EXCEPT !.dpop = d.sess])
  BY DEF BrokerRetry
<1>3. /\ d.sess \in Session /\ d.out \in {"answer", "nonce", "error"}
      /\ d.sess = [req[q].sess EXCEPT !.nonce = d.sess.nonce]
  BY RequestIs, DoKeeps
<1>4. Quiet /\ d.out = "answer"
  BY <1>1, <1>2, <1>3, QuietCall
<1>5. PICK k \in Session : k = req[q].cookie
  BY RequestIs
<1>6. PICK s \in Session : s = req[q].sess /\ Sound(s) /\ Bound(s)
  BY <1>1, RequestIs DEF RequestOK, Issued
<1>7. Fresh(s) /\ s.token.grant = k.token.grant /\ s.token.gen = k.token.gen + 1
  BY <1>1, <1>4, <1>5, <1>6 DEF Orderly, Serial
<1>8. PICK y \in Session : y = d.sess
  BY <1>3
<1>9. y.key = s.key /\ y.token = s.token /\ y.account = s.account
  BY <1>3, <1>6, <1>8 DEF Session
<1>. DEFINE c == [NoCookies EXCEPT !.dpop = y]
<1>10. c \in Cookies /\ c.dpop = y /\ y # None
  BY PlainCookies, NoneAssumption DEF Cookies, NoCookies
<1>11. Fresh(y)'
  BY <1>1, <1>7, <1>9 DEF Fresh, Bound
<1>12. Accepts(y) \/ grants'[k.token.grant].expired > k.token.gen
  <2>1. SUFFICES ASSUME ~Accepts(y) PROVE grants[k.token.grant].expired > k.token.gen
    BY <1>1
  <2>. DEFINE g == s.token.grant
  <2>2. /\ g \in 1..MaxLogins /\ logins[g].account = s.account /\ grants[g].key = s.key
        /\ grants[g].expired \in Nat /\ s.token.gen \in Nat
    BY <1>6, BoundIs DEF Bound
  <2>3. g # 0 /\ ~(s.token.gen > grants[g].expired)
    BY <1>9, <2>1, <2>2, Attempts DEF Accepts
  <2>4. k.token.gen \in Nat
    BY DEF Session, Token
  <2>. HIDE DEF g
  <2>5. g = k.token.grant
    BY <1>7 DEF g
  <2>. QED
    BY <1>7, <2>2, <2>3, <2>4, <2>5
<1>13. \/ Accepts(y) /\ Respond(q, "ok", c)
       \/ ~Accepts(y) /\ Respond(q, "unauthorized", c)
  BY <1>2, <1>4, <1>8
<1>. HIDE DEF c
<1>14. CASE Respond(q, "ok", c)
  BY <1>1, <1>4, <1>5, <1>10, <1>11, <1>14, SerialAnswer
<1>15. CASE ~Accepts(y) /\ Respond(q, "unauthorized", c)
  BY <1>1, <1>4, <1>5, <1>10, <1>11, <1>12, <1>15, SerialAnswer
<1>. QED
  BY <1>13, <1>14, <1>15

(* Time spoils no newest token but in the eyes of the resource server.     *)
LEMMA SerialExpire ==
  ASSUME IInv, IInv', Orderly, Quiet', Expire
  PROVE  Orderly'
<1>1. PICK n \in 1..MaxLogins :
        /\ grants' = [grants EXCEPT ![n].expired = grants[n].gen]
        /\ used' = [used EXCEPT !.expiries = @ + 1]
        /\ UNCHANGED <<jar, req, logins, called, tally>>
  BY DEF Expire
<1>2. /\ used \in [requests : Nat, expiries : Nat, faults : Nat]
      /\ grants \in [1..MaxLogins -> Grant] /\ grants' \in [1..MaxLogins -> Grant]
      /\ \A m \in 1..MaxLogins : grants[m].expired <= grants[m].gen
  BY DEF IInv, TypeOK
<1>3. Quiet
  BY <1>1, <1>2 DEF Quiet
<1>. DEFINE new == [grants[n] EXCEPT !.expired = grants[n].gen]
<1>4. /\ new.gen = grants[n].gen /\ new.key = grants[n].key /\ new.expired = grants[n].gen
      /\ grants' = [grants EXCEPT ![n] = new] /\ new \in Grant
  BY <1>1, <1>2 DEF Grant
<1>. HIDE DEF new
<1>5. \A m \in 1..MaxLogins :
        /\ grants'[m].gen = grants[m].gen /\ grants'[m].key = grants[m].key
        /\ grants[m].expired \in Nat /\ grants'[m].expired \in Nat
        /\ grants'[m].expired >= grants[m].expired
  BY <1>2, <1>4 DEF Grant
<1>6. ASSUME NEW s \in Session, Sound(s)
      PROVE  /\ Bound(s)' <=> Bound(s)
             /\ Fresh(s) => Fresh(s)'
  <2>1. CASE s.token = NoToken
    BY <2>1 DEF Bound, Fresh
  <2>2. CASE s.token # NoToken
    <3>1. s.token.grant \in 1..MaxLogins
      BY <1>6, <2>2, Attempts DEF Sound
    <3>. QED
      BY <1>5, <3>1 DEF Bound, Fresh
  <2>. QED
    BY <2>1, <2>2
<1>7. PICK j \in Session : j = jar.dpop /\ Sound(j)
  BY DEF IInv, TypeOK
<1>8. jar'.dpop = j
  BY <1>1, <1>7
<1>9. ASSUME NEW q \in Slots PROVE Serial(req[q])'
  <2>1. PICK r \in Request : r = req[q] /\ Serial(r) /\ r = req'[q] /\ Copied(r)
    BY <1>1, <1>3, RequestIs DEF Orderly, RequestOK
  <2>2. /\ r.cookie \in Session /\ r.sess \in Session /\ r.set.dpop \in Session \cup {None}
    BY DEF Request, Cookies
  <2>3. PICK k \in Session : k = r.cookie /\ Sound(k)
    BY <2>1, <2>2 DEF Copied
  <2>4. PICK s \in Session : s = r.sess /\ Sound(s)
    BY <2>1, <2>2 DEF Copied
  <2>5. PICK l \in Session : l = Left(r) /\ Sound(l)
    BY <1>7, <2>1, <2>2 DEF Copied, Left
  <2>6. Left(r)' = l
    BY <1>7, <1>8, <2>5 DEF Left
  <2>7. Fresh(k) => Fresh(k)'
    BY <1>6, <2>3
  <2>8. Fresh(s) => Fresh(s)'
    BY <1>6, <2>4
  <2>9. Fresh(l) => Fresh(l)'
    BY <1>6, <2>5
  <2>10. Served(r) => Served(r)'
    <3>1. Bound(k)' <=> Bound(k)
      BY <1>6, <2>3
    <3>2. Bound(k) => k.token.grant \in 1..MaxLogins /\ k.token.gen \in Nat
      BY <2>3, BoundIs
    <3>. QED
      BY <1>5, <2>3, <3>1, <3>2 DEF Served
  <2>11. Serial(r)'
    <3>1. r.pc # "idle" => r.cookie = jar'.dpop
      BY <1>7, <1>8, <2>1 DEF Serial
    <3>2. r.pc \in {"handle", "refresh"} => Fresh(k)'
      BY <2>1, <2>3, <2>7 DEF Serial
    <3>3. r.pc = "retry" => Fresh(s)'
      BY <2>1, <2>4, <2>8 DEF Serial
    <3>4. r.pc = "answered" => Fresh(l)' /\ Served(r)'
      BY <2>1, <2>5, <2>9, <2>10 DEF Serial
    <3>5. r.pc = "answered" => Fresh(Left(r))'
      BY <2>6, <3>4 DEF Fresh
    <3>. QED
      BY <2>1, <2>3, <2>4, <3>1, <3>2, <3>3, <3>4, <3>5 DEF Serial
  <2>. QED
    BY <2>1, <2>11 DEF Serial, Left, Served, Fresh, Bound
<1>10. (\A q \in Slots : ~Busy(q))' => Fresh(jar.dpop)'
  <2>1. SUFFICES ASSUME \A q \in Slots : ~Busy(q) PROVE Fresh(jar.dpop)'
    BY <1>1 DEF Busy
  <2>2. Fresh(j)
    BY <1>3, <1>7, <2>1 DEF Orderly
  <2>3. Fresh(j)'
    BY <1>6, <1>7, <2>2
  <2>. QED
    BY <1>8, <2>3 DEF Fresh, Bound
<1>. QED
  BY <1>1, <1>3, <1>9, <1>10 DEF Orderly, Busy

(* What is lost is a fault.                                                *)
LEMMA LostIsFault ==
  ASSUME IInv, NEW q \in Slots, Lose(q) \/ RefreshLost(q)
  PROVE  ~Quiet'
<1>1. used \in [requests : Nat, expiries : Nat, faults : Nat]
  BY DEF IInv, TypeOK
<1>2. used' = [used EXCEPT !.faults = @ + 1]
  BY DEF Lose, RefreshLost, Charge
<1>. QED
  BY <1>1, <1>2 DEF Quiet

LEMMA OrderlyInit == Init => Orderly
<1>. SUFFICES ASSUME Init PROVE Orderly
  OBVIOUS
<1>1. Fresh(jar.dpop)
  BY DEF Init, EmptySession, Fresh, Bound
<1>. QED
  BY <1>1 DEF Init, Orderly, Idle, Busy, Serial

LEMMA OrderlyStep ==
  ASSUME IInv, IInv', Orderly, [Next]_vars
  PROVE  Orderly'
<1>. SUFFICES ASSUME Quiet' PROVE Orderly'
  BY DEF Orderly
<1>1. CASE UNCHANGED vars
  BY <1>1 DEF vars, Orderly, Quiet, Busy, Serial, Fresh, Bound, Left, Served
<1>2. CASE Expire
  BY <1>2, SerialExpire
<1>3. ASSUME NEW q \in Slots,
             \/ SendLogin(q) \/ SendCallback(q) \/ SendBroker(q) \/ Deliver(q) \/ Lose(q)
             \/ Login(q) \/ CallbackUnable(q) \/ Callback(q) \/ CallbackLost(q)
             \/ BrokerUnable(q) \/ BrokerForward(q) \/ BrokerRefresh(q)
             \/ RefreshLost(q) \/ BrokerRetry(q)
      PROVE  Orderly'
  BY <1>3, SerialSends, SerialDeliver, SerialLogin, SerialCallback, SerialBrokerUnable,
     SerialBrokerForward, SerialBrokerRefresh, SerialBrokerRetry, LostIsFault
<1>. QED
  BY <1>1, <1>2, <1>3 DEF Next

(* The second layer: as long as one request follows the other and nothing  *)
(* fails, each of them is serial, and the browser's token is the newest.   *)
THEOREM OrderlyInvariance == Spec => []Orderly
<1>. QED
  BY OrderlyInit, OrderlyStep, Invariance, PTL DEF Spec

(***************************************************************************)
(* With one request at a time and no fault, every rotation of the refresh  *)
(* token reaches the browser: the token it holds is the newest.            *)
(***************************************************************************)
THEOREM RotationsArrive == Spec => []RotationReachesBrowser
<1>1. Orderly => RotationReachesBrowser
  BY DEF Orderly, RotationReachesBrowser, Busy, Fresh
<1>. QED
  BY <1>1, OrderlyInvariance, PTL

(***************************************************************************)
(* With one request at a time and no fault, a request sent with a token    *)
(* that fits its key is served, after one refresh at most, unless the new  *)
(* token expires before it is used.                                        *)
(***************************************************************************)
THEOREM FreshTokensServe == Spec => []BoundTokenIsServed
<1>1. Orderly => BoundTokenIsServed
  BY DEF Orderly, BoundTokenIsServed, Serial, Served
<1>. QED
  BY <1>1, OrderlyInvariance, PTL

-----------------------------------------------------------------------------
Newest == Len(logins)

(* The callbacks of the newest login that are being handled.               *)
Awaits(r) == r.kind = "callback" /\ r.pc = "handle" /\ r.arg = Newest
Waiting == {q \in Slots : Awaits(req[q])}

(* One of them that will succeed unless there is a fault: it brought the   *)
(* verifier and the key of its code, and the code is not redeemed.         *)
Will(r) ==
  /\ r.flashes # <<>> /\ Head(r.flashes) = r.arg
  /\ r.sess.key = r.arg /\ grants[r.arg].gen = 0
Hope == IF \E q \in Waiting : Will(req[q]) THEN 1 ELSE 0

(* Cookies under which the callback of the newest login will succeed.      *)
Ready(flashes, s) ==
  Newest >= 1 /\ flashes = <<Newest>> /\ s.key = Newest /\ grants[Newest].gen = 0
JarGood ==
  \/ Newest \in called \cup {0} /\ jar.flashes = <<>>
  \/ Newest \notin called /\ Ready(jar.flashes, jar.dpop)

(* What a request that is alone will leave in the browser.                 *)
Leaves(r) ==
  /\ r.kind = "login" /\ r.pc = "handle" => Newest \in called \cup {0} /\ r.flashes = <<>>
  /\ r.kind = "login" /\ r.pc # "handle" =>
       IF r.set.dpop = None THEN r.set.flashes = None
       ELSE Newest \notin called /\ Ready(r.set.flashes, r.set.dpop)
  /\ r.kind = "callback" => Newest \in called /\ (r.pc = "answered" => r.set.flashes = <<>>)
  /\ r.kind = "broker" =>
       /\ r.set.flashes = None /\ r.sess.key = jar.dpop.key
       /\ r.set.dpop # None => r.set.dpop.key = jar.dpop.key

(* The browser's cookies stay as they are.                                 *)
Spares(r) == r.kind # "callback" /\ (r.kind = "login" => r.set.dpop = None)

(* Nothing is out of order: one request at a time, and the cookies are, or *)
(* will be, those the newest login needs.                                  *)
Good ==
  /\ \A p, q \in Slots : Busy(p) /\ Busy(q) => p = q
  /\ (\A q \in Slots : Spares(req[q])) => JarGood
  /\ \A q \in Slots : Busy(q) => Leaves(req[q])
Disorder == IF Good THEN 0 ELSE 1

(* What may still fail, and the disorder that may make one more fail, is   *)
(* paid for.                                                               *)
Debt ==
  /\ IsFiniteSet(Waiting)
  /\ tally.failed + Cardinality(Waiting) + Disorder
       <= tally.disturbed + 2 * tally.crossed + used.faults + Hope

(* The numbers in it.                                                      *)
LEMMA DebtTyped ==
  ASSUME IInv, IsFiniteSet(Waiting)
  PROVE  /\ tally.failed \in Nat /\ tally.disturbed \in Nat /\ tally.crossed \in Nat
         /\ used.faults \in Nat /\ used.requests \in Nat
         /\ Cardinality(Waiting) \in Nat
         /\ Disorder \in {0, 1} /\ Hope \in {0, 1}
         /\ Hope = 1 => Cardinality(Waiting) >= 1
<1>1. Cardinality(Waiting) \in Nat
  BY FS_CardinalityType
<1>2. Hope = 1 => Cardinality(Waiting) >= 1
  <2>1. SUFFICES ASSUME Hope = 1 PROVE Waiting # {}
    BY <1>1, FS_EmptySet
  <2>. QED
    BY <2>1 DEF Hope
<1>3. /\ tally \in [failed : Nat, disturbed : Nat, crossed : Nat]
      /\ used \in [requests : Nat, expiries : Nat, faults : Nat]
  BY DEF IInv, TypeOK
<1>. QED
  BY <1>1, <1>2, <1>3 DEF Disorder, Hope

(* A request that goes on, alone, keeps the order when it leaves well.     *)
LEMMA GoodStays ==
  ASSUME IInv, Good, NEW q \in Slots, Busy(q), NEW r \in Request,
         req' = [req EXCEPT ![q] = r], Leaves(r)', Spares(r) => JarGood'
  PROVE  Good'
<1>1. \A p \in Slots : p # q => req[p] = Idle
  BY RequestIs DEF Good, Busy, RequestOK, Placed
<1>2. req'[q] = r /\ \A p \in Slots : p # q => req'[p] = Idle
  BY <1>1 DEF IInv, TypeOK
<1>3. \A p \in Slots : Busy(p)' => p = q
  BY <1>2 DEF Busy, Idle
<1>4. Leaves(req[q])'
  BY <1>2 DEF Leaves, Ready
<1>5. (\A p \in Slots : Spares(req[p]))' => JarGood'
  BY <1>2 DEF Spares
<1>. QED
  BY <1>3, <1>4, <1>5 DEF Good

(* A step that leaves the waiting callbacks alone: it keeps the order, or  *)
(* is a fault.                                                             *)
LEMMA DebtStays ==
  ASSUME IInv, IInv', Debt, Waiting' = Waiting,
         tally'.failed = tally.failed, tally'.disturbed = tally.disturbed,
         tally'.crossed = tally.crossed,
         Hope' >= Hope, used'.faults >= used.faults,
         (Good => Good') \/ used'.faults >= used.faults + 1
  PROVE  Debt'
<1>1. IsFiniteSet(Waiting)' /\ Cardinality(Waiting)' = Cardinality(Waiting)
  BY DEF Debt
<1>2. /\ tally.failed \in Nat /\ tally.disturbed \in Nat /\ tally.crossed \in Nat
      /\ used.faults \in Nat /\ Cardinality(Waiting) \in Nat
      /\ Disorder \in {0, 1} /\ Hope \in {0, 1}
  BY DebtTyped DEF Debt
<1>3. used'.faults \in Nat /\ Disorder' \in {0, 1} /\ Hope' \in {0, 1}
  <2>1. used' \in [requests : Nat, expiries : Nat, faults : Nat]
    BY DEF IInv, TypeOK
  <2>. QED
    BY <2>1 DEF Disorder, Hope
<1>4. Disorder' <= Disorder \/ used'.faults >= used.faults + 1
  BY DEF Disorder
<1>5. tally.failed + Cardinality(Waiting) + Disorder
        <= tally.disturbed + 2 * tally.crossed + used.faults + Hope
  BY DEF Debt
<1>6. tally'.failed + Cardinality(Waiting)' + Disorder'
        <= tally'.disturbed + 2 * tally'.crossed + used'.faults + Hope'
  BY <1>1, <1>2, <1>3, <1>4, <1>5
<1>. QED
  BY <1>1, <1>6 DEF Debt

(* The waiting callbacks wait on while another request goes on, and are as *)
(* hopeful as they were when no code of theirs was redeemed.               *)
LEMMA WaitOn ==
  ASSUME IInv, NEW q \in Slots, ~Awaits(req[q]), NEW r \in Request, ~Awaits(r),
         req' = [req EXCEPT ![q] = r], UNCHANGED logins,
         Newest \in 1..MaxLogins => (grants[Newest].gen = 0 => grants'[Newest].gen = 0)
  PROVE  Waiting' = Waiting /\ Hope' >= Hope
<1>1. req'[q] = r /\ \A p \in Slots : p # q => req'[p] = req[p]
  BY DEF IInv, TypeOK
<1>2. Waiting' = Waiting
  BY <1>1 DEF Waiting, Awaits, Newest
<1>3. \A p \in Waiting : req'[p] = req[p] /\ req[p].arg = Newest /\ Newest \in 1..MaxLogins
  BY <1>1, CallbackIs DEF Waiting, Awaits
<1>4. \A p \in Waiting : Will(req[p]) => Will(req[p])'
  BY <1>3 DEF Will
<1>. QED
  BY <1>2, <1>4 DEF Hope

(* One of the waiting callbacks is answered.                               *)
LEMMA WaitsNoMore ==
  ASSUME IInv, Debt, NEW q \in Slots, Awaits(req[q]), NEW r \in Request, ~Awaits(r),
         req' = [req EXCEPT ![q] = r], UNCHANGED logins
  PROVE  /\ Waiting' = Waiting \ {q} /\ q \in Waiting
         /\ IsFiniteSet(Waiting)' /\ Cardinality(Waiting)' = Cardinality(Waiting) - 1
         /\ ~Will(req[q]) /\ UNCHANGED grants => Hope' >= Hope
<1>1. req'[q] = r /\ \A p \in Slots : p # q => req'[p] = req[p]
  BY DEF IInv, TypeOK
<1>2. Waiting' = Waiting \ {q} /\ q \in Waiting
  BY <1>1 DEF Waiting, Awaits, Newest
<1>3. IsFiniteSet(Waiting)' /\ Cardinality(Waiting)' = Cardinality(Waiting) - 1
  BY <1>2, FS_RemoveElement DEF Debt
<1>4. ASSUME ~Will(req[q]), UNCHANGED grants PROVE Hope' >= Hope
  <2>1. \A p \in Waiting \ {q} : Will(req[p]) => Will(req[p])'
    BY <1>1, <1>4 DEF Will, Waiting
  <2>. QED
    BY <1>2, <1>4, <2>1 DEF Hope
<1>. QED
  BY <1>2, <1>3, <1>4

(* The request once its handler has answered.                              *)
Answered(r, answer, cookies) ==
  [r EXCEPT !.pc = "answered", !.answer = answer, !.set = cookies]

LEMMA AnswerIs ==
  ASSUME IInv, NEW q \in Slots, req[q].pc \in {"handle", "refresh", "retry"},
         NEW answer \in {"redirect", "home", "ok", "unauthorized", "error"},
         NEW cookies \in Cookies, Respond(q, answer, cookies),
         NEW r, r = Answered(req[q], answer, cookies)
  PROVE  /\ r \in Request /\ r.pc = "answered" /\ r.set = cookies /\ r.kind = req[q].kind
         /\ r.sess = req[q].sess /\ ~Awaits(r)
         /\ req' = [req EXCEPT ![q] = r]
<1>1. PICK s \in Request : s = req[q]
  BY RequestIs
<1>2. /\ r \in Request /\ r.pc = "answered" /\ r.set = cookies /\ r.kind = s.kind
      /\ r.sess = s.sess
  BY <1>1 DEF Request, Answered
<1>3. req' = [req EXCEPT ![q] = r]
  BY <1>1 DEF Respond, IInv, TypeOK, Request, Answered
<1>. QED
  BY <1>1, <1>2, <1>3 DEF Awaits


(* The browser sends a request: to cross another one costs two, and to     *)
(* disturb the newest login one.                                           *)
LEMMA DebtSend ==
  ASSUME IInv, IInv', Debt, NEW q \in Slots, NEW kind \in {"login", "callback", "broker"},
         NEW arg \in Accounts \cup 1..MaxLogins \cup {None},
         NEW disturbs \in BOOLEAN, Send(q, kind, arg, disturbs),
         kind = "callback" => called' = called \cup {arg},
         kind # "callback" => called' = called,
         ~disturbs => CASE kind = "login" -> Newest \in called \cup {0}
                        [] kind = "callback" -> arg = Newest /\ Newest \notin called /\ Newest >= 1
                        [] OTHER -> TRUE
  PROVE  Debt'
<1>. DEFINE sent == [Idle EXCEPT !.kind = kind, !.pc = "handle", !.arg = arg,
               !.cookie = jar.dpop, !.sess = jar.dpop, !.flashes = jar.flashes]
            counts == kind = "callback" /\ arg = Newest
            crosses == \E p \in Slots : Busy(p)
<1>. HIDE DEF crosses, counts
<1>0. PICK r \in Request : r = sent
  BY Constants DEF IInv, TypeOK, Request
<1>1. /\ req' = [req EXCEPT ![q] = r] /\ UNCHANGED <<jar, logins, grants>> /\ ~Busy(q)
  BY <1>0 DEF Send, Busy
<1>2. /\ tally'.failed = tally.failed
      /\ tally'.disturbed = tally.disturbed + Count(disturbs)
      /\ tally'.crossed = tally.crossed + Count(crosses)
      /\ used'.faults = used.faults
  <2>1. /\ tally \in [failed : Nat, disturbed : Nat, crossed : Nat]
        /\ used \in [requests : Nat, expiries : Nat, faults : Nat]
    BY DEF IInv, TypeOK
  <2>2. PICK m \in Nat, n \in Nat : m = Count(disturbs) /\ n = Count(crosses)
    BY DEF Count
  <2>3. tally' = [tally EXCEPT !.disturbed = @ + m, !.crossed = @ + n]
    BY <2>2 DEF Send, crosses, Busy
  <2>4. used' = [used EXCEPT !.requests = @ + 1]
    BY DEF Send
  <2>. QED
    BY <2>1, <2>2, <2>3, <2>4
<1>3. /\ r.kind = kind /\ r.pc = "handle" /\ r.arg = arg /\ r.sess = jar.dpop
      /\ r.flashes = jar.flashes /\ r.set = NoCookies
  BY <1>0 DEF Idle
<1>. HIDE DEF sent
<1>4. req'[q] = r /\ \A p \in Slots : p # q => req'[p] = req[p]
  BY <1>1 DEF IInv, TypeOK
<1>5. Newest' = Newest /\ Newest \in Nat
  BY <1>1, Attempts DEF Newest
<1>6. Waiting' = Waiting \cup (IF kind = "callback" /\ arg = Newest THEN {q} ELSE {})
  BY <1>1, <1>3, <1>4, <1>5 DEF Waiting, Awaits, Busy
<1>7. q \notin Waiting
  BY <1>1 DEF Waiting, Awaits, Busy
<1>8. /\ IsFiniteSet(Waiting)'
      /\ Cardinality(Waiting)' = Cardinality(Waiting) + Count(counts)
  <2>0. IsFiniteSet(Waiting) /\ Cardinality(Waiting) \in Nat
    BY DebtTyped DEF Debt
  <2>1. CASE counts
    <3>1. Waiting' = Waiting \cup {q} /\ Count(counts) = 1
      BY <1>6, <2>1 DEF counts, Count
    <3>. QED
      BY <1>7, <2>0, <3>1, FS_AddElement
  <2>2. CASE ~counts
    <3>1. Waiting' = Waiting /\ Count(counts) = 0
      BY <1>6, <2>2 DEF counts, Count
    <3>. QED
      BY <2>0, <3>1
  <2>. QED
    BY <2>1, <2>2
<1>9. Hope' >= Hope
  <2>1. \A p \in Waiting : req'[p] = req[p] /\ (Will(req[p]) => Will(req[p])')
    BY <1>1, <1>4, <1>7 DEF Will, Waiting
  <2>. QED
    BY <1>6, <2>1 DEF Hope
<1>10. /\ tally.failed \in Nat /\ tally.disturbed \in Nat /\ tally.crossed \in Nat
       /\ used.faults \in Nat /\ Cardinality(Waiting) \in Nat
       /\ Disorder \in {0, 1} /\ Hope \in {0, 1} /\ Disorder' \in {0, 1} /\ Hope' \in {0, 1}
  BY DebtTyped DEF Debt, Disorder, Hope
<1>11. Cardinality(Waiting) + Disorder + tally.failed
         <= tally.disturbed + 2 * tally.crossed + used.faults + Hope
  BY <1>10 DEF Debt
<1>12. SUFFICES Cardinality(Waiting)' + tally'.failed + Disorder'
         <= tally'.disturbed + 2 * tally'.crossed + used'.faults + Hope'
  BY <1>2, <1>8, <1>10 DEF Debt, Count
<1>13. CASE crosses
  BY <1>2, <1>8, <1>9, <1>10, <1>11, <1>13 DEF Count
<1>14. CASE ~crosses
  <2>1. \A p \in Slots : req[p] = Idle /\ ~Busy(p)
    BY <1>14, RequestIs DEF crosses, Busy, RequestOK, Placed
  <2>2. \A p \in Slots : Busy(p)' <=> p = q
    BY <1>3, <1>4, <2>1 DEF Busy
  <2>3. Good <=> JarGood
    BY <2>1 DEF Good, Spares, Idle
  <2>4. Good' <=> (Spares(r) => JarGood') /\ Leaves(r)'
    <3>1. Leaves(req[q])' <=> Leaves(r)'
      BY <1>4 DEF Leaves, Ready
    <3>2. \A p \in Slots \ {q} : Spares(req[p])'
      BY <1>4, <2>1 DEF Spares, Idle
    <3>3. (\A p \in Slots : Spares(req[p]))' <=> Spares(r)
      BY <1>4, <3>2 DEF Spares
    <3>. QED
      BY <2>2, <3>1, <3>3 DEF Good
  <2>5. Waiting = {}
    BY <2>1 DEF Waiting, Awaits, Idle
  <2>6. Cardinality(Waiting) = 0 /\ Hope = 0
    BY <2>5, FS_EmptySet DEF Hope
  <2>7. CASE kind = "login"
    <3>1. ASSUME ~disturbs, Good PROVE Good'
      <4>1. Newest \in called \cup {0} /\ jar.flashes = <<>>
        BY <1>5, <2>3, <2>7, <3>1 DEF JarGood, Ready
      <4>2. Leaves(r)' /\ JarGood'
        BY <1>1, <1>3, <1>5, <2>7, <4>1 DEF Leaves, JarGood
      <4>. QED
        BY <2>4, <4>2
    <3>. QED
      BY <1>2, <1>8, <1>9, <1>10, <1>11, <2>7, <3>1 DEF Count, counts, Disorder
  <2>8. CASE kind = "broker"
    <3>1. ASSUME Good PROVE Good'
      <4>1. JarGood'
        BY <1>1, <1>5, <2>3, <2>8, <3>1 DEF JarGood, Ready
      <4>2. Leaves(r)'
        BY <1>1, <1>3, <2>8 DEF Leaves, NoCookies
      <4>. QED
        BY <2>4, <4>1, <4>2
    <3>. QED
      BY <1>2, <1>8, <1>9, <1>10, <1>11, <2>8, <3>1 DEF Count, counts, Disorder
  <2>9. CASE kind = "callback"
    <3>1. CASE arg # Newest
      <4>1. disturbs
        BY <2>9, <3>1
      <4>. QED
        BY <1>2, <1>8, <1>9, <1>10, <1>11, <2>9, <3>1, <4>1 DEF Count, counts
    <3>2. CASE arg = Newest
      <4>1. Good'
        <5>1. Newest' \in called'
          BY <1>5, <2>9, <3>2
        <5>. QED
          BY <1>3, <2>4, <2>9, <5>1 DEF Leaves, Spares
      <4>2. ASSUME ~disturbs, Good PROVE Hope' = 1
        <5>1. Ready(jar.flashes, jar.dpop)
          BY <1>5, <2>3, <2>9, <4>2 DEF JarGood
        <5>2. r.flashes = <<Newest>> /\ Head(r.flashes) = Newest /\ r.sess.key = Newest
          BY <1>3, <5>1 DEF Ready
        <5>3. Will(r)'
          BY <1>1, <1>3, <3>2, <5>1, <5>2 DEF Will, Ready
        <5>4. q \in Waiting' /\ Will(req[q])'
          BY <1>4, <1>6, <2>9, <3>2, <5>3 DEF Will
        <5>. QED
          BY <5>4 DEF Hope
      <4>. QED
        BY <1>2, <1>8, <1>9, <1>10, <1>11, <2>6, <2>9, <3>2, <4>1, <4>2 DEF Count, counts, Disorder
    <3>. QED
      BY <3>1, <3>2
  <2>. QED
    BY <2>7, <2>8, <2>9
<1>. QED
  BY <1>13, <1>14

LEMMA DebtSends ==
  ASSUME IInv, IInv', Debt, NEW q \in Slots, SendLogin(q) \/ SendCallback(q) \/ SendBroker(q)
  PROVE  Debt'
<1>1. CASE SendLogin(q)
  <2>. DEFINE b == logins # <<>> /\ Len(logins) \notin called
  <2>1. PICK a \in Accounts : Send(q, "login", a, b)
    BY <1>1 DEF SendLogin
  <2>2. b \in BOOLEAN /\ called' = called
    BY <1>1 DEF SendLogin
  <2>3. ~b => Newest \in called \cup {0}
    <3>1. logins \in Seq([account : Accounts, key : 1..MaxLogins])
      BY DEF IInv, TypeOK
    <3>2. logins = <<>> => Len(logins) = 0
      OBVIOUS
    <3>. QED
      BY <3>1, <3>2 DEF Newest
  <2>. HIDE DEF b
  <2>. QED
    BY <2>1, <2>2, <2>3, DebtSend
<1>2. CASE SendCallback(q)
  <2>1. PICK n \in 1..Len(logins) :
          Send(q, "callback", n, n # Len(logins) \/ n \in called) /\ called' = called \cup {n}
    BY <1>2 DEF SendCallback
  <2>. DEFINE b == n # Len(logins) \/ n \in called
  <2>2. b \in BOOLEAN /\ Send(q, "callback", n, b)
    BY <2>1
  <2>3. n \in 1..MaxLogins
    BY Attempts
  <2>4. ~b => n = Newest /\ Newest \notin called /\ Newest >= 1
    BY Attempts DEF Newest
  <2>. HIDE DEF b
  <2>. QED
    BY <2>1, <2>2, <2>3, <2>4, DebtSend
<1>3. CASE SendBroker(q)
  <2>1. Send(q, "broker", None, FALSE) /\ called' = called
    BY <1>3 DEF SendBroker
  <2>. QED
    BY <2>1, DebtSend
<1>. QED
  BY <1>1, <1>2, <1>3

(* The response of a request that was alone brings what it should.         *)
LEMMA DebtDeliver ==
  ASSUME IInv, IInv', Debt, NEW q \in Slots, Deliver(q)
  PROVE  Debt'
<1>1. /\ req[q].pc = "answered" /\ req' = [req EXCEPT ![q] = Idle]
      /\ UNCHANGED <<logins, called, grants, used, tally>>
  BY DEF Deliver
<1>2. ~Awaits(req[q]) /\ ~Awaits(Idle) /\ Idle \in Request
  BY <1>1, Constants DEF Awaits, Idle
<1>3. Waiting' = Waiting /\ Hope' >= Hope
  BY <1>1, <1>2, WaitOn
<1>4. ASSUME Good PROVE Good'
  <2>1. Busy(q) /\ \A p \in Slots : p # q => req[p] = Idle
    BY <1>1, <1>4, RequestIs DEF Good, Busy, RequestOK, Placed
  <2>2. \A p \in Slots : req'[p] = Idle
    BY <1>1, <2>1 DEF IInv, TypeOK
  <2>3. req[q] \in Request /\ Leaves(req[q]) /\ req[q].kind \in {"login", "callback", "broker"}
    BY <1>1, <1>4, <2>1, RequestIs DEF Good, RequestOK, Placed, Request
  <2>4. Spares(req[q]) => JarGood
    BY <1>4, <2>1 DEF Good, Spares, Idle
  <2>5. /\ jar'.dpop = IF req[q].set.dpop = None THEN jar.dpop ELSE req[q].set.dpop
        /\ jar'.flashes = IF req[q].set.flashes = None THEN jar.flashes ELSE req[q].set.flashes
    <3>1. jar \in [dpop : Session, flashes : Seq(1..MaxLogins), did : Accounts \cup {None}]
      BY DEF IInv, TypeOK
    <3>2. jar' = [c \in DOMAIN jar |-> IF req[q].set[c] = None THEN jar[c] ELSE req[q].set[c]]
      BY DEF Deliver
    <3>. QED
      BY <3>1, <3>2
  <2>6. Newest' = Newest /\ UNCHANGED <<called, grants>> /\ Newest \in 0..MaxLogins
    BY <1>1, Attempts DEF Newest
  <2>7. <<>> # None /\ (Newest >= 1 => <<Newest>> # None)
    <3>1. <<>> \in Seq(1..MaxLogins)
      OBVIOUS
    <3>2. Newest >= 1 => <<Newest>> \in Seq(1..MaxLogins)
      <4>1. SUFFICES ASSUME Newest >= 1 PROVE <<Newest>> \in Seq(1..MaxLogins)
        OBVIOUS
      <4>2. Newest \in 1..MaxLogins
        BY <2>6, <4>1, Attempts
      <4>. QED
        BY <4>2
    <3>. QED
      BY <3>1, <3>2, NoneAssumption
  <2>8. JarGood'
    <3>1. CASE req[q].kind = "login" /\ req[q].set.dpop # None
      BY <1>1, <2>3, <2>5, <2>6, <2>7, <3>1 DEF Leaves, JarGood, Ready
    <3>2. CASE req[q].kind = "login" /\ req[q].set.dpop = None
      BY <1>1, <2>3, <2>4, <2>5, <2>6, <3>2 DEF Leaves, JarGood, Ready, Spares
    <3>3. CASE req[q].kind = "callback"
      BY <1>1, <2>3, <2>5, <2>6, <2>7, <3>3 DEF Leaves, JarGood
    <3>4. CASE req[q].kind = "broker"
      BY <2>3, <2>4, <2>5, <2>6, <3>4 DEF Leaves, JarGood, Ready, Spares
    <3>. QED
      BY <2>3, <3>1, <3>2, <3>3, <3>4
  <2>. QED
    BY <2>2, <2>8 DEF Good, Busy, Idle
<1>. QED
  BY <1>1, <1>3, <1>4, DebtStays, DebtTyped DEF Debt

LEMMA DebtLose ==
  ASSUME IInv, IInv', Debt, NEW q \in Slots, Lose(q)
  PROVE  Debt'
<1>1. /\ req[q].pc = "answered" /\ req' = [req EXCEPT ![q] = Idle]
      /\ used' = [used EXCEPT !.faults = @ + 1]
      /\ UNCHANGED <<jar, logins, called, grants, tally>>
  BY DEF Lose
<1>2. ~Awaits(req[q]) /\ ~Awaits(Idle) /\ Idle \in Request
  BY <1>1, Constants DEF Awaits, Idle
<1>3. Waiting' = Waiting /\ Hope' >= Hope
  BY <1>1, <1>2, WaitOn
<1>4. used'.faults = used.faults + 1 /\ used.faults \in Nat
  <2>1. used \in [requests : Nat, expiries : Nat, faults : Nat]
    BY DEF IInv, TypeOK
  <2>. QED
    BY <1>1, <2>1
<1>. QED
  BY <1>1, <1>3, <1>4, DebtStays

(* What a call costs.                                                      *)
LEMMA Charged ==
  ASSUME IInv, NEW out \in {"answer", "nonce", "error"}, Charge(out)
  PROVE  /\ used.faults \in Nat /\ used'.faults \in Nat
         /\ used'.faults = used.faults + Count(out # "answer")
<1>1. used \in [requests : Nat, expiries : Nat, faults : Nat]
  BY DEF IInv, TypeOK
<1>2. PICK m \in Nat : m = Count(out # "answer") /\ used' = [used EXCEPT !.faults = @ + m]
  <2>1. Count(out # "answer") = IF out = "answer" THEN 0 ELSE 1
    BY DEF Count
  <2>. QED
    BY <2>1 DEF Charge
<1>. QED
  BY <1>1, <1>2

(* A login that is pushed becomes the newest, and nothing waits for it.    *)
LEMMA DebtLogin ==
  ASSUME IInv, IInv', Debt, NEW q \in Slots, Login(q)
  PROVE  Debt'
<1>. DEFINE n == Len(logins) + 1
            s == NewSession(req[q].sess, n, req[q].arg)
<1>1. /\ req[q].kind = "login" /\ req[q].pc = "handle" /\ n \in 1..MaxLogins
      /\ UNCHANGED <<jar, called, grants, tally>>
  BY Attempts DEF Login, Handling
<1>2. PICK z \in Session : z = req[q].sess
  BY RequestIs
<1>3. req[q].arg \in Accounts
  BY <1>1, RequestIs DEF RequestOK, Placed
<1>4. s \in Session /\ s.key = n
  <2>1. s = [z EXCEPT !.key = n, !.account = req[q].arg]
    BY <1>2 DEF NewSession
  <2>2. n \in 0..MaxLogins /\ req[q].arg \in Accounts \cup {None}
    BY <1>1, <1>3, Attempts
  <2>. HIDE DEF s, n
  <2>. QED
    BY <1>2, <2>1, <2>2 DEF Session
<1>. HIDE DEF s
<1>5. PICK d \in Authorize(s, req[q].arg) :
        /\ Charge(d.out)
        /\ IF d.out = "answer"
           THEN /\ logins' = Append(logins, d.attempt)
                /\ Respond(q, "redirect", [NoCookies EXCEPT
                     !.dpop = d.sess, !.flashes = Append(req[q].flashes, n)])
           ELSE UNCHANGED logins /\ Respond(q, "error", NoCookies)
  BY DEF Login, s
<1>6. PICK e \in Do(s, "auth") : d = [sess |-> e.sess, out |-> e.out, attempt |-> PushedRequest(e.sess, req[q].arg)]
  BY DEF Authorize
<1>7. /\ d.out \in {"answer", "nonce", "error"} /\ d.sess \in Session
      /\ d.sess = [s EXCEPT !.nonce = d.sess.nonce]
  BY <1>4, <1>6, DoKeeps
<1>8. used.faults \in Nat /\ used'.faults \in Nat /\ used'.faults = used.faults + Count(d.out # "answer")
  BY <1>5, <1>7, Charged
<1>9. ~Awaits(req[q])
  BY <1>1 DEF Awaits
<1>10. CASE d.out # "answer"
  <2>1. Respond(q, "error", NoCookies) /\ UNCHANGED logins
    BY <1>5, <1>10
  <2>2. PICK r : r = Answered(req[q], "error", NoCookies)
    OBVIOUS
  <2>3. r \in Request /\ ~Awaits(r) /\ req' = [req EXCEPT ![q] = r]
    BY <1>1, <2>1, <2>2, PlainCookies, AnswerIs
  <2>4. Waiting' = Waiting /\ Hope' >= Hope
    BY <1>1, <1>9, <2>1, <2>3, WaitOn
  <2>. QED
    BY <1>1, <1>8, <1>10, <2>4, DebtStays DEF Count
<1>11. CASE d.out = "answer"
  <2>1. PICK y \in Session : y = d.sess
    BY <1>7
  <2>2. y.key = n
    BY <1>4, <1>7, <2>1 DEF Session
  <2>. DEFINE c == [NoCookies EXCEPT !.dpop = y, !.flashes = Append(req[q].flashes, n)]
  <2>3. logins' = Append(logins, d.attempt) /\ Respond(q, "redirect", c)
    BY <1>5, <1>11, <2>1
  <2>4. c \in Cookies /\ c.dpop = y /\ c.flashes = Append(req[q].flashes, n) /\ y # None
    <3>1. Append(req[q].flashes, n) \in Seq(1..MaxLogins)
      BY <1>1, RequestIs, AppendProperties DEF Request
    <3>. QED
      BY <3>1, PlainCookies, NoneAssumption DEF Cookies, NoCookies
  <2>. HIDE DEF c
  <2>5. PICK k \in Cookies : k = c
    BY <2>4
  <2>6. PICK r : r = Answered(req[q], "redirect", k)
    OBVIOUS
  <2>7. /\ r \in Request /\ ~Awaits(r) /\ req' = [req EXCEPT ![q] = r]
        /\ r.kind = "login" /\ r.pc = "answered" /\ r.set = k
    BY <1>1, <2>3, <2>5, <2>6, AnswerIs
  <2>8. Newest' = n /\ Newest = n - 1
    <3>1. logins \in Seq([account : Accounts, key : 1..MaxLogins])
      BY DEF IInv, TypeOK
    <3>2. Len(logins') = Len(logins) + 1
      BY <2>3, <3>1
    <3>. QED
      BY <3>2, Attempts DEF Newest
  <2>9. n \notin called /\ grants[n].gen = 0
    <3>1. called \subseteq 1..Len(logins) /\ (grants[n].gen # 0 => n <= Len(logins))
      BY <1>1 DEF IInv, TypeOK, Granted
    <3>. QED
      BY <3>1, Attempts
  <2>10. Waiting' = {} /\ Hope' = 0
    <3>1. \A p \in Slots : p # q => req'[p] = req[p]
      BY <2>7 DEF IInv, TypeOK
    <3>2. \A p \in Slots : req[p].kind = "callback" => req[p].arg # n
      BY <2>9, CallbackIs
    <3>3. req'[q] = r
      BY <2>7 DEF IInv, TypeOK
    <3>4. \A p \in Slots : ~Awaits(req[p])'
      BY <2>7, <2>8, <3>1, <3>2, <3>3 DEF Awaits
    <3>. QED
      BY <3>4 DEF Waiting, Hope
  <2>11. ASSUME Good PROVE Good'
    <3>1. Busy(q) /\ Newest \in called \cup {0} /\ req[q].flashes = <<>>
      BY <1>1, <1>11, <2>11 DEF Good, Busy, Leaves
    <3>2. k.flashes = <<n>>
      BY <2>4, <2>5, <3>1
    <3>3. Ready(k.flashes, k.dpop)' /\ (Newest \notin called)'
      BY <1>1, <2>2, <2>4, <2>5, <2>8, <2>9, <3>2 DEF Ready
    <3>4. Leaves(r)' /\ ~Spares(r)
      BY <2>4, <2>5, <2>7, <3>3 DEF Leaves, Spares
    <3>. QED
      BY <2>7, <2>11, <3>1, <3>4, GoodStays
  <2>12. IsFiniteSet(Waiting)' /\ Cardinality(Waiting)' = 0
    BY <2>10, FS_EmptySet
  <2>13. /\ tally.failed \in Nat /\ tally.disturbed \in Nat /\ tally.crossed \in Nat
         /\ Cardinality(Waiting) \in Nat /\ Disorder \in {0, 1} /\ Hope \in {0, 1}
         /\ Hope = 1 => Cardinality(Waiting) >= 1
    BY DebtTyped DEF Debt
  <2>14. tally.failed + Cardinality(Waiting) + Disorder
           <= tally.disturbed + 2 * tally.crossed + used.faults + Hope
    BY DEF Debt
  <2>15. Disorder' <= Disorder /\ Disorder' \in {0, 1}
    BY <2>11 DEF Disorder
  <2>16. tally'.failed + Cardinality(Waiting)' + Disorder'
           <= tally'.disturbed + 2 * tally'.crossed + used'.faults + Hope'
    <3>1. used'.faults = used.faults
      BY <1>8, <1>11 DEF Count
    <3>2. /\ tally'.failed = tally.failed /\ tally'.disturbed = tally.disturbed
          /\ tally'.crossed = tally.crossed
      BY <1>1
    <3>3. tally.failed + Disorder' <= tally.disturbed + 2 * tally.crossed + used.faults
      BY <1>8, <2>13, <2>14, <2>15
    <3>. QED
      BY <1>8, <2>10, <2>12, <2>13, <2>15, <3>1, <3>2, <3>3
  <2>. QED
    BY <2>12, <2>16 DEF Debt
<1>. QED
  BY <1>10, <1>11

(* The sum, when a waiting callback succeeds, is paid for or had no hope.  *)
LEMMA Balance ==
  ASSUME NEW f \in Nat, NEW f2 \in Nat, NEW w \in Nat, NEW g \in Nat,
         NEW u \in Nat, NEW u2 \in Nat, NEW j \in {0, 1}, NEW j2 \in {0, 1},
         NEW h \in {0, 1}, NEW h2 \in {0, 1},
         f + w + j <= g + u + h, u2 >= u, j2 <= j,
         f2 = f \/ (f2 = f + 1 /\ (u2 >= u + 1 \/ h2 >= h))
  PROVE  f2 + (w - 1) + j2 <= g + u2 + h2
OBVIOUS

(* A callback is answered.  When it is one of the newest login, it no      *)
(* longer waits, and fails at no cost only if it had no hope.              *)
LEMMA DebtCallback ==
  ASSUME IInv, IInv', Debt, NEW q \in Slots, req[q].kind = "callback", req[q].pc = "handle",
         NEW answer \in {"home", "error"}, NEW cookies \in Cookies, cookies.flashes = <<>>,
         Respond(q, answer, cookies), UNCHANGED <<jar, logins, called>>,
         tally'.disturbed = tally.disturbed, tally'.crossed = tally.crossed,
         used'.faults >= used.faults,
         \/ tally'.failed = tally.failed
         \/ /\ req[q].arg = Newest /\ tally'.failed = tally.failed + 1
            /\ \/ used'.faults >= used.faults + 1
               \/ ~Will(req[q]) /\ UNCHANGED grants,
         req[q].arg # Newest /\ Newest \in 1..MaxLogins /\ grants[Newest].gen = 0
           => grants'[Newest].gen = 0
  PROVE  Debt'
<1>1. PICK r : r = Answered(req[q], answer, cookies)
  OBVIOUS
<1>2. /\ r \in Request /\ ~Awaits(r) /\ req' = [req EXCEPT ![q] = r]
      /\ r.kind = "callback" /\ r.pc = "answered" /\ r.set = cookies
  BY <1>1, AnswerIs
<1>3. Newest' = Newest
  BY DEF Newest
<1>4. ASSUME Good PROVE Good'
  <2>1. Busy(q) /\ Newest \in called
    BY <1>4 DEF Good, Busy, Leaves
  <2>2. Leaves(r)' /\ ~Spares(r)
    BY <1>2, <1>3, <2>1 DEF Leaves, Spares
  <2>. QED
    BY <1>2, <1>4, <2>1, <2>2, GoodStays
<1>5. CASE req[q].arg # Newest
  <2>1. ~Awaits(req[q])
    BY <1>5 DEF Awaits
  <2>2. Waiting' = Waiting /\ Hope' >= Hope
    BY <1>2, <1>5, <2>1, WaitOn
  <2>. QED
    BY <1>4, <1>5, <2>2, DebtStays
<1>6. CASE req[q].arg = Newest
  <2>1. Awaits(req[q])
    BY <1>6 DEF Awaits
  <2>2. /\ IsFiniteSet(Waiting)' /\ Cardinality(Waiting)' = Cardinality(Waiting) - 1
        /\ ~Will(req[q]) /\ UNCHANGED grants => Hope' >= Hope
    BY <1>2, <2>1, WaitsNoMore
  <2>3. /\ tally.failed \in Nat /\ tally.disturbed \in Nat /\ tally.crossed \in Nat
        /\ used.faults \in Nat /\ used'.faults \in Nat /\ tally'.failed \in Nat
        /\ Cardinality(Waiting) \in Nat /\ Disorder \in {0, 1} /\ Hope \in {0, 1}
    <3>1. /\ used' \in [requests : Nat, expiries : Nat, faults : Nat]
          /\ tally' \in [failed : Nat, disturbed : Nat, crossed : Nat]
      BY DEF IInv, TypeOK
    <3>. QED
      BY <3>1, DebtTyped DEF Debt
  <2>4. tally.failed + Cardinality(Waiting) + Disorder
          <= tally.disturbed + 2 * tally.crossed + used.faults + Hope
    BY DEF Debt
  <2>5. Disorder' <= Disorder /\ Disorder' \in {0, 1} /\ Hope' \in {0, 1}
    BY <1>4 DEF Disorder, Hope
  <2>6. tally'.failed + Cardinality(Waiting)' + Disorder'
          <= tally'.disturbed + 2 * tally'.crossed + used'.faults + Hope'
    <3>. DEFINE given == tally.disturbed + 2 * tally.crossed
    <3>1. given \in Nat /\ tally'.disturbed + 2 * tally'.crossed = given
      BY <2>3
    <3>2. tally.failed + Cardinality(Waiting) + Disorder <= given + used.faults + Hope
      BY <2>4
    <3>. HIDE DEF given
    <3>3. \/ tally'.failed = tally.failed
          \/ tally'.failed = tally.failed + 1 /\ (used'.faults >= used.faults + 1 \/ Hope' >= Hope)
      BY <2>2
    <3>4. tally'.failed + (Cardinality(Waiting) - 1) + Disorder' <= given + used'.faults + Hope'
      <4>1. PICK f \in Nat, w \in Nat, u \in Nat, j \in {0, 1}, h \in {0, 1} :
              /\ f = tally.failed /\ w = Cardinality(Waiting) /\ u = used.faults
              /\ j = Disorder /\ h = Hope
        BY <2>3
      <4>2. PICK f2 \in Nat, u2 \in Nat, j2 \in {0, 1}, h2 \in {0, 1} :
              f2 = tally'.failed /\ u2 = used'.faults /\ j2 = Disorder' /\ h2 = Hope'
        BY <2>3, <2>5
      <4>3. given \in Nat /\ f + w + j <= given + u + h
        BY <3>1, <3>2, <4>1
      <4>4. u2 >= u /\ j2 <= j
        BY <2>5, <4>1, <4>2
      <4>5. f2 = f \/ (f2 = f + 1 /\ (u2 >= u + 1 \/ h2 >= h))
        BY <3>3, <4>1, <4>2
      <4>6. f2 + (w - 1) + j2 <= given + u2 + h2
        BY <4>3, <4>4, <4>5, Balance
      <4>. QED
        BY <4>1, <4>2, <4>6
    <3>. QED
      BY <2>2, <3>1, <3>4
  <2>. QED
    BY <2>2, <2>6 DEF Debt
<1>. QED
  BY <1>5, <1>6

(* What a failure adds to the history.                                     *)
LEMMA Failed ==
  ASSUME IInv, NEW q, NEW cookies, Fail(q, cookies)
  PROVE  /\ tally'.disturbed = tally.disturbed /\ tally'.crossed = tally.crossed
         /\ \/ tally'.failed = tally.failed
            \/ req[q].arg = Newest /\ tally'.failed = tally.failed + 1
         /\ Respond(q, "error", cookies)
<1>1. tally \in [failed : Nat, disturbed : Nat, crossed : Nat]
  BY DEF IInv, TypeOK
<1>2. PICK m \in {0, 1} :
        /\ m = 1 => req[q].arg = Newest
        /\ tally' = [tally EXCEPT !.failed = @ + m]
  <2>1. PICK m : m = IF req[q].arg = Len(logins) THEN 1 ELSE 0
    OBVIOUS
  <2>2. m \in {0, 1} /\ (m = 1 => req[q].arg = Newest)
    BY <2>1 DEF Newest
  <2>3. tally' = [tally EXCEPT !.failed = @ + m]
    BY <2>1 DEF Fail
  <2>. QED
    BY <2>2, <2>3
<1>3. /\ tally'.disturbed = tally.disturbed /\ tally'.crossed = tally.crossed
      /\ tally'.failed = tally.failed + m
  BY <1>1, <1>2
<1>. QED
  BY <1>1, <1>2, <1>3 DEF Fail

LEMMA DebtCallbacks ==
  ASSUME IInv, IInv', Debt, NEW q \in Slots,
         CallbackUnable(q) \/ Callback(q) \/ CallbackLost(q)
  PROVE  Debt'
<1>. DEFINE code == req[q].arg
<1>1. /\ req[q].kind = "callback" /\ req[q].pc = "handle" /\ UNCHANGED <<jar, logins, called>>
      /\ code \in 1..Len(logins) /\ code \in 1..MaxLogins
  <2>1. /\ req[q].kind = "callback" /\ req[q].pc = "handle"
        /\ UNCHANGED <<jar, logins, called>>
    BY DEF CallbackUnable, Callback, CallbackLost, Handling
  <2>. QED
    BY <2>1, CallbackIs
<1>2. used.faults \in Nat
  BY DebtTyped DEF Debt
<1>3. CASE CallbackUnable(q)
  <2>1. /\ req[q].flashes = <<>> \/ req[q].sess.key = 0
        /\ Fail(q, Cleared) /\ UNCHANGED <<grants, used>>
    BY <1>3 DEF CallbackUnable
  <2>2. ~Will(req[q])
    BY <1>1, <2>1, Attempts DEF Will
  <2>3. used'.faults >= used.faults
    BY <1>2, <2>1
  <2>. QED
    BY <1>1, <2>1, <2>2, <2>3, Failed, PlainCookies, DebtCallback
<1>4. CASE Callback(q)
  <2>1. PICK d \in ExchangeCode(req[q].sess, code, Head(req[q].flashes)) :
          /\ Charge(d.out)
          /\ IF d.ok
             THEN /\ Issues(code, d.sess.key)
                  /\ Respond(q, "home", [dpop |-> [d.sess EXCEPT !.issuer = TRUE,
                                           !.token = [grant |-> code, gen |-> 1]],
                                         flashes |-> <<>>, did |-> d.sess.account])
                  /\ UNCHANGED tally
             ELSE Fail(q, Cleared) /\ UNCHANGED grants
    BY <1>4 DEF Callback
  <2>2. PICK e \in Do(req[q].sess, "auth") :
          d = [sess |-> e.sess, out |-> e.out,
               ok |-> e.out = "answer" /\ Redeems(e.sess, code, Head(req[q].flashes))]
    BY <2>1 DEF ExchangeCode
  <2>3. /\ e.sess \in Session /\ e.out \in {"answer", "nonce", "error"}
        /\ e.sess = [req[q].sess EXCEPT !.nonce = e.sess.nonce]
    BY RequestIs, DoKeeps
  <2>4. used'.faults \in Nat /\ used'.faults = used.faults + Count(d.out # "answer")
    BY <2>1, <2>2, <2>3, Charged
  <2>5. used'.faults >= used.faults /\ (d.out # "answer" => used'.faults >= used.faults + 1)
    BY <1>2, <2>4 DEF Count
  <2>6. CASE ~d.ok
    <3>1. Fail(q, Cleared) /\ UNCHANGED grants
      BY <2>1, <2>6
    <3>2. ~Will(req[q]) \/ used'.faults >= used.faults + 1
      <4>1. SUFFICES ASSUME Will(req[q]), d.out = "answer" PROVE FALSE
        BY <2>5
      <4>2. e.sess.key = req[q].sess.key
        BY <2>3, RequestIs DEF Session
      <4>3. Redeems(e.sess, code, Head(req[q].flashes))
        BY <1>1, <4>1, <4>2 DEF Redeems, Will, IInv, Granted
      <4>. QED
        BY <2>2, <2>6, <4>1, <4>3
    <3>. QED
      BY <1>1, <2>5, <3>1, <3>2, Failed, PlainCookies, DebtCallback
  <2>7. CASE d.ok
    <3>1. [grant |-> code, gen |-> 1] \in Token
      BY <1>1, Attempts DEF Token
    <3>2. PICK s \in Session :
            s = [d.sess EXCEPT !.issuer = TRUE, !.token = [grant |-> code, gen |-> 1]]
      BY <2>2, <2>3, <3>1 DEF Session
    <3>3. d.sess.account \in Accounts \cup {None}
      BY <2>2, <2>3 DEF Session
    <3>. DEFINE c == [dpop |-> s, flashes |-> <<>>, did |-> d.sess.account]
    <3>4. c \in Cookies /\ c.flashes = <<>>
      <4>1. <<>> \in Seq(1..MaxLogins)
        OBVIOUS
      <4>. QED
        BY <3>3, <4>1 DEF Cookies
    <3>5. Respond(q, "home", c) /\ Issues(code, d.sess.key) /\ UNCHANGED tally
      BY <2>1, <2>7, <3>2
    <3>6. Newest \in 1..MaxLogins /\ code # Newest => grants'[Newest] = grants[Newest]
      BY <3>5 DEF Issues, IInv, TypeOK
    <3>. HIDE DEF c
    <3>. QED
      BY <1>1, <2>5, <3>4, <3>5, <3>6, DebtCallback
  <2>. QED
    BY <2>6, <2>7
<1>5. CASE CallbackLost(q)
  <2>1. Charge("error") /\ Fail(q, Cleared) /\ Issues(code, req[q].sess.key)
    BY <1>5 DEF CallbackLost
  <2>2. used'.faults >= used.faults + 1 /\ used'.faults >= used.faults
    <3>1. used'.faults \in Nat /\ used'.faults = used.faults + Count("error" # "answer")
      BY <2>1, Charged
    <3>. QED
      BY <1>2, <3>1 DEF Count
  <2>3. Newest \in 1..MaxLogins /\ code # Newest => grants'[Newest] = grants[Newest]
    BY <2>1 DEF Issues, IInv, TypeOK
  <2>. QED
    BY <1>1, <2>1, <2>2, <2>3, Failed, PlainCookies, DebtCallback
<1>. QED
  BY <1>3, <1>4, <1>5

(* A broker goes on, or answers: it neither takes a flash nor changes the  *)
(* key, and redeems no code.                                               *)
LEMMA DebtBroker ==
  ASSUME IInv, IInv', Debt, NEW q \in Slots, req[q].kind = "broker", req[q].pc # "idle",
         NEW r \in Request, req' = [req EXCEPT ![q] = r], r.kind = "broker",
         UNCHANGED <<jar, logins, called, tally>>, used'.faults >= used.faults,
         r.sess.key = req[q].sess.key,
         r.set.flashes = None \/ r.set.flashes = req[q].set.flashes,
         r.set.dpop # None =>
           r.set.dpop = req[q].set.dpop \/ r.set.dpop.key = req[q].sess.key,
         \A n \in 1..MaxLogins : grants[n].gen = 0 <=> grants'[n].gen = 0
  PROVE  Debt'
<1>1. Newest' = Newest /\ ~Awaits(req[q]) /\ ~Awaits(r)
  BY DEF Newest, Awaits
<1>2. Waiting' = Waiting /\ Hope' >= Hope
  BY <1>1, WaitOn
<1>3. ASSUME Good PROVE Good'
  <2>1. Busy(q) /\ Leaves(req[q])
    BY <1>3 DEF Good, Busy
  <2>2. JarGood
    <3>1. \A p \in Slots : p # q => req[p] = Idle
      BY <1>3, <2>1, RequestIs DEF Good, Busy, RequestOK, Placed
    <3>. QED
      BY <1>3, <3>1 DEF Good, Spares, Idle
  <2>3. JarGood'
    <3>1. Newest >= 1 => Newest \in 1..MaxLogins
      BY Attempts DEF Newest
    <3>. QED
      BY <1>1, <2>2, <3>1 DEF JarGood, Ready
  <2>4. Leaves(r)'
    BY <2>1 DEF Leaves
  <2>. QED
    BY <1>3, <2>1, <2>3, <2>4, GoodStays
<1>. QED
  BY <1>2, <1>3, DebtStays

LEMMA DebtBrokers ==
  ASSUME IInv, IInv', Debt, NEW q \in Slots,
         \/ BrokerUnable(q) \/ BrokerForward(q) \/ BrokerRefresh(q)
         \/ RefreshLost(q) \/ BrokerRetry(q)
  PROVE  Debt'
<1>1. /\ req[q].kind = "broker" /\ req[q].pc \in {"handle", "refresh", "retry"}
      /\ UNCHANGED <<jar, logins, called, tally>>
  BY DEF BrokerUnable, BrokerForward, BrokerRefresh, RefreshLost, BrokerRetry, Handling
<1>2. used.faults \in Nat
  BY DebtTyped DEF Debt
<1>3. /\ req[q] \in Request /\ req \in [Slots -> Request]
      /\ req[q].sess \in Session /\ Sound(req[q].sess)
  BY RequestIs DEF IInv, TypeOK
<1>4. UNCHANGED grants => \A n \in 1..MaxLogins : grants[n].gen = 0 <=> grants'[n].gen = 0
  OBVIOUS
<1>5. \A out \in {"answer", "nonce", "error"} : Charge(out) => used'.faults >= used.faults
  <2>1. SUFFICES ASSUME NEW out \in {"answer", "nonce", "error"}, Charge(out)
                 PROVE  used'.faults >= used.faults
    OBVIOUS
  <2>2. used'.faults \in Nat /\ used'.faults = used.faults + Count(out # "answer")
    BY <2>1, Charged
  <2>. QED
    BY <1>2, <2>2 DEF Count
(* An answer that brings the old cookies, the plain ones or a session with *)
(* the same key.                                                           *)
<1>6. ASSUME NEW answer \in {"ok", "unauthorized", "error"}, NEW c \in Cookies,
             c = req[q].set \/ (c.flashes = None /\ (c.dpop # None => c.dpop.key = req[q].sess.key)),
             Respond(q, answer, c), used'.faults >= used.faults,
             \A n \in 1..MaxLogins : grants[n].gen = 0 <=> grants'[n].gen = 0
      PROVE  Debt'
  <2>1. PICK r : r = Answered(req[q], answer, c)
    OBVIOUS
  <2>2. /\ r \in Request /\ req' = [req EXCEPT ![q] = r] /\ r.kind = "broker" /\ r.set = c
        /\ r.sess = req[q].sess
    BY <1>1, <1>6, <2>1, AnswerIs
  <2>3. /\ r.set.flashes = None \/ r.set.flashes = req[q].set.flashes
        /\ r.set.dpop # None => r.set.dpop = req[q].set.dpop \/ r.set.dpop.key = req[q].sess.key
    BY <1>6, <2>2
  <2>. QED
    BY <1>1, <1>6, <2>2, <2>3, DebtBroker
<1>7. NoCookies.flashes = None /\ NoCookies \in Cookies /\ NoCookies.dpop = None
  BY PlainCookies DEF NoCookies
<1>8. \A n \in 1..MaxLogins, g \in 1..MaxLogins, x \in Nat :
        /\ grants' = [grants EXCEPT ![g].gen = x] /\ x # 0 /\ grants[g].gen # 0
        => (grants[n].gen = 0 <=> grants'[n].gen = 0)
  <2>1. SUFFICES ASSUME NEW n \in 1..MaxLogins, NEW g \in 1..MaxLogins, NEW x \in Nat, x # 0,
                        grants' = [grants EXCEPT ![g].gen = x], grants[g].gen # 0
                 PROVE  grants[n].gen = 0 <=> grants'[n].gen = 0
    OBVIOUS
  <2>2. grants \in [1..MaxLogins -> Grant] /\ grants[g] \in Grant
    BY DEF IInv, TypeOK
  <2>3. PICK h : h = [grants[g] EXCEPT !.gen = x]
    OBVIOUS
  <2>4. h.gen = x
    BY <2>2, <2>3 DEF Grant
  <2>5. grants' = [grants EXCEPT ![g] = h]
    BY <2>1, <2>2, <2>3
  <2>. QED
    BY <2>1, <2>2, <2>4, <2>5
<1>9. CASE BrokerUnable(q)
  <2>1. Respond(q, "error", NoCookies) /\ UNCHANGED <<grants, used>>
    BY <1>9 DEF BrokerUnable
  <2>. QED
    BY <1>2, <1>4, <1>6, <1>7, <2>1
<1>10. CASE BrokerForward(q)
  <2>1. UNCHANGED grants
    BY <1>10 DEF BrokerForward
  <2>2. PICK d \in Do(req[q].sess, "pds") :
          /\ Charge(d.out)
          /\ \/ \E a \in {"error", "ok"} : Respond(q, a, NoCookies)
             \/ req' = [req EXCEPT ![q].pc = "refresh", ![q].sess = d.sess]
    BY <1>10 DEF BrokerForward
  <2>3. /\ d.sess \in Session /\ d.sess = [req[q].sess EXCEPT !.nonce = d.sess.nonce]
        /\ d.out \in {"answer", "nonce", "error"}
    BY <1>3, DoKeeps
  <2>4. used'.faults >= used.faults
    BY <1>5, <2>2, <2>3
  <2>5. CASE \E a \in {"error", "ok"} : Respond(q, a, NoCookies)
    BY <1>4, <1>6, <1>7, <2>1, <2>4, <2>5
  <2>6. CASE req' = [req EXCEPT ![q].pc = "refresh", ![q].sess = d.sess]
    <3>1. PICK r : r = [req[q] EXCEPT !.pc = "refresh", !.sess = d.sess]
      OBVIOUS
    <3>2. /\ r \in Request /\ r.kind = "broker" /\ r.set = req[q].set /\ r.sess = d.sess
      BY <1>1, <1>3, <2>3, <3>1 DEF Request
    <3>3. req' = [req EXCEPT ![q] = r]
      BY <1>3, <2>6, <3>1
    <3>4. r.sess.key = req[q].sess.key
      BY <1>3, <2>3, <3>2 DEF Session
    <3>. QED
      BY <1>1, <1>4, <2>1, <2>4, <3>2, <3>3, <3>4, DebtBroker
  <2>. QED
    BY <2>2, <2>5, <2>6
<1>11. CASE BrokerRetry(q)
  <2>1. UNCHANGED grants
    BY <1>11 DEF BrokerRetry
  <2>2. PICK d \in Do(req[q].sess, "pds") :
          /\ Charge(d.out)
          /\ \/ Respond(q, "error", req[q].set)
             \/ \E a \in {"ok", "unauthorized"} : Respond(q, a, [NoCookies EXCEPT !.dpop = d.sess])
    BY <1>11 DEF BrokerRetry
  <2>3. /\ d.sess \in Session /\ d.sess = [req[q].sess EXCEPT !.nonce = d.sess.nonce]
        /\ d.out \in {"answer", "nonce", "error"}
    BY <1>3, DoKeeps
  <2>4. used'.faults >= used.faults
    BY <1>5, <2>2, <2>3
  <2>5. CASE Respond(q, "error", req[q].set)
    <3>1. PICK c \in Cookies : c = req[q].set
      BY <1>3 DEF Request
    <3>. QED
      <4>1. Respond(q, "error", c)
        BY <2>5, <3>1
      <4>2. \A n \in 1..MaxLogins : grants[n].gen = 0 <=> grants'[n].gen = 0
        BY <1>4, <2>1
      <4>3. \/ c = req[q].set
            \/ c.flashes = None /\ (c.dpop # None => c.dpop.key = req[q].sess.key)
        BY <3>1
      <4>. QED
        BY <1>6, <2>4, <4>1, <4>2, <4>3
  <2>6. ASSUME NEW a \in {"ok", "unauthorized"}, Respond(q, a, [NoCookies EXCEPT !.dpop = d.sess])
        PROVE  Debt'
    <3>1. d.sess.key = req[q].sess.key
      BY <1>3, <2>3 DEF Session
    <3>2. PICK c : c = [NoCookies EXCEPT !.dpop = d.sess]
      OBVIOUS
    <3>3. c \in Cookies /\ c.dpop = d.sess /\ c.flashes = None
      BY <1>7, <2>3, <3>2 DEF Cookies, NoCookies
    <3>4. Respond(q, a, c)
      BY <2>6, <3>2
    <3>. QED
      BY <1>4, <1>6, <2>1, <2>4, <3>1, <3>3, <3>4
  <2>. QED
    BY <2>2, <2>5, <2>6
<1>12. CASE RefreshLost(q)
  <2>1. PICK s \in Session : s = req[q].sess /\ Sound(s)
    BY <1>3
  <2>2. /\ s.issuer /\ Renews(s) /\ Charge("error") /\ Respond(q, "unauthorized", NoCookies)
        /\ grants' = [grants EXCEPT ![s.token.grant].gen = grants[s.token.grant].gen + 1]
    BY <1>12, <2>1 DEF RefreshLost
  <2>3. /\ s.token.grant \in 1..MaxLogins /\ grants[s.token.grant].gen \in Nat
        /\ grants[s.token.grant].gen # 0
    BY <2>1, <2>2, Attempts DEF Sound, Renews, NoToken
  <2>4. \A n \in 1..MaxLogins : grants[n].gen = 0 <=> grants'[n].gen = 0
    BY <1>8, <2>2, <2>3
  <2>. QED
    BY <1>5, <1>6, <1>7, <2>2, <2>4
<1>13. CASE BrokerRefresh(q)
  <2>1. PICK s \in Session : s = req[q].sess /\ Sound(s)
    BY <1>3
  <2>. DEFINE next == [grant |-> s.token.grant, gen |-> s.token.gen + 1]
  <2>2. PICK d \in RefreshToken(s) :
          /\ Charge(d.out)
          /\ IF d.ok /\ s.issuer
             THEN /\ grants' = [grants EXCEPT ![s.token.grant].gen = s.token.gen + 1]
                  /\ LET z == [d.sess EXCEPT !.token = next]
                     IN req' = [req EXCEPT ![q].pc = "retry", ![q].sess = z,
                                           ![q].set = [NoCookies EXCEPT !.dpop = z]]
             ELSE UNCHANGED grants /\ Respond(q, "unauthorized", NoCookies)
    BY <1>13, <2>1 DEF BrokerRefresh
  <2>3. PICK e \in Do(s, "auth") :
          d = [sess |-> e.sess, out |-> e.out, ok |-> e.out = "answer" /\ Renews(e.sess)]
    BY <2>2 DEF RefreshToken
  <2>4. /\ e.sess \in Session /\ e.out \in {"answer", "nonce", "error"}
        /\ e.sess = [s EXCEPT !.nonce = e.sess.nonce]
    BY DoKeeps
  <2>5. d.sess \in Session /\ d.sess.key = s.key /\ d.sess.token = s.token
    BY <2>3, <2>4 DEF Session
  <2>6. used'.faults >= used.faults
    BY <1>5, <2>2, <2>3, <2>4
  <2>7. CASE ~(d.ok /\ s.issuer)
    BY <1>4, <1>6, <1>7, <2>2, <2>6, <2>7
  <2>8. CASE d.ok /\ s.issuer
    <3>1. /\ s.token.grant \in 1..MaxLogins /\ s.token.gen \in Nat
          /\ grants[s.token.grant].gen # 0 /\ s.token.gen + 1 \in Nat /\ s.token.gen + 1 # 0
      <4>0. Renews(d.sess)
        BY <2>3, <2>8
      <4>1. d.sess.token # NoToken /\ s.token # NoToken
        BY <2>5, <4>0 DEF Renews, NoToken
      <4>2. s.token.grant \in 1..MaxLogins /\ s.token.gen \in 1..grants[s.token.grant].gen
        BY <2>1, <4>1, Attempts DEF Sound
      <4>3. grants[s.token.grant].gen \in Nat
        BY <4>2, Attempts
      <4>. QED
        BY <4>2, <4>3
    <3>2. \A n \in 1..MaxLogins : grants[n].gen = 0 <=> grants'[n].gen = 0
      BY <1>8, <2>2, <2>8, <3>1
    <3>3. next \in Token
      BY <2>1, <3>1, Attempts DEF Token
    <3>4. PICK z \in Session : z = [d.sess EXCEPT !.token = next]
      BY <2>5, <3>3 DEF Session
    <3>5. z.key = s.key
      BY <2>5, <3>4 DEF Session
    <3>6. PICK c : c = [NoCookies EXCEPT !.dpop = z]
      OBVIOUS
    <3>7. c \in Cookies /\ c.dpop = z /\ c.flashes = None
      BY <1>7, <3>6 DEF Cookies, NoCookies
    <3>8. PICK r : r = [req[q] EXCEPT !.pc = "retry", !.sess = z, !.set = c]
      OBVIOUS
    <3>9. r \in Request /\ r.kind = "broker" /\ r.sess = z /\ r.set = c
      BY <1>1, <1>3, <3>7, <3>8 DEF Request
    <3>10. req' = [req EXCEPT ![q].pc = "retry", ![q].sess = z, ![q].set = c]
      BY <2>2, <2>8, <3>4, <3>6
    <3>11. req' = [req EXCEPT ![q] = r]
      BY <1>3, <3>8, <3>10
    <3>. QED
      BY <1>1, <2>1, <2>6, <3>2, <3>5, <3>7, <3>9, <3>11, DebtBroker
  <2>. QED
    BY <2>7, <2>8
<1>. QED
  BY <1>9, <1>10, <1>11, <1>12, <1>13

LEMMA DebtExpire ==
  ASSUME IInv, IInv', Debt, Expire
  PROVE  Debt'
<1>1. PICK n \in 1..MaxLogins :
        /\ grants' = [grants EXCEPT ![n].expired = grants[n].gen]
        /\ used' = [used EXCEPT !.expiries = @ + 1]
        /\ UNCHANGED <<jar, req, logins, called, tally>>
  BY DEF Expire
<1>2. used'.faults = used.faults /\ used.faults \in Nat
  <2>1. used \in [requests : Nat, expiries : Nat, faults : Nat]
    BY DEF IInv, TypeOK
  <2>. QED
    BY <1>1, <2>1
<1>3. \A m \in 1..MaxLogins : grants'[m].gen = grants[m].gen
  <2>1. grants \in [1..MaxLogins -> Grant] /\ grants[n] \in Grant
    BY DEF IInv, TypeOK
  <2>2. PICK h : h = [grants[n] EXCEPT !.expired = grants[n].gen]
    OBVIOUS
  <2>3. h.gen = grants[n].gen
    BY <2>1, <2>2 DEF Grant
  <2>4. grants' = [grants EXCEPT ![n] = h]
    BY <1>1, <2>1, <2>2
  <2>. QED
    BY <2>1, <2>3, <2>4
<1>4. Newest' = Newest /\ (Newest >= 1 => Newest \in 1..MaxLogins)
  BY <1>1, Attempts DEF Newest
<1>5. Waiting' = Waiting
  BY <1>1, <1>4 DEF Waiting, Awaits
<1>6. \A p \in Waiting : Will(req[p]) <=> Will(req[p])'
  <2>1. \A p \in Waiting : req[p].arg \in 1..MaxLogins
    BY CallbackIs DEF Waiting, Awaits
  <2>. QED
    BY <1>1, <1>3, <2>1 DEF Will
<1>7. Hope' = Hope
  BY <1>5, <1>6 DEF Hope
<1>8. JarGood <=> JarGood'
  BY <1>1, <1>3, <1>4 DEF JarGood, Ready
<1>9. \A p \in Slots : Leaves(req[p]) => Leaves(req[p])'
  BY <1>1, <1>3, <1>4 DEF Leaves, Ready
<1>10. Good => Good'
  BY <1>1, <1>8, <1>9 DEF Good, Busy, Spares
<1>11. Hope' >= Hope
  BY <1>7 DEF Hope
<1>. QED
  BY <1>1, <1>2, <1>5, <1>10, <1>11, DebtStays

LEMMA DebtInit == Init => Debt
<1>. SUFFICES ASSUME Init PROVE Debt
  OBVIOUS
<1>1. IInv
  BY InitOK
<1>2. Waiting = {}
  BY DEF Init, Waiting, Awaits, Idle
<1>3. IsFiniteSet(Waiting) /\ Cardinality(Waiting) = 0
  BY <1>2, FS_EmptySet
<1>4. JarGood
  <2>1. Newest = 0
    BY DEF Init, Newest
  <2>. QED
    BY <2>1 DEF Init, JarGood
<1>5. Good
  BY <1>4 DEF Init, Good, Busy, Idle
<1>6. Disorder = 0 /\ Hope = 0
  BY <1>2, <1>5 DEF Disorder, Hope
<1>7. tally.failed = 0 /\ tally.disturbed = 0 /\ tally.crossed = 0 /\ used.faults = 0
  BY DEF Init
<1>. QED
  BY <1>3, <1>6, <1>7 DEF Debt

LEMMA DebtStep ==
  ASSUME IInv, IInv', Debt, [Next]_vars
  PROVE  Debt'
<1>1. CASE UNCHANGED vars
  BY <1>1 DEF vars, Debt, Waiting, Awaits, Newest, Hope, Will, Disorder, Good, Busy, Spares,
     JarGood, Ready, Leaves
<1>2. CASE Expire
  BY <1>2, DebtExpire
<1>3. ASSUME NEW q \in Slots,
             \/ SendLogin(q) \/ SendCallback(q) \/ SendBroker(q) \/ Deliver(q) \/ Lose(q)
             \/ Login(q) \/ CallbackUnable(q) \/ Callback(q) \/ CallbackLost(q)
             \/ BrokerUnable(q) \/ BrokerForward(q) \/ BrokerRefresh(q)
             \/ RefreshLost(q) \/ BrokerRetry(q)
      PROVE  Debt'
  BY <1>3, DebtSends, DebtDeliver, DebtLose, DebtLogin, DebtCallbacks, DebtBrokers
<1>. QED
  BY <1>1, <1>2, <1>3 DEF Next

(* The third layer: what waits, and the disorder there is, is paid for.    *)
THEOREM DebtInvariance == Spec => []Debt
<1>. QED
  BY DebtInit, DebtStep, Invariance, PTL DEF Spec

(***************************************************************************)
(* The callback of the newest login fails at most once for each login left *)
(* behind, callback repeated and fault before it, and twice for each       *)
(* request that crossed another: a failure clears what caused it.          *)
(***************************************************************************)
THEOREM FailuresPaid == Spec => []FailuresArePaidFor
<1>1. ASSUME IInv, Debt PROVE FailuresArePaidFor
  <2>. DEFINE given == tally.disturbed + 2 * tally.crossed + used.faults
  <2>1. /\ tally.failed \in Nat /\ given \in Nat
        /\ Cardinality(Waiting) \in Nat /\ Disorder \in {0, 1} /\ Hope \in {0, 1}
        /\ Hope = 1 => Cardinality(Waiting) >= 1
    BY <1>1, DebtTyped DEF Debt
  <2>2. tally.failed + Cardinality(Waiting) + Disorder <= given + Hope
    BY <1>1 DEF Debt
  <2>. HIDE DEF given
  <2>3. tally.failed <= given
    BY <2>1, <2>2
  <2>. QED
    BY <2>3 DEF FailuresArePaidFor, given
<1>. QED
  BY <1>1, Invariance, DebtInvariance, PTL
=============================================================================
