---------------------------- MODULE CallersProofs ----------------------------
(***************************************************************************)
(* Proofs about the two ways the node has to know who calls it:            *)
(* OAuthServer, for apps that act for a user, and BffAuth, for other       *)
(* nodes.  They share no state.                                            *)
(*                                                                         *)
(* The sessions the OAuth server seals, for any users, apps, requests in   *)
(* flight, flows and faults: every number in a cookie, in a request and in *)
(* a response is the number of an accepted flow, flows only grow, and the  *)
(* PDS redeems a code for its own flow only; so a code is sealed from one  *)
(* flow, and what it is sealed from never changes.  The callbacks that     *)
(* fail are counted against what disturbs them (the debt below).           *)
(*                                                                         *)
(* The sessions of other nodes, for any number of requests and sessions: a *)
(* session ID that was used once is never live again, so that a request    *)
(* that comes later gets no token, and a token is always the one that was  *)
(* asked for.                                                              *)
(***************************************************************************)
EXTENDS OAuthServer, BffAuth, SequenceTheorems, FiniteSetTheorems, TLAPS

Flow == 1..Len(flows)
AccessSessions == [subject : Idents, key : 1..MaxFlows, token : 1..MaxFlows]

RequestRecords == [kind : {"none", "authorize", "callback"},
             pc : {"idle", "handle", "exchange", "answered"},
             ident : Idents \cup {<<>>}, app : Apps \cup {<<>>}, code : Nat,
             flashes : Seq(Nat), set : Seq(Nat), saves : BOOLEAN,
             sealed : SealedSessions \cup {<<>>}]

\* What a request carries names accepted flows and codes that were made.
RequestOK(q) ==
  /\ req[q].flashes \in Seq(Flow)
  /\ req[q].set \in Seq(Flow)
  /\ Handling(q, "authorize", "handle") => req[q].ident \in Idents /\ req[q].app \in Apps
  /\ req[q].kind = "authorize" /\ req[q].saves => req[q].set # <<>>
  /\ Handling(q, "callback", "exchange") => req[q].flashes # <<>>
  /\ req[q].sealed # <<>> => req[q].sealed \in codes

FlowsOK ==
  /\ flows \in Seq([ident : Idents, app : Apps]) /\ Len(flows) <= MaxFlows
  /\ jar \in Seq(Flow)
  /\ redeemed \subseteq Flow

SessionsOK ==
  /\ held \subseteq codes /\ codes \subseteq SealedSessions
  /\ tokens \subseteq AccessSessions
  /\ puts \in [done : SUBSET (AccessSessions \X Users), refused : SUBSET (AccessSessions \X Users)]

OtherTypes ==
  /\ sent \in [out : SUBSET Nat, back : SUBSET Nat]
  /\ tally \in [failed : Nat, disturbed : Nat, lost : SUBSET Nat]

SealsOK ==
  /\ \A s \in codes : s.token \in redeemed /\ s = Sealed(s.token, s.token, s.token)
  /\ \A t \in tokens : t.token \in redeemed /\ t.subject = flows[t.token].ident
  /\ \A p \in puts.done : p[1] \in tokens /\ p[1].subject = DID(p[2])

\* The inductive invariant.
IInv ==
  /\ FlowsOK
  /\ SessionsOK
  /\ OtherTypes
  /\ req \in [Slots -> RequestRecords]
  /\ \A q \in Slots : RequestOK(q)
  /\ SealsOK
  /\ RedeemedBecomesCode

-----------------------------------------------------------------------------
\* Numbers of flows stay numbers of flows when there are more of them.
LEMMA MoreFlows ==
  ASSUME NEW m \in Nat, NEW n \in Nat, m <= n, NEW s \in Seq(1..m)
  PROVE  s \in Seq(1..n)
  OBVIOUS

LEMMA FlowsAreNumbers ==
  ASSUME NEW m \in Nat, NEW s \in Seq(1..m)
  PROVE  s \in Seq(Nat)
  OBVIOUS

LEMMA HeadIsFlow ==
  ASSUME NEW m \in Nat, NEW s \in Seq(1..m), s # <<>>
  PROVE  Head(s) \in 1..m /\ s[Len(s)] \in 1..m
  OBVIOUS

\* A session is sealed from accepted flows.
LEMMA SealedType ==
  ASSUME FlowsOK, MaxFlows \in Nat, NEW f \in Flow
  PROVE  Sealed(f, f, f) \in SealedSessions /\ Sealed(f, f, f).token = f
<1>1. flows[f] \in [ident : Idents, app : Apps]
  BY ElementOfSeq DEF FlowsOK, Flow
<1>2. f \in 1..MaxFlows
  BY DEF FlowsOK, Flow
<1> QED
  BY <1>1, <1>2 DEF Sealed, SealedSessions

LEMMA IdleRequest == Idle \in RequestRecords
<1>1. <<>> \in Seq(Nat)
  OBVIOUS
<1> QED
  BY <1>1 DEF Idle, RequestRecords

LEMMA InitOK ==
  ASSUME Init
  PROVE  IInv
<1>1. FlowsOK
  BY OAuthAssumption DEF FlowsOK, Flow, Init
<1>2. SessionsOK /\ OtherTypes
  BY DEF SessionsOK, OtherTypes, Init
<1>3. \A q \in Slots : req[q] = Idle
  BY DEF Init
<1>5. req \in [Slots -> RequestRecords]
  BY IdleRequest DEF Init
<1>6. \A q \in Slots : RequestOK(q)
  <2>1. <<>> \in Seq(Flow)
    OBVIOUS
  <2>2. /\ Idle.kind = "none" /\ Idle.sealed = <<>>
        /\ Idle.flashes = <<>> /\ Idle.set = <<>>
    BY DEF Idle
  <2> QED
    BY <1>3, <2>1, <2>2 DEF RequestOK, Handling
<1>7. SealsOK /\ RedeemedBecomesCode
  BY DEF SealsOK, RedeemedBecomesCode, Init
<1> QED
  BY <1>1, <1>2, <1>5, <1>6, <1>7 DEF IInv

-----------------------------------------------------------------------------
\* What is known of a request stays true while others move: flows and codes
\* only get more.
LEMMA OtherRequests ==
  ASSUME NEW p \in Slots, RequestOK(p), req'[p] = req[p], codes \subseteq codes',
         Len(flows) \in Nat, Len(flows)' \in Nat, Len(flows) <= Len(flows)'
  PROVE  RequestOK(p)'
<1>1. req[p].flashes \in Seq(Flow') /\ req[p].set \in Seq(Flow')
  BY MoreFlows DEF RequestOK, Flow
<1> QED
  BY <1>1 DEF RequestOK, Handling

\* A request becomes r, a request with what a request must have; flows and
\* codes stay or grow.
LEMMA OneRequest ==
  ASSUME IInv, NEW q \in Slots, NEW r \in RequestRecords, req' = [req EXCEPT ![q] = r],
         flows' \in Seq([ident : Idents, app : Apps]), Len(flows) <= Len(flows)',
         codes \subseteq codes', RequestOK(q)'
  PROVE  req' \in [Slots -> RequestRecords] /\ \A p \in Slots : RequestOK(p)'
<1>1. req \in [Slots -> RequestRecords] /\ \A p \in Slots : RequestOK(p)
  BY DEF IInv
<1>2. Len(flows) \in Nat /\ Len(flows)' \in Nat
  BY DEF IInv, FlowsOK
<1>3. \A p \in Slots \ {q} : req'[p] = req[p]
  BY <1>1
<1>4. \A p \in Slots \ {q} : RequestOK(p)'
  BY <1>1, <1>2, <1>3, OtherRequests
<1> QED
  BY <1>1, <1>4

\* Responding: the flashes that are saved are flows.
LEMMA RespondOK ==
  ASSUME IInv, NEW q \in Slots, NEW saves \in BOOLEAN, NEW f \in Seq(Flow'),
         Respond(q, saves, f), flows' \in Seq([ident : Idents, app : Apps]),
         Len(flows) <= Len(flows)', codes' = codes,
         req[q].kind = "authorize" /\ saves => f # <<>>
  PROVE  req' \in [Slots -> RequestRecords] /\ \A p \in Slots : RequestOK(p)'
<1>1. req[q] \in RequestRecords /\ RequestOK(q) /\ Len(flows) \in Nat /\ Len(flows)' \in Nat
  BY DEF IInv, FlowsOK
<1> DEFINE r == [req[q] EXCEPT !.pc = "answered", !.saves = saves, !.set = f]
<1>2. r \in RequestRecords
  <2>1. f \in Seq(Nat)
    BY <1>1, FlowsAreNumbers DEF Flow
  <2> QED
    BY <1>1, <2>1 DEF RequestRecords
<1>3. req' = [req EXCEPT ![q] = r]
  BY DEF Respond, IInv
<1>4. RequestOK(q)'
  <2>1. req[q].flashes \in Seq(Flow')
    BY <1>1, MoreFlows DEF RequestOK, Flow
  <2>2. req'[q] = r
    BY <1>3 DEF IInv
  <2>3. /\ r.kind = req[q].kind /\ r.pc = "answered" /\ r.saves = saves /\ r.set = f
        /\ r.flashes = req[q].flashes /\ r.sealed = req[q].sealed
    BY <1>1 DEF RequestRecords
  <2> HIDE DEF r
  <2> QED
    BY <1>1, <2>1, <2>2, <2>3 DEF RequestOK, Handling
<1> HIDE DEF r
<1> QED
  BY <1>2, <1>3, <1>4, OneRequest

-----------------------------------------------------------------------------
\* Every other step than an authorization, a callback that ends or one of the
\* app leaves the sealed sessions alone.
LEMMA Frame ==
  ASSUME IInv, UNCHANGED <<flows, redeemed, codes, tokens, puts>>,
         req' \in [Slots -> RequestRecords], \A p \in Slots : RequestOK(p)',
         held' \subseteq codes, jar' \in Seq(Flow), OtherTypes', tally.lost \subseteq tally'.lost
  PROVE  IInv'
<1>1. FlowsOK' /\ SessionsOK'
  BY DEF IInv, FlowsOK, SessionsOK, Flow
<1>2. SealsOK'
  BY DEF IInv, SealsOK, Sealed
<1>3. RedeemedBecomesCode'
  BY DEF IInv, RedeemedBecomesCode
<1> QED
  BY <1>1, <1>2, <1>3 DEF IInv

LEMMA DisturbsOK ==
  ASSUME OtherTypes, NEW b \in BOOLEAN, Disturbs(b)
  PROVE  /\ tally' \in [failed : Nat, disturbed : Nat, lost : SUBSET Nat]
         /\ tally'.lost = tally.lost
<1> DEFINE own == IF b THEN 1 ELSE 0
           crossing == IF \E p \in Slots : req[p].pc # "idle" THEN 1 ELSE 0
<1>1. own \in Nat /\ crossing \in Nat
  OBVIOUS
<1>2. tally' = [tally EXCEPT !.disturbed = @ + own + crossing]
  BY DEF Disturbs
<1> HIDE DEF own, crossing
<1> QED
  BY <1>1, <1>2 DEF OtherTypes

LEMMA SendAuthorizeOK ==
  ASSUME IInv, NEW q \in Slots, SendAuthorize(q)
  PROVE  IInv'
<1>1. PICK id \in Idents, app \in Apps :
        req' = [req EXCEPT ![q] = [Idle EXCEPT !.kind = "authorize", !.pc = "handle",
                  !.ident = id, !.app = app, !.flashes = jar]]
  BY DEF SendAuthorize
<1> DEFINE r == [Idle EXCEPT !.kind = "authorize", !.pc = "handle",
                   !.ident = id, !.app = app, !.flashes = jar]
<1>2. UNCHANGED <<jar, flows, sent, redeemed, codes, held, tokens, puts>>
  BY DEF SendAuthorize, appVars
<1>3. jar \in Seq(Flow) /\ jar \in Seq(Nat) /\ Len(flows) \in Nat
  BY FlowsAreNumbers DEF IInv, FlowsOK, Flow
<1>4. r \in RequestRecords
  BY <1>3, IdleRequest DEF RequestRecords
<1>5. RequestOK(q)'
  <2>1. req'[q] = r
    BY <1>1 DEF IInv
  <2>2. /\ r.kind = "authorize" /\ r.pc = "handle" /\ r.ident = id /\ r.app = app
        /\ r.flashes = jar /\ r.set = <<>> /\ r.saves = FALSE /\ r.sealed = <<>>
    BY DEF Idle
  <2>3. <<>> \in Seq(Flow)
    OBVIOUS
  <2> HIDE DEF r
  <2> QED
    BY <1>2, <1>3, <2>1, <2>2, <2>3 DEF RequestOK, Handling, Flow
<1>6. req' \in [Slots -> RequestRecords] /\ \A p \in Slots : RequestOK(p)'
  <2>1. req' = [req EXCEPT ![q] = r]
    BY <1>1
  <2>2. flows' \in Seq([ident : Idents, app : Apps]) /\ Len(flows) <= Len(flows)'
    BY <1>2, <1>3 DEF IInv, FlowsOK
  <2> HIDE DEF r
  <2> QED
    BY <1>2, <1>4, <1>5, <2>1, <2>2, OneRequest
<1>7. OtherTypes' /\ tally'.lost = tally.lost
  <2>1. Disturbs(flows # <<>> /\ Newest \notin sent.back)
    BY DEF SendAuthorize
  <2>2. tally' \in [failed : Nat, disturbed : Nat, lost : SUBSET Nat] /\ tally'.lost = tally.lost
    BY <2>1, DisturbsOK DEF IInv
  <2> QED
    BY <1>2, <2>2 DEF SendAuthorize, IInv, OtherTypes
<1> QED
  BY <1>2, <1>3, <1>6, <1>7, Frame DEF IInv, SessionsOK

LEMMA SendCallbackOK ==
  ASSUME IInv, NEW q \in Slots, SendCallback(q)
  PROVE  IInv'
<1>1. PICK f \in sent.out :
        /\ req' = [req EXCEPT ![q] = [Idle EXCEPT !.kind = "callback", !.pc = "handle",
                     !.code = f, !.flashes = jar]]
        /\ sent' = [sent EXCEPT !.back = @ \cup {f}]
        /\ Disturbs(f # Newest \/ f \in sent.back)
  BY DEF SendCallback
<1> DEFINE r == [Idle EXCEPT !.kind = "callback", !.pc = "handle", !.code = f, !.flashes = jar]
<1>2. UNCHANGED <<jar, flows, redeemed, codes, held, tokens, puts>>
  BY DEF SendCallback, appVars
<1>3. /\ jar \in Seq(Flow) /\ jar \in Seq(Nat) /\ Len(flows) \in Nat
      /\ f \in Nat
  BY FlowsAreNumbers DEF IInv, FlowsOK, Flow, OtherTypes
<1>4. r \in RequestRecords
  BY <1>3, IdleRequest DEF RequestRecords
<1>5. RequestOK(q)'
  <2>1. req'[q] = r
    BY <1>1 DEF IInv
  <2>2. /\ r.kind = "callback" /\ r.pc = "handle" /\ r.flashes = jar
        /\ r.set = <<>> /\ r.sealed = <<>>
    BY DEF Idle
  <2>3. <<>> \in Seq(Flow)
    OBVIOUS
  <2> HIDE DEF r
  <2> QED
    BY <1>2, <1>3, <2>1, <2>2, <2>3 DEF RequestOK, Handling, Flow
<1>6. req' \in [Slots -> RequestRecords] /\ \A p \in Slots : RequestOK(p)'
  <2>1. req' = [req EXCEPT ![q] = r]
    BY <1>1
  <2>2. flows' \in Seq([ident : Idents, app : Apps]) /\ Len(flows) <= Len(flows)'
    BY <1>2, <1>3 DEF IInv, FlowsOK
  <2> HIDE DEF r
  <2> QED
    BY <1>2, <1>4, <1>5, <2>1, <2>2, OneRequest
<1>7. OtherTypes' /\ tally'.lost = tally.lost
  <2>1. sent' \in [out : SUBSET Nat, back : SUBSET Nat]
    BY <1>1, <1>3 DEF IInv, OtherTypes
  <2>2. tally' \in [failed : Nat, disturbed : Nat, lost : SUBSET Nat] /\ tally'.lost = tally.lost
    BY <1>1, DisturbsOK DEF IInv
  <2> QED
    BY <2>1, <2>2 DEF OtherTypes
<1> QED
  BY <1>2, <1>3, <1>6, <1>7, Frame DEF IInv, SessionsOK

LEMMA DeliverOK ==
  ASSUME IInv, NEW q \in Slots, Deliver(q)
  PROVE  IInv'
<1>1. req[q] \in RequestRecords /\ RequestOK(q) /\ Len(flows) \in Nat
  BY DEF IInv, FlowsOK
<1>2. UNCHANGED <<flows, redeemed, codes, tokens, puts, tally>>
  BY DEF Deliver
<1>3. jar' \in Seq(Flow)
  BY <1>1 DEF Deliver, RequestOK, IInv, FlowsOK
<1>4. held' \subseteq codes
  BY <1>1 DEF Deliver, RequestOK, IInv, SessionsOK
<1>5. OtherTypes'
  <2>1. CASE req[q].kind = "authorize" /\ req[q].saves
    <3>1. Last(req[q].set) \in Nat
      BY <1>1, <2>1, HeadIsFlow DEF RequestOK, Flow, Last
    <3> QED
      BY <1>2, <2>1, <3>1 DEF Deliver, IInv, OtherTypes
  <2>2. CASE ~(req[q].kind = "authorize" /\ req[q].saves)
    BY <1>2, <2>2 DEF Deliver, IInv, OtherTypes
  <2> QED
    BY <2>1, <2>2
<1>6. req' \in [Slots -> RequestRecords] /\ \A p \in Slots : RequestOK(p)'
  <2>1. req' = [req EXCEPT ![q] = Idle] /\ Len(flows) <= Len(flows)'
    BY <1>1, <1>2 DEF Deliver
  <2>2. RequestOK(q)'
    <3>1. <<>> \in Seq(Flow')
      OBVIOUS
    <3>2. req'[q] = Idle
      BY <2>1 DEF IInv
    <3> QED
      BY <3>1, <3>2 DEF RequestOK, Handling, Idle
  <2> QED
    BY <1>2, <2>1, <2>2, IdleRequest, OneRequest DEF IInv, FlowsOK
<1> QED
  BY <1>2, <1>3, <1>4, <1>5, <1>6, Frame DEF IInv, OtherTypes

LEMMA LoseOK ==
  ASSUME IInv, NEW q \in Slots, Lose(q)
  PROVE  IInv'
<1>1. UNCHANGED <<jar, flows, sent, redeemed, codes, held, tokens, puts, tally>>
  BY DEF Lose, appVars
<1>2. req' = [req EXCEPT ![q] = Idle] /\ Len(flows) <= Len(flows)'
  BY <1>1 DEF Lose, IInv, FlowsOK
<1>3. RequestOK(q)'
  <2>1. <<>> \in Seq(Flow')
    OBVIOUS
  <2>2. req'[q] = Idle
    BY <1>2 DEF IInv
  <2> QED
    BY <2>1, <2>2 DEF RequestOK, Handling, Idle
<1>4. req' \in [Slots -> RequestRecords] /\ \A p \in Slots : RequestOK(p)'
  BY <1>1, <1>2, <1>3, IdleRequest, OneRequest DEF IInv, FlowsOK
<1>5. OtherTypes' /\ jar' \in Seq(Flow) /\ held' \subseteq codes
  BY <1>1 DEF IInv, OtherTypes, FlowsOK, SessionsOK
<1> QED
  BY <1>1, <1>4, <1>5, Frame

\* A response that leaves flows and sessions alone.
LEMMA AnswerOK ==
  ASSUME IInv, NEW q \in Slots, NEW saves \in BOOLEAN, Respond(q, saves, <<>>),
         UNCHANGED <<jar, flows, sent, redeemed, codes, held, tokens, puts>>,
         req[q].kind = "authorize" => ~saves,
         tally' \in [failed : Nat, disturbed : Nat, lost : SUBSET Nat],
         tally.lost \subseteq tally'.lost
  PROVE  IInv'
<1>1. flows' \in Seq([ident : Idents, app : Apps]) /\ Len(flows) <= Len(flows)'
  BY DEF IInv, FlowsOK
<1>2. <<>> \in Seq(Flow')
  OBVIOUS
<1>3. req' \in [Slots -> RequestRecords] /\ \A p \in Slots : RequestOK(p)'
  BY <1>1, <1>2, RespondOK
<1>4. OtherTypes' /\ jar' \in Seq(Flow) /\ held' \subseteq codes
  BY DEF IInv, OtherTypes, FlowsOK, SessionsOK
<1> QED
  BY <1>3, <1>4, Frame

LEMMA AuthorizeFailsOK ==
  ASSUME IInv, NEW q \in Slots, AuthorizeFails(q)
  PROVE  IInv'
<1>1. tally' = tally /\ tally \in [failed : Nat, disturbed : Nat, lost : SUBSET Nat]
  BY DEF AuthorizeFails, IInv, OtherTypes
<1> QED
  BY <1>1, AnswerOK DEF AuthorizeFails, appVars

LEMMA FailCallbackOK ==
  ASSUME IInv, NEW q \in Slots, req[q].kind = "callback", FailCallback(q)
  PROVE  IInv'
<1>1. tally' \in [failed : Nat, disturbed : Nat, lost : SUBSET Nat] /\ tally'.lost = tally.lost
  BY DEF FailCallback, IInv, OtherTypes
<1> QED
  BY <1>1, AnswerOK DEF FailCallback, appVars

LEMMA RecreateRequestOK ==
  ASSUME IInv, NEW q \in Slots, RecreateRequest(q)
  PROVE  IInv'
<1>1. UNCHANGED <<jar, flows, sent, redeemed, codes, held, tokens, puts, tally>>
  BY DEF RecreateRequest, appVars
<1> DEFINE r == [req[q] EXCEPT !.pc = "exchange"]
<1>2. req[q] \in RequestRecords /\ RequestOK(q)
  BY DEF IInv
<1>3. r \in RequestRecords
  BY <1>2 DEF RequestRecords
<1>4. req' = [req EXCEPT ![q] = r] /\ Len(flows) <= Len(flows)'
  BY <1>1 DEF RecreateRequest, IInv, FlowsOK
<1>5. RequestOK(q)'
  <2>1. req'[q] = r
    BY <1>4 DEF IInv
  <2>2. /\ r.kind = "callback" /\ r.pc = "exchange" /\ r.flashes = req[q].flashes
        /\ r.set = req[q].set /\ r.sealed = req[q].sealed
    BY <1>2 DEF RecreateRequest, Handling, RequestRecords
  <2> HIDE DEF r
  <2> QED
    BY <1>1, <1>2, <2>1, <2>2 DEF RequestOK, Handling, RecreateRequest, Flow
<1>6. req' \in [Slots -> RequestRecords] /\ \A p \in Slots : RequestOK(p)'
  <2> HIDE DEF r
  <2> QED
    BY <1>1, <1>3, <1>4, <1>5, OneRequest DEF IInv, FlowsOK
<1>7. OtherTypes' /\ jar' \in Seq(Flow) /\ held' \subseteq codes
  BY <1>1 DEF IInv, OtherTypes, FlowsOK, SessionsOK
<1> QED
  BY <1>1, <1>6, <1>7, Frame

\* One more flow: those that are there keep their numbers.
LEMMA HandleAuthorizeOK ==
  ASSUME IInv, NEW q \in Slots, HandleAuthorize(q)
  PROVE  IInv'
<1> DEFINE n == Len(flows) + 1
           entry == [ident |-> req[q].ident, app |-> req[q].app]
<1>1. UNCHANGED <<jar, sent, redeemed, codes, held, tokens, puts, used, tally>>
  BY DEF HandleAuthorize, appVars
<1>2. /\ req[q] \in RequestRecords /\ RequestOK(q) /\ Handling(q, "authorize", "handle")
      /\ n <= MaxFlows /\ flows' = Append(flows, entry)
  BY DEF HandleAuthorize, IInv
<1>3. entry \in [ident : Idents, app : Apps]
  BY <1>2 DEF RequestOK
<1>4. /\ flows \in Seq([ident : Idents, app : Apps])
      /\ flows' \in Seq([ident : Idents, app : Apps])
      /\ Len(flows) \in Nat /\ Len(flows)' = Len(flows) + 1
      /\ \A f \in Flow : flows'[f] = flows[f]
  <2>1. flows \in Seq([ident : Idents, app : Apps])
    BY DEF IInv, FlowsOK
  <2> HIDE DEF entry
  <2> QED
    BY <1>2, <1>3, <2>1, AppendProperties DEF Flow
<1>5. FlowsOK'
  <2>1. jar \in Seq(Flow')
    BY <1>4, MoreFlows DEF IInv, FlowsOK, Flow
  <2> QED
    BY <1>1, <1>2, <1>4, <2>1 DEF IInv, FlowsOK, Flow
<1>6. req' \in [Slots -> RequestRecords] /\ \A p \in Slots : RequestOK(p)'
  <2>0. /\ flows' \in Seq([ident : Idents, app : Apps])
        /\ Len(flows) <= Len(flows)' /\ codes' = codes
    BY <1>1, <1>4
  <2>1. CASE Respond(q, TRUE, Append(req[q].flashes, n))
    <3>1. Respond(q, TRUE, Append(req[q].flashes, n))
      BY <2>1
    <3>2. req[q].flashes \in Seq(Flow')
      BY <1>2, <1>4, MoreFlows DEF RequestOK, Flow
    <3>3. n \in Flow'
      BY <1>4 DEF Flow
    <3> DEFINE f == Append(req[q].flashes, n)
    <3>4. f \in Seq(Flow') /\ f # <<>> /\ Respond(q, TRUE, f)
      <4> HIDE DEF n
      <4> QED
        BY <3>1, <3>2, <3>3, AppendProperties
    <3> HIDE DEF f
    <3> QED
      BY <2>0, <3>4, RespondOK
  <2>2. CASE Respond(q, FALSE, <<>>)
    <3>1. Respond(q, FALSE, <<>>)
      BY <2>2
    <3>2. <<>> \in Seq(Flow')
      OBVIOUS
    <3> QED
      BY <2>0, <3>1, <3>2, RespondOK
  <2> QED
    BY <2>1, <2>2 DEF HandleAuthorize
<1>7. SealsOK'
  <2>1. redeemed \subseteq Flow
    BY DEF IInv, FlowsOK
  <2>2. \A s \in codes : s.token \in redeemed /\ s = Sealed(s.token, s.token, s.token)
    BY DEF IInv, SealsOK
  <2>3. \A s \in codes : s = Sealed(s.token, s.token, s.token)'
    BY <1>4, <2>1, <2>2 DEF Sealed
  <2>4. \A t \in tokens : t.token \in redeemed /\ t.subject = flows'[t.token].ident
    BY <1>4, <2>1 DEF IInv, SealsOK
  <2> QED
    BY <1>1, <2>2, <2>3, <2>4 DEF IInv, SealsOK
<1>8. SessionsOK' /\ OtherTypes' /\ RedeemedBecomesCode'
  BY <1>1 DEF IInv, SessionsOK, OtherTypes, RedeemedBecomesCode
<1> QED
  BY <1>5, <1>6, <1>7, <1>8 DEF IInv

\* The PDS redeems a code of the flow the request goes on with.
LEMMA Redeemed ==
  ASSUME IInv, NEW q \in Slots, Handling(q, "callback", "exchange"),
         Redeems(req[q].code, Head(req[q].flashes))
  PROVE  req[q].code \in Flow /\ req[q].code = Head(req[q].flashes)
<1>1. req[q].flashes \in Seq(Flow) /\ req[q].flashes # <<>> /\ Len(flows) \in Nat
  BY DEF IInv, RequestOK, FlowsOK
<1> QED
  BY <1>1, HeadIsFlow DEF Redeems, Flow

LEMMA ExchangeLostOK ==
  ASSUME IInv, NEW q \in Slots, ExchangeLost(q)
  PROVE  IInv'
<1>1. UNCHANGED <<jar, flows, sent, codes, held, tokens, puts>>
  BY DEF ExchangeLost, appVars
<1>2. req[q].code \in Flow /\ redeemed' = redeemed \cup {req[q].code}
  BY Redeemed DEF ExchangeLost
<1>3. tally' \in [failed : Nat, disturbed : Nat, lost : SUBSET Nat]
        /\ tally'.lost = tally.lost \cup {req[q].code}
  <2>1. tally \in [failed : Nat, disturbed : Nat, lost : SUBSET Nat] /\ req[q].code \in Nat
    BY <1>2 DEF IInv, OtherTypes, Flow
  <2> DEFINE lost == tally.lost \cup {req[q].code}
             failed == IF req[q].code = Newest THEN tally.failed + 1 ELSE tally.failed
  <2>2. tally' = [tally EXCEPT !.lost = lost, !.failed = failed]
    BY DEF ExchangeLost
  <2>3. lost \in SUBSET Nat /\ failed \in Nat
    BY <2>1
  <2> HIDE DEF failed
  <2> QED
    BY <2>1, <2>2, <2>3
<1>4. req' \in [Slots -> RequestRecords] /\ \A p \in Slots : RequestOK(p)'
  <2>1. flows' \in Seq([ident : Idents, app : Apps]) /\ Len(flows) <= Len(flows)'
    BY <1>1 DEF IInv, FlowsOK
  <2>2. <<>> \in Seq(Flow')
    OBVIOUS
  <2>3. Respond(q, TRUE, <<>>) /\ req[q].kind = "callback"
    BY DEF ExchangeLost, Handling
  <2> QED
    BY <1>1, <2>1, <2>2, <2>3, RespondOK
<1>5. FlowsOK' /\ SessionsOK' /\ OtherTypes'
  BY <1>1, <1>2, <1>3 DEF IInv, FlowsOK, SessionsOK, OtherTypes, Flow
<1>6. SealsOK'
  BY <1>1, <1>2 DEF IInv, SealsOK, Sealed
<1>7. RedeemedBecomesCode'
  BY <1>1, <1>2, <1>3 DEF IInv, RedeemedBecomesCode
<1> QED
  BY <1>4, <1>5, <1>6, <1>7 DEF IInv

LEMMA FinishCallbackOK ==
  ASSUME IInv, NEW q \in Slots, FinishCallback(q)
  PROVE  IInv'
<1> DEFINE code == req[q].code
           s == Sealed(code, code, code)
           r == [req[q] EXCEPT !.pc = "answered", !.saves = TRUE, !.set = <<>>, !.sealed = s]
<1>1. Handling(q, "callback", "exchange")
  BY DEF FinishCallback
<1>2. CASE ~Redeems(code, Head(req[q].flashes))
  BY <1>1, <1>2, FailCallbackOK DEF FinishCallback, Handling
<1>3. CASE Redeems(code, Head(req[q].flashes))
  <2>1. code \in Flow /\ code = Head(req[q].flashes)
    BY <1>1, <1>3, Redeemed
  <2>2. UNCHANGED <<jar, flows, sent, held, tokens, puts, tally>>
    BY <1>3 DEF FinishCallback, appVars
  <2>3. redeemed' = redeemed \cup {code} /\ codes' = codes \cup {s}
    BY <1>3, <2>1 DEF FinishCallback
  <2>4. s \in SealedSessions /\ s.token = code
    BY <2>1, SealedType, OAuthAssumption DEF IInv
  <2>5. req[q] \in RequestRecords /\ RequestOK(q) /\ Len(flows) <= Len(flows)'
    BY <2>2 DEF IInv, FlowsOK
  <2>6. r \in RequestRecords
    <3>1. <<>> \in Seq(Nat)
      OBVIOUS
    <3> HIDE DEF s
    <3> QED
      BY <2>4, <2>5, <3>1 DEF RequestRecords
  <2>7. req' = [req EXCEPT ![q] = r]
    BY <1>3, <2>1 DEF FinishCallback, IInv
  <2>8. RequestOK(q)'
    <3>1. req'[q] = r
      BY <2>7 DEF IInv
    <3> HIDE DEF s
    <3>2. /\ r.kind = "callback" /\ r.pc = "answered" /\ r.flashes = req[q].flashes
          /\ r.set = <<>> /\ r.sealed = s
      BY <1>1, <2>5 DEF Handling, RequestRecords
    <3>3. <<>> \in Seq(Flow)
      OBVIOUS
    <3> HIDE DEF r
    <3> QED
      BY <2>2, <2>3, <2>5, <3>1, <3>2, <3>3 DEF RequestOK, Handling, Flow
  <2>9. req' \in [Slots -> RequestRecords] /\ \A p \in Slots : RequestOK(p)'
    <3> HIDE DEF r
    <3> QED
      BY <2>2, <2>3, <2>5, <2>6, <2>7, <2>8, OneRequest DEF IInv, FlowsOK
  <2>10. FlowsOK' /\ SessionsOK' /\ OtherTypes'
    <3> HIDE DEF s
    <3> QED
      BY <2>1, <2>2, <2>3, <2>4 DEF IInv, FlowsOK, SessionsOK, OtherTypes, Flow
  <2>11. SealsOK'
    <3>1. s = Sealed(s.token, s.token, s.token)
      BY <2>4
    <3>2. \A f : Sealed(f, f, f)' = Sealed(f, f, f)
      BY <2>2 DEF Sealed
    <3> HIDE DEF s
    <3> QED
      BY <2>2, <2>3, <2>4, <3>1, <3>2 DEF IInv, SealsOK
  <2>12. RedeemedBecomesCode'
    <3> HIDE DEF s
    <3> QED
      BY <2>2, <2>3, <2>4 DEF IInv, RedeemedBecomesCode
  <2> QED
    BY <2>9, <2>10, <2>11, <2>12 DEF IInv
<1> QED
  BY <1>2, <1>3

-----------------------------------------------------------------------------
LEMMA HandleTokenOK ==
  ASSUME IInv, HandleToken
  PROVE  IInv'
<1>1. PICK s \in held : tokens' = tokens \cup {Access(s)}
  BY DEF HandleToken
<1>2. UNCHANGED <<jar, req, flows, sent, redeemed, codes, held, puts, used, tally>>
  BY DEF HandleToken
<1>3. s \in SealedSessions /\ s.token \in redeemed /\ s = Sealed(s.token, s.token, s.token)
  BY DEF IInv, SessionsOK, SealsOK
<1>4. s.subject = flows[s.token].ident
  BY <1>3 DEF Sealed
<1>5. /\ Access(s) \in AccessSessions /\ Access(s).token = s.token
      /\ Access(s).subject = s.subject
  BY <1>3 DEF Access, AccessSessions, SealedSessions
<1>6. SessionsOK'
  BY <1>1, <1>2, <1>5 DEF IInv, SessionsOK
<1>7. SealsOK'
  <2>1. \A f : Sealed(f, f, f)' = Sealed(f, f, f)
    BY <1>2 DEF Sealed
  <2> QED
    BY <1>1, <1>2, <1>3, <1>4, <1>5, <2>1 DEF IInv, SealsOK
<1>8. FlowsOK' /\ OtherTypes' /\ RedeemedBecomesCode' /\ \A q \in Slots : RequestOK(q)'
  BY <1>2 DEF IInv, FlowsOK, OtherTypes, RedeemedBecomesCode, RequestOK, Handling, Flow
<1> QED
  BY <1>2, <1>6, <1>7, <1>8 DEF IInv

LEMMA PutRecordOK ==
  ASSUME IInv, PutRecord
  PROVE  IInv'
<1>1. PICK t \in tokens, owner \in Users :
        puts' = IF t.subject = DID(owner)
                THEN [puts EXCEPT !.done = @ \cup {<<t, owner>>}]
                ELSE [puts EXCEPT !.refused = @ \cup {<<t, owner>>}]
  BY DEF PutRecord
<1>2. UNCHANGED <<jar, req, flows, sent, redeemed, codes, held, tokens, used, tally>>
  BY DEF PutRecord
<1>3. <<t, owner>> \in AccessSessions \X Users
  BY DEF IInv, SessionsOK
<1>4. puts' \in [done : SUBSET (AccessSessions \X Users), refused : SUBSET (AccessSessions \X Users)]
  BY <1>1, <1>3 DEF IInv, SessionsOK
<1>5. \A p \in puts'.done : p \in puts.done \/ (p = <<t, owner>> /\ t.subject = DID(owner))
  BY <1>1 DEF IInv, SessionsOK
<1>6. SealsOK'
  <2>1. \A f : Sealed(f, f, f)' = Sealed(f, f, f)
    BY <1>2 DEF Sealed
  <2> QED
    BY <1>2, <1>5, <2>1 DEF IInv, SealsOK
<1>7. FlowsOK' /\ SessionsOK' /\ OtherTypes' /\ RedeemedBecomesCode' /\ \A q \in Slots : RequestOK(q)'
  BY <1>2, <1>4
  DEF IInv, FlowsOK, SessionsOK, OtherTypes, RedeemedBecomesCode, RequestOK, Handling, Flow
<1> QED
  BY <1>2, <1>6, <1>7 DEF IInv

LEMMA StutterOK ==
  ASSUME IInv, UNCHANGED vars
  PROVE  IInv'
<1>1. \A f : Sealed(f, f, f)' = Sealed(f, f, f)
  BY DEF Sealed, vars
<1>2. SealsOK'
  BY <1>1 DEF IInv, SealsOK, vars
<1>3. FlowsOK' /\ SessionsOK' /\ OtherTypes' /\ RedeemedBecomesCode' /\ \A q \in Slots : RequestOK(q)'
  BY DEF IInv, FlowsOK, SessionsOK, OtherTypes, RedeemedBecomesCode, RequestOK, Handling, Flow, vars
<1> QED
  BY <1>2, <1>3 DEF IInv, vars

LEMMA StepOK ==
  ASSUME IInv, [Next]_vars
  PROVE  IInv'
<1>1. ASSUME NEW q \in Slots, SendAuthorize(q) PROVE IInv'
  BY <1>1, SendAuthorizeOK
<1>2. ASSUME NEW q \in Slots, SendCallback(q) PROVE IInv'
  BY <1>2, SendCallbackOK
<1>3. ASSUME NEW q \in Slots, Deliver(q) PROVE IInv'
  BY <1>3, DeliverOK
<1>4. ASSUME NEW q \in Slots, Lose(q) PROVE IInv'
  BY <1>4, LoseOK
<1>5. ASSUME NEW q \in Slots, AuthorizeFails(q) PROVE IInv'
  BY <1>5, AuthorizeFailsOK
<1>6. ASSUME NEW q \in Slots, HandleAuthorize(q) PROVE IInv'
  BY <1>6, HandleAuthorizeOK
<1>7. ASSUME NEW q \in Slots, CallbackWithoutFlow(q) \/ CallbackFails(q) PROVE IInv'
  BY <1>7, FailCallbackOK DEF CallbackWithoutFlow, CallbackFails, Handling
<1>8. ASSUME NEW q \in Slots, RecreateRequest(q) PROVE IInv'
  BY <1>8, RecreateRequestOK
<1>9. ASSUME NEW q \in Slots, ExchangeLost(q) PROVE IInv'
  BY <1>9, ExchangeLostOK
<1>10. ASSUME NEW q \in Slots, FinishCallback(q) PROVE IInv'
  BY <1>10, FinishCallbackOK
<1> QED
  BY <1>1, <1>2, <1>3, <1>4, <1>5, <1>6, <1>7, <1>8, <1>9, <1>10,
     HandleTokenOK, PutRecordOK, StutterOK DEF Next

\* The invariant holds in every reachable state.
THEOREM Invariance == Spec => []IInv
<1>1. Init => IInv
  BY InitOK
<1>2. IInv /\ [Next]_vars => IInv'
  BY StepOK
<1> QED
  BY <1>1, <1>2, PTL DEF Spec

\* Cookies name accepted flows, and what is sealed into codes and tokens is a
\* session.
THEOREM TypeCorrect == Spec => []TypeOK
<1>1. IInv => TypeOK
  BY DEF IInv, FlowsOK, SessionsOK, AccessSessions, Flow, TypeOK
<1> QED
  BY <1>1, Invariance, PTL

\* Whatever flows wait in the cookie and however their responses cross, an
\* authorization code is sealed from one flow.
THEOREM OneFlowInACode == Spec => []CodesHoldOneFlow
<1>1. IInv => CodesHoldOneFlow
  BY DEF IInv, SealsOK, CodesHoldOneFlow
<1> QED
  BY <1>1, Invariance, PTL

\* A PDS code that is spent became an authorization code, unless the answer of
\* the PDS was lost.
THEOREM NoCodeSpentForNothing == Spec => []RedeemedBecomesCode
<1>1. IInv => RedeemedBecomesCode
  BY DEF IInv
<1> QED
  BY <1>1, Invariance, PTL

\* A record is put only for the user who authenticated with the PDS.
THEOREM OwnersPut == Spec => []OwnerAuthenticated
<1>1. IInv => OwnerAuthenticated
  <2> SUFFICES ASSUME IInv, NEW p \in puts.done
               PROVE  flows[p[1].token].ident.user = p[2] /\ p[1].token \in redeemed
    BY DEF OwnerAuthenticated
  <2>1. p[1] \in tokens /\ p[1].subject = DID(p[2])
    BY DEF IInv, SealsOK
  <2>2. p[1].token \in redeemed /\ flows[p[1].token].ident = DID(p[2])
    BY <2>1 DEF IInv, SealsOK
  <2>3. DID(p[2]).user = p[2]
    BY DEF DID
  <2> QED
    BY <2>2, <2>3
<1> QED
  BY <1>1, Invariance, PTL

-----------------------------------------------------------------------------
(***************************************************************************)
(* Why the callback of the newest flow fails no more often than it was     *)
(* disturbed.  What is still to fail and not paid for is a debt: one for   *)
(* each callback of the newest flow that is being handled, but for one of  *)
(* them that the PDS will serve, and one when the cookie will not be what  *)
(* the next callback needs.                                                *)
(***************************************************************************)
Busy(q) == req[q].pc # "idle"
Alone(q) == Busy(q) /\ \A p \in Slots \ {q} : ~Busy(p)

\* A callback is of a user who came back, and clears the flashes.
CallbackOK(q) ==
  /\ req[q].kind = "callback" => req[q].code \in sent.back
  /\ Handling(q, "callback", "answered") => req[q].saves /\ req[q].set = <<>>

\* What is known of the users the PDS has seen and of callbacks under way.
SentOK ==
  /\ sent.back \subseteq sent.out /\ sent.out \subseteq Flow
  /\ redeemed \subseteq sent.back
  /\ used \in [callbacks : Nat, faults : Nat]
  /\ \A q \in Slots : CallbackOK(q)

\* The cookie holds the newest flow alone while its user is at the PDS, and
\* nothing once the user is back.
JarFits ==
  /\ flows = <<>> \/ Newest \in sent.back => jar = <<>>
  /\ Newest \in sent.out \ sent.back => jar = <<Newest>>

\* The cookie will be so when the request, the only one under way, is answered.
WillFit(q) ==
  \/ req[q].kind = "callback" /\ Newest \notin sent.out \ sent.back
  \/ /\ Handling(q, "authorize", "handle")
     /\ req[q].flashes = <<>> /\ (flows = <<>> \/ Newest \in sent.back)
  \/ /\ Handling(q, "authorize", "answered")
     /\ req[q].saves => req[q].set = <<Newest>> /\ Newest \notin sent.out
     /\ ~req[q].saves => JarFits

Undisturbed ==
  \/ (\A q \in Slots : ~Busy(q)) /\ JarFits
  \/ \E q \in Slots : Alone(q) /\ WillFit(q)
Spoiled == IF Undisturbed THEN 0 ELSE 1

\* Callbacks of the newest flow that are being handled, and whether the PDS
\* will serve one of them.
Handled(q) == req[q].kind = "callback" /\ req[q].pc \in {"handle", "exchange"}
Waiting == {q \in Slots : Handled(q) /\ req[q].code = Newest}
HasKey(q) == req[q].flashes # <<>> /\ Head(req[q].flashes) = req[q].code
OneIsServed == Newest \notin redeemed /\ \E q \in Waiting : HasKey(q)
Served == IF OneIsServed THEN 1 ELSE 0

Debt ==
  tally.failed + Cardinality(Waiting) + Spoiled
    <= tally.disturbed + used.faults + Served

\* The inductive invariant of the count.
DebtInv == IInv /\ SentOK /\ Debt

\* Counting requests.
LEMMA Cards ==
  ASSUME NEW A \in SUBSET Slots, NEW B \in SUBSET Slots
  PROVE  /\ Cardinality(A) \in Nat
         /\ A \subseteq B => Cardinality(A) <= Cardinality(B)
         /\ \A q : A \subseteq B \cup {q} => Cardinality(A) <= Cardinality(B) + 1
         /\ \A q \in B : A \subseteq B \ {q} => Cardinality(A) + 1 <= Cardinality(B)
         /\ A = {} => Cardinality(A) = 0
         /\ A # {} => 1 <= Cardinality(A)
<1>1. IsFiniteSet(A) /\ IsFiniteSet(B)
  BY OAuthAssumption, FS_Subset
<1>2. Cardinality(A) \in Nat /\ Cardinality(B) \in Nat
  BY <1>1, FS_CardinalityType
<1>3. Cardinality(A) = 0 <=> A = {}
  BY <1>1, FS_EmptySet
<1>4. A \subseteq B => Cardinality(A) <= Cardinality(B)
  BY <1>1, FS_Subset
<1>5. ASSUME NEW q, A \subseteq B \cup {q}
      PROVE  Cardinality(A) <= Cardinality(B) + 1
  <2>1. IsFiniteSet(B \cup {q}) /\ Cardinality(B \cup {q}) <= Cardinality(B) + 1
    <3>1. /\ IsFiniteSet(B \cup {q})
          /\ Cardinality(B \cup {q}) = IF q \in B THEN Cardinality(B) ELSE Cardinality(B) + 1
      BY <1>1, FS_AddElement
    <3> QED
      BY <1>2, <3>1
  <2>2. Cardinality(A) <= Cardinality(B \cup {q}) /\ Cardinality(B \cup {q}) \in Nat
    BY <1>5, <2>1, FS_Subset, FS_CardinalityType
  <2> QED
    BY <1>2, <2>1, <2>2
<1>6. ASSUME NEW q \in B, A \subseteq B \ {q}
      PROVE  Cardinality(A) + 1 <= Cardinality(B)
  <2>1. IsFiniteSet(B \ {q}) /\ Cardinality(B \ {q}) = Cardinality(B) - 1
    BY <1>1, FS_RemoveElement
  <2>2. Cardinality(A) <= Cardinality(B \ {q})
    BY <1>6, <2>1, FS_Subset
  <2> QED
    BY <1>2, <2>1, <2>2
<1> QED
  BY <1>2, <1>3, <1>4, <1>5, <1>6

\* A step's failures, and what it takes from the debt, are paid for.
LEMMA Settled ==
  ASSUME DebtInv, IInv', SentOK', NEW a \in Nat, NEW b \in Nat,
         tally'.failed = tally.failed + a,
         tally'.disturbed + used'.faults = tally.disturbed + used.faults + b,
         Cardinality(Waiting') + Spoiled' + a + Served
           <= Cardinality(Waiting) + Spoiled + b + Served'
  PROVE  Debt'
<1>1. /\ tally.failed \in Nat /\ tally.disturbed \in Nat /\ used.faults \in Nat
      /\ tally'.failed \in Nat /\ tally'.disturbed \in Nat /\ used'.faults \in Nat
  BY DEF DebtInv, IInv, OtherTypes, SentOK
<1>2. Waiting \in SUBSET Slots /\ Waiting' \in SUBSET Slots
  BY DEF Waiting
<1>3. Cardinality(Waiting) \in Nat /\ Cardinality(Waiting') \in Nat
  BY <1>2, Cards
<1>4. Spoiled \in Nat /\ Served \in Nat /\ Spoiled' \in Nat /\ Served' \in Nat
  BY DEF Spoiled, Served
<1>5. tally.failed + Cardinality(Waiting) + Spoiled <= tally.disturbed + used.faults + Served
  BY DEF DebtInv, Debt
<1>6. tally'.failed + Cardinality(Waiting') + Spoiled' <= tally'.disturbed + used'.faults + Served'
  BY <1>1, <1>3, <1>4, <1>5
<1> QED
  BY <1>6 DEF Debt

\* Spoiled and Served are what they say, before and after a step.
LEMMA Bits ==
  /\ Spoiled \in Nat /\ Spoiled <= 1 /\ (Undisturbed => Spoiled = 0) /\ (~Undisturbed => Spoiled = 1)
  /\ Spoiled' \in Nat /\ Spoiled' <= 1 /\ (Undisturbed' => Spoiled' = 0)
  /\ Served \in Nat /\ Served <= 1 /\ (OneIsServed => Served = 1) /\ (~OneIsServed => Served = 0)
  /\ Served' \in Nat /\ Served' <= 1 /\ (OneIsServed' => Served' = 1)
  BY DEF Spoiled, Served

\* How the callbacks that wait become more and fewer.
LEMMA WaitingCards ==
  /\ Cardinality(Waiting) \in Nat /\ Cardinality(Waiting') \in Nat
  /\ Waiting' \subseteq Waiting => Cardinality(Waiting') <= Cardinality(Waiting)
  /\ \A q : Waiting' \subseteq Waiting \cup {q} => Cardinality(Waiting') <= Cardinality(Waiting) + 1
  /\ \A q \in Waiting : Waiting' \subseteq Waiting \ {q} => Cardinality(Waiting') + 1 <= Cardinality(Waiting)
  /\ Waiting' = {} => Cardinality(Waiting') = 0
  /\ Served <= Cardinality(Waiting)
<1>1. Waiting \in SUBSET Slots /\ Waiting' \in SUBSET Slots
  BY DEF Waiting
<1>2. /\ Cardinality(Waiting) \in Nat /\ Cardinality(Waiting') \in Nat
      /\ Waiting # {} => 1 <= Cardinality(Waiting)
  BY <1>1, Cards
<1>3. Served <= Cardinality(Waiting)
  BY <1>2 DEF Served, OneIsServed
<1> QED
  BY <1>1, <1>2, <1>3, Cards

-----------------------------------------------------------------------------
\* What others' steps and answers leave alone.
LEMMA OthersStay ==
  ASSUME IInv, NEW q \in Slots, NEW r, req' = [req EXCEPT ![q] = r]
  PROVE  /\ req'[q] = r
         /\ \A p \in Slots \ {q} : req'[p] = req[p]
  BY DEF IInv

\* A request that is under way stays under way, and what it will do to the
\* cookie stays right.
LEMMA StaysUndisturbed ==
  ASSUME NEW q \in Slots, \A p \in Slots \ {q} : req'[p] = req[p],
         Busy(q), Busy(q)', WillFit(q) => WillFit(q)'
  PROVE  Undisturbed => Undisturbed'
<1> SUFFICES ASSUME Undisturbed
             PROVE  Undisturbed'
  OBVIOUS
<1>1. PICK p \in Slots : Alone(p) /\ WillFit(p)
  BY DEF Undisturbed
<1>2. p = q
  BY <1>1 DEF Alone
<1>3. Alone(q)'
  BY <1>1, <1>2 DEF Alone, Busy
<1> QED
  BY <1>1, <1>2, <1>3 DEF Undisturbed

\* Callbacks stay as they are when users only get back.
LEMMA OthersCallbackOK ==
  ASSUME NEW q \in Slots, \A p \in Slots \ {q} : req'[p] = req[p],
         sent.back \subseteq sent'.back, \A p \in Slots : CallbackOK(p), CallbackOK(q)'
  PROVE  \A p \in Slots : CallbackOK(p)'
<1>1. ASSUME NEW p \in Slots \ {q}
      PROVE  CallbackOK(p)'
  BY <1>1 DEF CallbackOK, Handling
<1> QED
  BY <1>1

LEMMA SentOKStays ==
  ASSUME SentOK, UNCHANGED <<sent, flows, redeemed>>, used' \in [callbacks : Nat, faults : Nat],
         \A p \in Slots : CallbackOK(p)'
  PROVE  SentOK'
  BY DEF SentOK, Flow

\* A step that leaves callbacks alone leaves those of the newest flow alone.
LEMMA SameWaiting ==
  ASSUME NEW q \in Slots, \A p \in Slots \ {q} : req'[p] = req[p],
         ~Handled(q), ~Handled(q)', UNCHANGED <<flows, redeemed>>
  PROVE  Waiting' = Waiting /\ (OneIsServed => OneIsServed')
<1>1. q \notin Waiting /\ q \notin Waiting'
  BY DEF Waiting
<1>2. \A p \in Slots \ {q} : p \in Waiting' <=> p \in Waiting
  BY DEF Waiting, Handled, Newest
<1>3. Waiting' = Waiting
  BY <1>1, <1>2 DEF Waiting
<1>4. \A p \in Waiting : HasKey(p) => HasKey(p)'
  BY <1>1 DEF HasKey, Waiting
<1> QED
  BY <1>3, <1>4 DEF OneIsServed, Newest

\* A callback ends.  It waits no more, and will leave the cookie empty.
LEMMA CallbackEnds ==
  ASSUME IInv, SentOK, NEW q \in Slots, NEW r, req' = [req EXCEPT ![q] = r],
         Handled(q), r.kind = "callback", r.pc = "answered", r.code = req[q].code,
         r.saves, r.set = <<>>, UNCHANGED <<jar, flows, sent>>
  PROVE  /\ Waiting' \subseteq Waiting \ {q}
         /\ req[q].code = Newest <=> q \in Waiting
         /\ \A p \in Waiting \ {q} : p \in Waiting' /\ (HasKey(p) => HasKey(p)')
         /\ Undisturbed => Undisturbed'
         /\ \A p \in Slots : CallbackOK(p)'
<1>1. req'[q] = r /\ \A p \in Slots \ {q} : req'[p] = req[p]
  BY OthersStay
<1>2. Waiting' \subseteq Waiting \ {q}
  BY <1>1 DEF Waiting, Handled, Newest
<1>3. req[q].code = Newest <=> q \in Waiting
  BY DEF Waiting
<1>4. \A p \in Waiting \ {q} : p \in Waiting' /\ (HasKey(p) => HasKey(p)')
  BY <1>1 DEF Waiting, Handled, HasKey, Newest
<1>5. Undisturbed => Undisturbed'
  <2>1. Busy(q) /\ Busy(q)'
    BY <1>1 DEF Busy, Handled
  <2>2. WillFit(q) => WillFit(q)'
    BY <1>1 DEF WillFit, Handled, Handling, Newest
  <2> QED
    BY <1>1, <2>1, <2>2, StaysUndisturbed
<1>6. CallbackOK(q) /\ CallbackOK(q)'
  BY <1>1 DEF SentOK, CallbackOK, Handled, Handling
<1>7. \A p \in Slots : CallbackOK(p)'
  BY <1>1, <1>6, OthersCallbackOK DEF SentOK
<1> QED
  BY <1>2, <1>3, <1>4, <1>5, <1>7
-----------------------------------------------------------------------------
LEMMA DisturbsBy ==
  ASSUME OtherTypes, NEW b \in BOOLEAN, Disturbs(b)
  PROVE  /\ tally'.failed = tally.failed
         /\ tally'.disturbed = tally.disturbed + (IF b THEN 1 ELSE 0)
                                 + (IF \E p \in Slots : Busy(p) THEN 1 ELSE 0)
<1> DEFINE own == IF b THEN 1 ELSE 0
           crossing == IF \E p \in Slots : req[p].pc # "idle" THEN 1 ELSE 0
<1>1. tally' = [tally EXCEPT !.disturbed = @ + own + crossing]
  BY DEF Disturbs
<1>2. crossing = IF \E p \in Slots : Busy(p) THEN 1 ELSE 0
  BY DEF Busy
<1> HIDE DEF own, crossing
<1>3. tally'.failed = tally.failed /\ tally'.disturbed = tally.disturbed + own + crossing
  BY <1>1 DEF OtherTypes
<1> QED
  BY <1>2, <1>3 DEF own

\* A new flow is paid for when it leaves one behind or meets another request;
\* otherwise the cookie is empty when it starts.
LEMMA SendAuthorizePays ==
  ASSUME DebtInv, IInv', NEW q \in Slots, SendAuthorize(q)
  PROVE  SentOK' /\ Debt'
<1>1. PICK id \in Idents, app \in Apps :
        req' = [req EXCEPT ![q] = [Idle EXCEPT !.kind = "authorize", !.pc = "handle",
                  !.ident = id, !.app = app, !.flashes = jar]]
  BY DEF SendAuthorize
<1> DEFINE r == [Idle EXCEPT !.kind = "authorize", !.pc = "handle",
                   !.ident = id, !.app = app, !.flashes = jar]
           b == flows # <<>> /\ Newest \notin sent.back
           own == IF b THEN 1 ELSE 0
           crossing == IF \E p \in Slots : Busy(p) THEN 1 ELSE 0
<1>2. r.kind = "authorize" /\ r.pc = "handle" /\ r.flashes = jar
  BY DEF Idle
<1>3. UNCHANGED <<jar, flows, sent, redeemed, used>> /\ Disturbs(b) /\ req[q].pc = "idle"
  BY DEF SendAuthorize
<1>4. IInv /\ SentOK /\ Debt /\ OtherTypes
  BY DEF DebtInv, IInv
<1>5. req' = [req EXCEPT ![q] = r]
  BY <1>1
<1> HIDE DEF r
<1>6. req'[q] = r /\ \A p \in Slots \ {q} : req'[p] = req[p]
  BY <1>4, <1>5, OthersStay
<1>7. tally'.failed = tally.failed /\ tally'.disturbed = tally.disturbed + own + crossing
  BY <1>3, <1>4, DisturbsBy
<1>8. SentOK'
  <2>1. CallbackOK(q)'
    BY <1>2, <1>6 DEF CallbackOK, Handling
  <2>2. \A p \in Slots : CallbackOK(p)'
    BY <1>3, <1>4, <1>6, <2>1, OthersCallbackOK DEF SentOK
  <2> QED
    BY <1>3, <1>4, <2>2, SentOKStays DEF SentOK
<1>9. Waiting' = Waiting /\ (OneIsServed => OneIsServed')
  BY <1>2, <1>3, <1>6, SameWaiting DEF Handled
<1>10. own = 0 /\ crossing = 0 => (Undisturbed => Undisturbed')
  <2> SUFFICES ASSUME ~b, \A p \in Slots : ~Busy(p), Undisturbed
               PROVE  Undisturbed'
    OBVIOUS
  <2>1. JarFits
    BY DEF Undisturbed, Alone
  <2>2. jar = <<>>
    BY <2>1 DEF JarFits
  <2>3. WillFit(q)'
    BY <1>2, <1>3, <1>6, <2>2 DEF WillFit, Handling, Newest
  <2>4. Alone(q)'
    BY <1>2, <1>6 DEF Alone, Busy
  <2> QED
    BY <2>3, <2>4 DEF Undisturbed
<1>11. own \in 0..1 /\ crossing \in 0..1 /\ own + crossing \in Nat
  OBVIOUS
<1>12. Cardinality(Waiting') + Spoiled' + 0 + Served
         <= Cardinality(Waiting) + Spoiled + (own + crossing) + Served'
  <2> HIDE DEF own, crossing
  <2> QED
    BY <1>9, <1>10, <1>11, Bits, WaitingCards
<1>13. tally'.failed = tally.failed + 0
       /\ tally'.disturbed + used'.faults = tally.disturbed + used.faults + (own + crossing)
  <2> HIDE DEF own, crossing
  <2> QED
    BY <1>3, <1>4, <1>7, <1>11 DEF OtherTypes, SentOK
<1> HIDE DEF own, crossing
<1>14. Debt'
  BY <1>8, <1>11, <1>12, <1>13, Settled
<1> QED
  BY <1>8, <1>14

\* A callback is paid for when it is not the first of the newest flow, or meets
\* another request; otherwise the PDS will serve it, or it finds the cookie
\* that was paid for already.
LEMMA SendCallbackPays ==
  ASSUME DebtInv, IInv', NEW q \in Slots, SendCallback(q)
  PROVE  SentOK' /\ Debt'
<1>1. PICK f \in sent.out :
        /\ req' = [req EXCEPT ![q] = [Idle EXCEPT !.kind = "callback", !.pc = "handle",
                     !.code = f, !.flashes = jar]]
        /\ sent' = [sent EXCEPT !.back = @ \cup {f}]
        /\ Disturbs(f # Newest \/ f \in sent.back)
  BY DEF SendCallback
<1> DEFINE r == [Idle EXCEPT !.kind = "callback", !.pc = "handle", !.code = f, !.flashes = jar]
           b == f # Newest \/ f \in sent.back
           own == IF b THEN 1 ELSE 0
           crossing == IF \E p \in Slots : Busy(p) THEN 1 ELSE 0
<1>2. r.kind = "callback" /\ r.pc = "handle" /\ r.code = f /\ r.flashes = jar
  BY DEF Idle
<1>3. UNCHANGED <<jar, flows, redeemed>> /\ Disturbs(b) /\ req[q].pc = "idle"
  BY <1>1 DEF SendCallback
<1>4. IInv /\ SentOK /\ Debt /\ OtherTypes /\ Len(flows) \in Nat
  BY DEF DebtInv, IInv, FlowsOK
<1>5. req' = [req EXCEPT ![q] = r]
  BY <1>1
<1> HIDE DEF r
<1>6. req'[q] = r /\ \A p \in Slots \ {q} : req'[p] = req[p]
  BY <1>4, <1>5, OthersStay
<1>7. tally'.failed = tally.failed /\ tally'.disturbed = tally.disturbed + own + crossing
  BY <1>3, <1>4, DisturbsBy
<1>8. sent'.back = sent.back \cup {f} /\ sent'.out = sent.out
  BY <1>1, <1>4 DEF OtherTypes
<1>9. used' \in [callbacks : Nat, faults : Nat] /\ used'.faults = used.faults
  BY <1>4 DEF SendCallback, SentOK
<1>10. SentOK'
  <2>1. CallbackOK(q)'
    BY <1>2, <1>6, <1>8 DEF CallbackOK, Handling
  <2>2. \A p \in Slots : CallbackOK(p)'
    BY <1>4, <1>6, <1>8, <2>1, OthersCallbackOK DEF SentOK
  <2> QED
    BY <1>3, <1>4, <1>8, <1>9, <2>2 DEF SentOK, Flow
<1>11. q \notin Waiting
  BY <1>3 DEF Waiting, Handled
<1>12. Waiting' \subseteq Waiting \cup {q} /\ (OneIsServed => OneIsServed')
  <2>1. \A p \in Slots \ {q} : p \in Waiting' <=> p \in Waiting
    BY <1>3, <1>6 DEF Waiting, Handled, Newest
  <2>2. \A p \in Waiting : HasKey(p) => HasKey(p)'
    BY <1>6, <1>11 DEF HasKey, Waiting
  <2>3. \A p \in Waiting : p \in Waiting'
    BY <1>11, <2>1 DEF Waiting
  <2> QED
    BY <1>3, <2>1, <2>2, <2>3 DEF OneIsServed, Newest, Waiting
<1>13. own \in 0..1 /\ crossing \in 0..1 /\ own + crossing \in Nat
  OBVIOUS
<1>14. Cardinality(Waiting') + Spoiled' + 0 + Served
         <= Cardinality(Waiting) + Spoiled + (own + crossing) + Served'
  <2>1. CASE f # Newest
    <3>1. q \notin Waiting'
      BY <1>2, <1>3, <1>6, <2>1 DEF Waiting, Newest
    <3>2. own = 1 /\ Waiting' \subseteq Waiting
      BY <1>12, <2>1, <3>1
    <3> HIDE DEF own, crossing
    <3> QED
      BY <1>12, <1>13, <3>2, Bits, WaitingCards
  <2>2. CASE f = Newest /\ f \in sent.back
    <3>1. own = 1
      BY <2>2
    <3>2. crossing = 0 => Undisturbed'
      <4> SUFFICES ASSUME \A p \in Slots : ~Busy(p)
                   PROVE  Undisturbed'
        OBVIOUS
      <4>1. WillFit(q)'
        BY <1>2, <1>3, <1>6, <1>8, <2>2 DEF WillFit, Newest
      <4>2. Alone(q)'
        BY <1>2, <1>6 DEF Alone, Busy
      <4> QED
        BY <4>1, <4>2 DEF Undisturbed
    <3> HIDE DEF own, crossing
    <3>3. Cardinality(Waiting') <= Cardinality(Waiting) + 1
      BY <1>12, WaitingCards
    <3>4. Spoiled' <= Spoiled + crossing /\ Served <= Served'
      BY <1>12, <1>13, <3>2, Bits
    <3> QED
      BY <1>13, <3>1, <3>3, <3>4, Bits, WaitingCards
  <2>3. CASE f = Newest /\ f \notin sent.back
    <3>1. Waiting = {}
      BY <1>4, <2>3 DEF SentOK, CallbackOK, Waiting, Handled
    <3>2. ~OneIsServed
      BY <3>1 DEF OneIsServed
    <3>3. jar = <<Newest>> => OneIsServed'
      <4> SUFFICES ASSUME jar = <<Newest>>
                   PROVE  OneIsServed'
        OBVIOUS
      <4>1. q \in Waiting' /\ HasKey(q)'
        BY <1>2, <1>3, <1>6, <2>3 DEF Waiting, Handled, HasKey, Newest
      <4>2. Newest' \notin redeemed'
        BY <1>3, <1>4, <2>3 DEF SentOK, Newest
      <4> QED
        BY <4>1, <4>2 DEF OneIsServed
    <3>4. Newest \in sent.out \ sent.back /\ flows # <<>>
      BY <1>4, <2>3 DEF SentOK, Flow, Newest
    <3>5. Undisturbed => jar = <<Newest>>
      BY <3>4 DEF Undisturbed, WillFit, JarFits
    <3>6. crossing = 0 => Undisturbed'
      <4> SUFFICES ASSUME \A p \in Slots : ~Busy(p)
                   PROVE  Undisturbed'
        OBVIOUS
      <4>1. WillFit(q)'
        BY <1>2, <1>3, <1>6, <1>8, <2>3 DEF WillFit, Newest
      <4>2. Alone(q)'
        BY <1>2, <1>6 DEF Alone, Busy
      <4> QED
        BY <4>1, <4>2 DEF Undisturbed
    <3>7. Cardinality(Waiting) = 0
      BY <3>1, FS_EmptySet
    <3>8. Cardinality(Waiting') <= 1
      BY <1>12, <3>7, WaitingCards
    <3> HIDE DEF own, crossing
    <3> QED
      BY <1>12, <1>13, <3>2, <3>3, <3>5, <3>6, <3>7, <3>8, Bits, WaitingCards
  <2> QED
    BY <2>1, <2>2, <2>3
<1> HIDE DEF own, crossing
<1>15. tally'.failed = tally.failed + 0
       /\ tally'.disturbed + used'.faults = tally.disturbed + used.faults + (own + crossing)
  BY <1>4, <1>7, <1>9, <1>13 DEF OtherTypes, SentOK
<1>16. Debt'
  BY <1>10, <1>13, <1>14, <1>15, Settled
<1> QED
  BY <1>10, <1>16

\* The cookie becomes what the answer that is alone has said.
LEMMA DeliverPays ==
  ASSUME DebtInv, IInv', NEW q \in Slots, Deliver(q)
  PROVE  SentOK' /\ Debt'
<1>1. IInv /\ SentOK /\ Debt /\ OtherTypes /\ Len(flows) \in Nat /\ RequestOK(q)
  BY DEF DebtInv, IInv, FlowsOK
<1>2. UNCHANGED <<flows, redeemed, used, tally>> /\ req[q].pc = "answered"
  BY DEF Deliver
<1>3. req'[q] = Idle /\ \A p \in Slots \ {q} : req'[p] = req[p]
  BY <1>1, OthersStay DEF Deliver
<1>4. Idle.kind = "none" /\ Idle.pc = "idle"
  BY DEF Idle
<1>5. /\ sent'.back = sent.back
      /\ req[q].kind = "authorize" /\ req[q].saves => sent'.out = sent.out \cup {Last(req[q].set)}
      /\ ~(req[q].kind = "authorize" /\ req[q].saves) => sent'.out = sent.out
  BY <1>1 DEF Deliver, OtherTypes
<1>6. SentOK'
  <2>1. CallbackOK(q)'
    BY <1>3, <1>4 DEF CallbackOK, Handling
  <2>2. \A p \in Slots : CallbackOK(p)'
    BY <1>1, <1>3, <1>5, <2>1, OthersCallbackOK DEF SentOK
  <2>3. req[q].kind = "authorize" /\ req[q].saves => Last(req[q].set) \in Flow
    BY <1>1, HeadIsFlow DEF RequestOK, Last, Flow
  <2>4. sent'.out \subseteq Flow
    BY <1>1, <1>5, <2>3 DEF SentOK
  <2> QED
    BY <1>1, <1>2, <1>5, <2>2, <2>4 DEF SentOK, Flow
<1>7. Waiting' = Waiting /\ (OneIsServed => OneIsServed')
  BY <1>2, <1>3, <1>4, SameWaiting DEF Handled
<1>8. Undisturbed => Undisturbed'
  <2> SUFFICES ASSUME Undisturbed
               PROVE  Undisturbed'
    OBVIOUS
  <2>1. Busy(q)
    BY <1>2 DEF Busy
  <2>2. Alone(q) /\ WillFit(q)
    BY <2>1 DEF Undisturbed, Alone
  <2>3. \A p \in Slots : ~Busy(p)'
    BY <1>3, <1>4, <2>2 DEF Alone, Busy
  <2>4. JarFits'
    <3>1. CASE req[q].kind = "callback" /\ Newest \notin sent.out \ sent.back
      <4>1. req[q].saves /\ req[q].set = <<>>
        BY <1>1, <1>2, <3>1 DEF SentOK, CallbackOK, Handling
      <4>2. jar' = <<>>
        BY <4>1 DEF Deliver
      <4> QED
        BY <1>2, <1>5, <3>1, <4>2 DEF JarFits, Newest
    <3>2. CASE req[q].kind = "authorize" /\ ~req[q].saves /\ JarFits
      BY <1>2, <1>5, <3>2 DEF JarFits, Newest, Deliver
    <3>3. CASE /\ req[q].kind = "authorize" /\ req[q].saves
               /\ req[q].set = <<Newest>> /\ Newest \notin sent.out
      <4>1. jar' = <<Newest>>
        BY <3>3 DEF Deliver
      <4>2. Last(req[q].set) \in Flow
        BY <1>1, <3>3, HeadIsFlow DEF RequestOK, Last, Flow
      <4>3. Last(req[q].set) = Newest
        BY <3>3 DEF Last
      <4>4. flows # <<>> /\ Newest \notin sent.back
        BY <1>1, <3>3, <4>2, <4>3 DEF SentOK, Flow
      <4> QED
        BY <1>2, <1>5, <3>3, <4>1, <4>4 DEF JarFits, Newest
    <3> QED
      BY <1>2, <2>2, <3>1, <3>2, <3>3 DEF WillFit, Handling
  <2> QED
    BY <2>3, <2>4 DEF Undisturbed
<1>9. Cardinality(Waiting') + Spoiled' + 0 + Served <= Cardinality(Waiting) + Spoiled + 0 + Served'
  BY <1>7, <1>8, Bits, WaitingCards
<1>10. tally'.failed = tally.failed + 0
       /\ tally'.disturbed + used'.faults = tally.disturbed + used.faults + 0
  BY <1>1, <1>2 DEF OtherTypes, SentOK
<1>11. Debt'
  BY <1>6, <1>9, <1>10, Settled
<1> QED
  BY <1>6, <1>11

\* A lost answer is a fault.
LEMMA LosePays ==
  ASSUME DebtInv, IInv', NEW q \in Slots, Lose(q)
  PROVE  SentOK' /\ Debt'
<1>1. IInv /\ SentOK /\ Debt /\ OtherTypes
  BY DEF DebtInv, IInv
<1>2. /\ UNCHANGED <<flows, sent, redeemed, tally>> /\ req[q].pc = "answered"
      /\ used' = [used EXCEPT !.faults = @ + 1]
  BY DEF Lose, Fault
<1>3. req'[q] = Idle /\ \A p \in Slots \ {q} : req'[p] = req[p]
  BY <1>1, OthersStay DEF Lose
<1>4. Idle.kind = "none" /\ Idle.pc = "idle"
  BY DEF Idle
<1>5. used' \in [callbacks : Nat, faults : Nat] /\ used'.faults = used.faults + 1
  BY <1>1, <1>2 DEF SentOK
<1>6. SentOK'
  <2>1. CallbackOK(q)'
    BY <1>3, <1>4 DEF CallbackOK, Handling
  <2>2. \A p \in Slots : CallbackOK(p)'
    BY <1>1, <1>2, <1>3, <2>1, OthersCallbackOK DEF SentOK
  <2> QED
    BY <1>1, <1>2, <1>5, <2>2, SentOKStays DEF SentOK
<1>7. Waiting' = Waiting /\ (OneIsServed => OneIsServed')
  BY <1>2, <1>3, <1>4, SameWaiting DEF Handled
<1>8. Cardinality(Waiting') + Spoiled' + 0 + Served <= Cardinality(Waiting) + Spoiled + 1 + Served'
  BY <1>7, Bits, WaitingCards
<1>9. tally'.failed = tally.failed + 0
      /\ tally'.disturbed + used'.faults = tally.disturbed + used.faults + 1
  BY <1>1, <1>2, <1>5 DEF OtherTypes, SentOK
<1> QED
  BY <1>6, <1>8, <1>9, Settled

\* Metadata or a PDS out of reach is a fault.
LEMMA AuthorizeFailsPays ==
  ASSUME DebtInv, IInv', NEW q \in Slots, AuthorizeFails(q)
  PROVE  SentOK' /\ Debt'
<1> DEFINE r == [req[q] EXCEPT !.pc = "answered", !.saves = FALSE, !.set = <<>>]
<1>1. IInv /\ SentOK /\ Debt /\ OtherTypes /\ req[q] \in RequestRecords
  BY DEF DebtInv, IInv
<1>2. /\ UNCHANGED <<flows, sent, redeemed, tally>> /\ Handling(q, "authorize", "handle")
      /\ used' = [used EXCEPT !.faults = @ + 1]
  BY DEF AuthorizeFails, Fault
<1>3. req' = [req EXCEPT ![q] = r]
  BY <1>1 DEF AuthorizeFails, Respond, IInv
<1>4. r.kind = "authorize" /\ r.pc = "answered"
  BY <1>1, <1>2 DEF RequestRecords, Handling
<1> HIDE DEF r
<1>5. req'[q] = r /\ \A p \in Slots \ {q} : req'[p] = req[p]
  BY <1>1, <1>3, OthersStay
<1>6. used' \in [callbacks : Nat, faults : Nat] /\ used'.faults = used.faults + 1
  BY <1>1, <1>2 DEF SentOK
<1>7. SentOK'
  <2>1. CallbackOK(q)'
    BY <1>4, <1>5 DEF CallbackOK, Handling
  <2>2. \A p \in Slots : CallbackOK(p)'
    BY <1>1, <1>2, <1>5, <2>1, OthersCallbackOK DEF SentOK
  <2> QED
    BY <1>1, <1>2, <1>6, <2>2, SentOKStays
<1>8. Waiting' = Waiting /\ (OneIsServed => OneIsServed')
  BY <1>2, <1>4, <1>5, SameWaiting DEF Handled, Handling
<1>9. Cardinality(Waiting') + Spoiled' + 0 + Served <= Cardinality(Waiting) + Spoiled + 1 + Served'
  BY <1>8, Bits, WaitingCards
<1>10. tally'.failed = tally.failed + 0
       /\ tally'.disturbed + used'.faults = tally.disturbed + used.faults + 1
  BY <1>1, <1>2, <1>6 DEF OtherTypes, SentOK
<1> QED
  BY <1>7, <1>9, <1>10, Settled

\* A new flow is the newest: no callback is of it, and if it started from an
\* empty cookie, it will be alone in it.
LEMMA HandleAuthorizePays ==
  ASSUME DebtInv, IInv', NEW q \in Slots, HandleAuthorize(q)
  PROVE  SentOK' /\ Debt'
<1> DEFINE n == Len(flows) + 1
<1>1. IInv /\ SentOK /\ Debt /\ OtherTypes /\ req[q] \in RequestRecords /\ RequestOK(q)
  BY DEF DebtInv, IInv
<1>2. /\ UNCHANGED <<jar, sent, redeemed, tally, used>> /\ Handling(q, "authorize", "handle")
      /\ flows' = Append(flows, [ident |-> req[q].ident, app |-> req[q].app])
  BY DEF HandleAuthorize
<1>3. Len(flows) \in Nat /\ Newest' = n /\ n \notin Flow /\ Flow \subseteq Flow' /\ n \in Nat
  <2>1. flows \in Seq([ident : Idents, app : Apps])
    BY <1>1 DEF IInv, FlowsOK
  <2>2. [ident |-> req[q].ident, app |-> req[q].app] \in [ident : Idents, app : Apps]
    BY <1>1, <1>2 DEF RequestOK
  <2> QED
    BY <1>2, <2>1, <2>2 DEF Newest, Flow
<1>4. PICK r : /\ req' = [req EXCEPT ![q] = r]
               /\ r.kind = "authorize" /\ r.pc = "answered"
               /\ r.saves => r.set = Append(req[q].flashes, n)
  <2>1. req \in [Slots -> RequestRecords] /\ req[q].kind = "authorize"
    BY <1>1, <1>2 DEF IInv, Handling
  <2>2. CASE Respond(q, TRUE, Append(req[q].flashes, n))
    <3> DEFINE r == [req[q] EXCEPT !.pc = "answered", !.saves = TRUE,
                                   !.set = Append(req[q].flashes, n)]
    <3>1. r.kind = "authorize" /\ r.pc = "answered" /\ r.set = Append(req[q].flashes, n)
      BY <1>1, <2>1 DEF RequestRecords
    <3>2. req' = [req EXCEPT ![q] = r]
      BY <2>1, <2>2 DEF Respond
    <3> HIDE DEF r
    <3> QED
      BY <3>1, <3>2
  <2>3. CASE Respond(q, FALSE, <<>>)
    <3> DEFINE r == [req[q] EXCEPT !.pc = "answered", !.saves = FALSE, !.set = <<>>]
    <3>1. r.kind = "authorize" /\ r.pc = "answered" /\ ~r.saves
      BY <1>1, <2>1 DEF RequestRecords
    <3>2. req' = [req EXCEPT ![q] = r]
      BY <2>1, <2>3 DEF Respond
    <3> HIDE DEF r
    <3> QED
      BY <3>1, <3>2
  <2> QED
    BY <2>2, <2>3 DEF HandleAuthorize
<1>5. req'[q] = r /\ \A p \in Slots \ {q} : req'[p] = req[p]
  BY <1>1, <1>4, OthersStay
<1>6. SentOK' /\ (\A p \in Slots : CallbackOK(p)')
  <2>1. CallbackOK(q)'
    BY <1>4, <1>5 DEF CallbackOK, Handling
  <2>2. \A p \in Slots : CallbackOK(p)'
    BY <1>1, <1>2, <1>5, <2>1, OthersCallbackOK DEF SentOK
  <2> QED
    BY <1>1, <1>2, <1>3, <2>2 DEF SentOK
<1>7. Newest' \notin sent.out /\ Newest' \notin sent.back
  BY <1>1, <1>3 DEF SentOK
<1>8. Waiting' = {}
  BY <1>2, <1>6, <1>7 DEF Waiting, CallbackOK, Handled
<1>9. Undisturbed => Undisturbed'
  <2>1. Busy(q) /\ Busy(q)'
    BY <1>2, <1>4, <1>5 DEF Busy, Handling
  <2>2. WillFit(q) => WillFit(q)'
    <3> SUFFICES ASSUME WillFit(q)
                 PROVE  WillFit(q)'
      OBVIOUS
    <3>1. req[q].flashes = <<>>
      BY <1>2 DEF WillFit, Handling
    <3>2. r.saves => r.set = <<n>>
      BY <1>4, <3>1
    <3>3. flows' # <<>>
      BY <1>1, <1>2 DEF IInv, FlowsOK
    <3>4. JarFits'
      BY <1>2, <1>7, <3>3 DEF JarFits
    <3> QED
      BY <1>2, <1>3, <1>4, <1>5, <1>7, <3>2, <3>4 DEF WillFit, Handling
  <2> QED
    BY <1>5, <2>1, <2>2, StaysUndisturbed
<1>10. Cardinality(Waiting') + Spoiled' + 0 + Served <= Cardinality(Waiting) + Spoiled + 0 + Served'
  <2>1. Cardinality(Waiting') = 0 /\ Served <= Cardinality(Waiting)
    BY <1>8, WaitingCards
  <2>2. Spoiled' <= Spoiled
    BY <1>9, Bits
  <2> QED
    BY <2>1, <2>2, Bits, WaitingCards
<1>11. tally'.failed = tally.failed + 0
       /\ tally'.disturbed + used'.faults = tally.disturbed + used.faults + 0
  BY <1>1, <1>2 DEF OtherTypes, SentOK
<1> QED
  BY <1>6, <1>10, <1>11, Settled

\* The request is made again: nothing that counts changes.
LEMMA RecreateRequestPays ==
  ASSUME DebtInv, IInv', NEW q \in Slots, RecreateRequest(q)
  PROVE  SentOK' /\ Debt'
<1> DEFINE r == [req[q] EXCEPT !.pc = "exchange"]
<1>1. IInv /\ SentOK /\ Debt /\ OtherTypes /\ req[q] \in RequestRecords
  BY DEF DebtInv, IInv
<1>2. UNCHANGED <<jar, flows, sent, redeemed, tally, used>> /\ Handling(q, "callback", "handle")
  BY DEF RecreateRequest
<1>3. req' = [req EXCEPT ![q] = r]
  BY <1>1 DEF RecreateRequest, IInv
<1>4. /\ r.kind = "callback" /\ r.pc = "exchange" /\ r.code = req[q].code
      /\ r.flashes = req[q].flashes
  BY <1>1, <1>2 DEF RequestRecords, Handling
<1> HIDE DEF r
<1>5. req'[q] = r /\ \A p \in Slots \ {q} : req'[p] = req[p]
  BY <1>1, <1>3, OthersStay
<1>6. SentOK'
  <2>1. CallbackOK(q)'
    BY <1>1, <1>2, <1>4, <1>5 DEF CallbackOK, Handling, SentOK
  <2>2. \A p \in Slots : CallbackOK(p)'
    BY <1>1, <1>2, <1>5, <2>1, OthersCallbackOK DEF SentOK
  <2> QED
    BY <1>1, <1>2, <2>2, SentOKStays DEF SentOK
<1>7. \A p \in Slots : (p \in Waiting' <=> p \in Waiting) /\ (HasKey(p) <=> HasKey(p)')
  <2>1. (q \in Waiting' <=> q \in Waiting) /\ (HasKey(q) <=> HasKey(q)')
    BY <1>2, <1>4, <1>5 DEF Waiting, Handled, HasKey, Newest, Handling
  <2>2. \A p \in Slots \ {q} : (p \in Waiting' <=> p \in Waiting) /\ (HasKey(p) <=> HasKey(p)')
    BY <1>2, <1>5 DEF Waiting, Handled, HasKey, Newest
  <2> QED
    BY <2>1, <2>2
<1>8. Waiting' = Waiting /\ (OneIsServed => OneIsServed')
  <2>1. Waiting' = Waiting
    BY <1>7 DEF Waiting
  <2> QED
    BY <1>2, <1>7, <2>1 DEF OneIsServed, Newest, Waiting
<1>9. Undisturbed => Undisturbed'
  <2>1. Busy(q) /\ Busy(q)'
    BY <1>2, <1>4, <1>5 DEF Busy, Handling
  <2>2. WillFit(q) => WillFit(q)'
    BY <1>2, <1>4, <1>5 DEF WillFit, Handling, Newest
  <2> QED
    BY <1>5, <2>1, <2>2, StaysUndisturbed
<1>10. Cardinality(Waiting') + Spoiled' + 0 + Served <= Cardinality(Waiting) + Spoiled + 0 + Served'
  BY <1>8, <1>9, Bits, WaitingCards
<1>11. tally'.failed = tally.failed + 0
       /\ tally'.disturbed + used'.faults = tally.disturbed + used.faults + 0
  BY <1>1, <1>2 DEF OtherTypes, SentOK
<1> QED
  BY <1>6, <1>10, <1>11, Settled
-----------------------------------------------------------------------------
\* The end of a callback: what FailCallback, ExchangeLost and FinishCallback do
\* to the request.
LEMMA EndedCallback ==
  ASSUME IInv, NEW q \in Slots, req[q].kind = "callback", NEW sealed,
         req' = [req EXCEPT ![q] = [req[q] EXCEPT !.pc = "answered", !.saves = TRUE,
                                                  !.set = <<>>, !.sealed = sealed]]
  PROVE  \E r : /\ req' = [req EXCEPT ![q] = r]
                /\ r.kind = "callback" /\ r.pc = "answered" /\ r.code = req[q].code
                /\ r.saves /\ r.set = <<>>
<1> DEFINE r == [req[q] EXCEPT !.pc = "answered", !.saves = TRUE, !.set = <<>>,
                               !.sealed = sealed]
<1>1. req[q] \in RequestRecords
  BY DEF IInv
<1>2. /\ r.kind = "callback" /\ r.pc = "answered" /\ r.code = req[q].code
      /\ r.saves /\ r.set = <<>>
  BY <1>1 DEF RequestRecords
<1>3. req' = [req EXCEPT ![q] = r]
  OBVIOUS
<1> HIDE DEF r
<1> QED
  BY <1>2, <1>3

LEMMA AnsweredCallback ==
  ASSUME IInv, NEW q \in Slots, req[q].kind = "callback", Respond(q, TRUE, <<>>)
  PROVE  \E r : /\ req' = [req EXCEPT ![q] = r]
                /\ r.kind = "callback" /\ r.pc = "answered" /\ r.code = req[q].code
                /\ r.saves /\ r.set = <<>>
<1> DEFINE r == [req[q] EXCEPT !.pc = "answered", !.saves = TRUE, !.set = <<>>]
<1>1. req[q] \in RequestRecords /\ req \in [Slots -> RequestRecords]
  BY DEF IInv
<1>2. /\ r.kind = "callback" /\ r.pc = "answered" /\ r.code = req[q].code
      /\ r.saves /\ r.set = <<>>
  BY <1>1 DEF RequestRecords
<1>3. req' = [req EXCEPT ![q] = r]
  BY <1>1 DEF Respond
<1> HIDE DEF r
<1> QED
  BY <1>2, <1>3

\* A callback that ends takes its failure from those that wait.
LEMMA Balance ==
  ASSUME NEW a \in Nat, NEW fault \in Nat,
         Cardinality(Waiting') + a <= Cardinality(Waiting),
         Undisturbed => Undisturbed', OneIsServed => (OneIsServed' \/ fault = 1)
  PROVE  Cardinality(Waiting') + Spoiled' + a + Served
           <= Cardinality(Waiting) + Spoiled + fault + Served'
<1>1. PICK w \in Nat, u \in Nat, s \in Nat :
        w = Cardinality(Waiting') /\ u = Spoiled' /\ s = Served'
  BY Bits, WaitingCards
<1>2. PICK v \in Nat, r \in Nat : v = Cardinality(Waiting) /\ r = Served
  BY Bits, WaitingCards
<1>3. u <= Spoiled /\ Spoiled \in Nat
  BY <1>1, Bits
<1>4. r <= s + fault
  <2>1. CASE fault = 1
    <3>1. r <= 1
      BY <1>2, Bits
    <3> QED
      BY <2>1, <3>1
  <2>2. CASE OneIsServed => OneIsServed'
    <3>1. r <= s
      BY <1>1, <1>2, <2>2, Bits
    <3> QED
      BY <3>1
  <2> QED
    BY <2>1, <2>2
<1>5. w + a <= v
  BY <1>1, <1>2
<1>6. w + u + a + r <= v + Spoiled + fault + s
  BY <1>3, <1>4, <1>5
<1> QED
  BY <1>1, <1>2, <1>6

\* A callback that fails waits no more.  It need not be paid for when another
\* is served or it was not to be served itself, or when a fault pays.
LEMMA FailCallbackPays ==
  ASSUME DebtInv, IInv', NEW q \in Slots, Handled(q),
         NEW r, req' = [req EXCEPT ![q] = r],
         r.kind = "callback", r.pc = "answered", r.code = req[q].code, r.saves, r.set = <<>>,
         UNCHANGED <<jar, flows, sent>>, NEW fault \in Nat,
         used' \in [callbacks : Nat, faults : Nat], used'.faults = used.faults + fault,
         redeemed' \subseteq redeemed \cup {req[q].code},
         tally'.failed = IF req[q].code = Newest THEN tally.failed + 1 ELSE tally.failed,
         tally'.disturbed = tally.disturbed,
         \/ fault = 1
         \/ redeemed' = redeemed /\ (HasKey(q) => req[q].code \in redeemed)
  PROVE  SentOK' /\ Debt'
<1> DEFINE a == IF req[q].code = Newest THEN 1 ELSE 0
<1>1. IInv /\ SentOK /\ Debt /\ OtherTypes /\ req[q].kind = "callback"
  BY DEF DebtInv, IInv, Handled
<1>2. /\ Waiting' \subseteq Waiting \ {q}
      /\ req[q].code = Newest <=> q \in Waiting
      /\ \A p \in Waiting \ {q} : p \in Waiting' /\ (HasKey(p) => HasKey(p)')
      /\ Undisturbed => Undisturbed'
      /\ \A p \in Slots : CallbackOK(p)'
  BY <1>1, CallbackEnds
<1>3. req[q].code \in sent.back
  BY <1>1 DEF SentOK, CallbackOK
<1>4. SentOK'
  BY <1>1, <1>2, <1>3 DEF SentOK, Flow
<1>5. OneIsServed => (OneIsServed' \/ fault = 1)
  <2> SUFFICES ASSUME redeemed' = redeemed, HasKey(q) => req[q].code \in redeemed, OneIsServed
               PROVE  OneIsServed'
    OBVIOUS
  <2>1. PICK p \in Waiting : HasKey(p)
    BY DEF OneIsServed
  <2>2. Newest \notin redeemed
    BY DEF OneIsServed
  <2>3. p # q
    BY <1>2, <2>1, <2>2
  <2>4. p \in Waiting' /\ HasKey(p)'
    BY <1>2, <2>1, <2>3
  <2> QED
    BY <2>2, <2>4 DEF OneIsServed, Newest
<1>6. a \in Nat /\ Cardinality(Waiting') + a <= Cardinality(Waiting)
  BY <1>2, WaitingCards
<1>7. Cardinality(Waiting') + Spoiled' + a + Served <= Cardinality(Waiting) + Spoiled + fault + Served'
  <2> HIDE DEF a
  <2> QED
    BY <1>2, <1>5, <1>6, Balance
<1>8. /\ tally'.failed = tally.failed + a
      /\ tally'.disturbed + used'.faults = tally.disturbed + used.faults + fault
  BY <1>1 DEF OtherTypes, SentOK
<1> HIDE DEF a
<1>9. Debt'
  BY <1>4, <1>6, <1>7, <1>8, Settled
<1> QED
  BY <1>4, <1>9

\* What a failed callback counts.
LEMMA FailedTally ==
  ASSUME OtherTypes, NEW q, FailCallback(q)
  PROVE  /\ tally'.failed = IF req[q].code = Newest THEN tally.failed + 1 ELSE tally.failed
         /\ tally'.disturbed = tally.disturbed
         /\ Respond(q, TRUE, <<>>) /\ UNCHANGED <<jar, flows, sent, redeemed>>
  BY DEF FailCallback, OtherTypes

LEMMA CallbackWithoutFlowPays ==
  ASSUME DebtInv, IInv', NEW q \in Slots, CallbackWithoutFlow(q)
  PROVE  SentOK' /\ Debt'
<1>1. Handled(q) /\ ~HasKey(q)
  BY DEF CallbackWithoutFlow, Handled, Handling, HasKey
<1>2. OtherTypes /\ used \in [callbacks : Nat, faults : Nat]
  BY DEF DebtInv, IInv, SentOK
<1>3. FailCallback(q) /\ used' = used
  BY DEF CallbackWithoutFlow
<1>4. used' \in [callbacks : Nat, faults : Nat] /\ used'.faults = used.faults + 0
  BY <1>2, <1>3
<1>5. /\ tally'.failed = IF req[q].code = Newest THEN tally.failed + 1 ELSE tally.failed
      /\ tally'.disturbed = tally.disturbed /\ Respond(q, TRUE, <<>>)
      /\ UNCHANGED <<jar, flows, sent>> /\ redeemed' = redeemed
  BY <1>2, <1>3, FailedTally
<1>6. PICK r : /\ req' = [req EXCEPT ![q] = r]
               /\ r.kind = "callback" /\ r.pc = "answered" /\ r.code = req[q].code
               /\ r.saves /\ r.set = <<>>
  BY <1>1, <1>5, AnsweredCallback DEF DebtInv, Handled
<1> QED
  BY <1>1, <1>4, <1>5, <1>6, FailCallbackPays

LEMMA CallbackFailsPays ==
  ASSUME DebtInv, IInv', NEW q \in Slots, CallbackFails(q)
  PROVE  SentOK' /\ Debt'
<1>1. Handled(q)
  BY DEF CallbackFails, Handled
<1>2. OtherTypes /\ used \in [callbacks : Nat, faults : Nat]
  BY DEF DebtInv, IInv, SentOK
<1>3. FailCallback(q) /\ used' = [used EXCEPT !.faults = @ + 1]
  BY DEF CallbackFails, Fault
<1>4. used' \in [callbacks : Nat, faults : Nat] /\ used'.faults = used.faults + 1
  BY <1>2, <1>3
<1>5. /\ tally'.failed = IF req[q].code = Newest THEN tally.failed + 1 ELSE tally.failed
      /\ tally'.disturbed = tally.disturbed /\ Respond(q, TRUE, <<>>)
      /\ UNCHANGED <<jar, flows, sent>> /\ redeemed' = redeemed
  BY <1>2, <1>3, FailedTally
<1>6. PICK r : /\ req' = [req EXCEPT ![q] = r]
               /\ r.kind = "callback" /\ r.pc = "answered" /\ r.code = req[q].code
               /\ r.saves /\ r.set = <<>>
  BY <1>1, <1>5, AnsweredCallback DEF DebtInv, Handled
<1> QED
  BY <1>1, <1>4, <1>5, <1>6, FailCallbackPays

LEMMA ExchangeLostPays ==
  ASSUME DebtInv, IInv', NEW q \in Slots, ExchangeLost(q)
  PROVE  SentOK' /\ Debt'
<1>1. Handled(q)
  BY DEF ExchangeLost, Handled, Handling
<1>2. OtherTypes /\ used \in [callbacks : Nat, faults : Nat]
  BY DEF DebtInv, IInv, SentOK
<1>3. /\ used' = [used EXCEPT !.faults = @ + 1]
      /\ redeemed' = redeemed \cup {req[q].code}
      /\ Respond(q, TRUE, <<>>) /\ UNCHANGED <<jar, flows, sent>>
  BY DEF ExchangeLost, Fault
<1>4. used' \in [callbacks : Nat, faults : Nat] /\ used'.faults = used.faults + 1
  BY <1>2, <1>3
<1>5. /\ tally'.failed = IF req[q].code = Newest THEN tally.failed + 1 ELSE tally.failed
      /\ tally'.disturbed = tally.disturbed
  BY <1>2 DEF ExchangeLost, OtherTypes
<1>6. PICK r : /\ req' = [req EXCEPT ![q] = r]
               /\ r.kind = "callback" /\ r.pc = "answered" /\ r.code = req[q].code
               /\ r.saves /\ r.set = <<>>
  BY <1>1, <1>3, AnsweredCallback DEF DebtInv, Handled
<1> QED
  BY <1>1, <1>3, <1>4, <1>5, <1>6, FailCallbackPays

\* A callback that is served waits no more; one that is refused had not the
\* key of the newest flow, or came after its code was redeemed.
LEMMA FinishCallbackPays ==
  ASSUME DebtInv, IInv', NEW q \in Slots, FinishCallback(q)
  PROVE  SentOK' /\ Debt'
<1> DEFINE code == req[q].code
           f == Head(req[q].flashes)
<1>1. /\ IInv /\ SentOK /\ OtherTypes /\ used \in [callbacks : Nat, faults : Nat]
      /\ Handled(q) /\ Handling(q, "callback", "exchange") /\ req[q].flashes # <<>>
  BY DEF DebtInv, IInv, SentOK, FinishCallback, Handled, Handling, RequestOK
<1>2. used' = used
  BY DEF FinishCallback
<1>3. used' \in [callbacks : Nat, faults : Nat] /\ used'.faults = used.faults + 0
  BY <1>1, <1>2
<1>4. CASE ~Redeems(code, f)
  <2>1. FailCallback(q)
    BY <1>4 DEF FinishCallback
  <2>2. HasKey(q) => code \in redeemed
    BY <1>4 DEF Redeems, HasKey
  <2>3. /\ tally'.failed = IF req[q].code = Newest THEN tally.failed + 1 ELSE tally.failed
        /\ tally'.disturbed = tally.disturbed /\ Respond(q, TRUE, <<>>)
        /\ UNCHANGED <<jar, flows, sent>> /\ redeemed' = redeemed
    BY <1>1, <2>1, FailedTally
  <2>4. PICK r : /\ req' = [req EXCEPT ![q] = r]
                 /\ r.kind = "callback" /\ r.pc = "answered" /\ r.code = req[q].code
                 /\ r.saves /\ r.set = <<>>
    BY <1>1, <2>3, AnsweredCallback DEF Handled
  <2> QED
    BY <1>1, <1>3, <2>2, <2>3, <2>4, FailCallbackPays
<1>5. CASE Redeems(code, f)
  <2>1. /\ redeemed' = redeemed \cup {code} /\ code \notin redeemed
        /\ UNCHANGED <<jar, flows, sent, tally>>
        /\ req' = [req EXCEPT ![q] = [req[q] EXCEPT !.pc = "answered", !.saves = TRUE,
                                       !.set = <<>>, !.sealed = Sealed(f, f, code)]]
    BY <1>1, <1>5 DEF FinishCallback, Redeems, IInv
  <2>2. PICK r : /\ req' = [req EXCEPT ![q] = r]
                 /\ r.kind = "callback" /\ r.pc = "answered" /\ r.code = req[q].code
                 /\ r.saves /\ r.set = <<>>
    BY <1>1, <2>1, EndedCallback DEF Handled
  <2>3. /\ Waiting' \subseteq Waiting \ {q}
        /\ code = Newest <=> q \in Waiting
        /\ \A p \in Waiting \ {q} : p \in Waiting' /\ (HasKey(p) => HasKey(p)')
        /\ Undisturbed => Undisturbed'
        /\ \A p \in Slots : CallbackOK(p)'
    BY <1>1, <2>1, <2>2, CallbackEnds
  <2>4. SentOK'
    <3>1. code \in sent.back
      BY <1>1 DEF SentOK, CallbackOK, Handled
    <3> QED
      BY <1>1, <1>2, <2>1, <2>3, <3>1 DEF SentOK, Flow
  <2>5. Cardinality(Waiting') + Spoiled' + 0 + Served
          <= Cardinality(Waiting) + Spoiled + 0 + Served'
    <3>1. CASE code = Newest
      <4>1. Cardinality(Waiting') + 1 <= Cardinality(Waiting)
        BY <2>3, <3>1, WaitingCards
      <4>2. Spoiled' <= Spoiled
        BY <2>3, Bits
      <4> QED
        BY <4>1, <4>2, Bits, WaitingCards
    <3>2. CASE code # Newest
      <4>1. OneIsServed => OneIsServed'
        BY <2>1, <2>3, <3>2 DEF OneIsServed, Newest
      <4>2. Cardinality(Waiting') <= Cardinality(Waiting)
        BY <2>3, WaitingCards
      <4>3. Spoiled' <= Spoiled /\ Served <= Served'
        BY <2>3, <4>1, Bits
      <4> QED
        BY <4>2, <4>3, Bits, WaitingCards
    <3> QED
      BY <3>1, <3>2
  <2>6. tally'.failed = tally.failed + 0
        /\ tally'.disturbed + used'.faults = tally.disturbed + used.faults + 0
    BY <1>1, <1>2, <2>1 DEF OtherTypes
  <2> QED
    BY <2>4, <2>5, <2>6, Settled
<1> QED
  BY <1>4, <1>5

\* The app's steps and stuttering are nothing to the cookie.
LEMMA AppPays ==
  ASSUME DebtInv, IInv', UNCHANGED <<jar, req, flows, sent, redeemed, used, tally>>
  PROVE  SentOK' /\ Debt'
<1>1. SentOK'
  BY DEF DebtInv, SentOK, CallbackOK, Handling, Flow
<1>2. Waiting' = Waiting
  BY DEF Waiting, Handled, Newest
<1>3. Undisturbed => Undisturbed'
  BY DEF Undisturbed, Alone, Busy, WillFit, JarFits, Handling, Newest
<1>4. OneIsServed => OneIsServed'
  BY <1>2 DEF OneIsServed, HasKey, Newest
<1>5. Cardinality(Waiting') + Spoiled' + 0 + Served <= Cardinality(Waiting) + Spoiled + 0 + Served'
  BY <1>2, <1>3, <1>4, Bits, WaitingCards
<1>6. tally'.failed = tally.failed + 0
      /\ tally'.disturbed + used'.faults = tally.disturbed + used.faults + 0
  BY DEF DebtInv, IInv, OtherTypes, SentOK
<1> QED
  BY <1>1, <1>5, <1>6, Settled

LEMMA DebtInitially ==
  ASSUME Init
  PROVE  SentOK /\ Debt
<1>1. \A q \in Slots : req[q] = Idle
  BY DEF Init
<1>2. Idle.kind = "none" /\ Idle.pc = "idle"
  BY DEF Idle
<1>3. SentOK
  <2>1. \A q \in Slots : CallbackOK(q)
    BY <1>1, <1>2 DEF CallbackOK, Handling
  <2> QED
    BY <2>1 DEF SentOK, Init
<1>4. Waiting = {}
  BY <1>1, <1>2 DEF Waiting, Handled
<1>5. Undisturbed
  <2>1. JarFits
    BY DEF JarFits, Init
  <2> QED
    BY <1>1, <1>2, <2>1 DEF Undisturbed, Busy
<1>6. Cardinality(Waiting) = 0
  BY <1>4, FS_EmptySet
<1>7. tally.failed = 0 /\ tally.disturbed = 0 /\ used.faults = 0
  BY DEF Init
<1>8. Debt
  BY <1>5, <1>6, <1>7, Bits DEF Debt
<1> QED
  BY <1>3, <1>8

LEMMA DebtStep ==
  ASSUME DebtInv, [Next]_vars
  PROVE  DebtInv'
<1>1. IInv'
  BY StepOK DEF DebtInv
<1>2. SentOK' /\ Debt'
  <2>1. ASSUME HandleToken \/ PutRecord \/ UNCHANGED vars
        PROVE  SentOK' /\ Debt'
    <3>1. UNCHANGED <<jar, req, flows, sent, redeemed, used, tally>>
      BY <2>1 DEF HandleToken, PutRecord, vars
    <3> QED
      BY <1>1, <3>1, AppPays
  <2> QED
    BY <1>1, <2>1, SendAuthorizePays, SendCallbackPays, DeliverPays, LosePays,
       AuthorizeFailsPays, HandleAuthorizePays, CallbackWithoutFlowPays, RecreateRequestPays,
       CallbackFailsPays, ExchangeLostPays, FinishCallbackPays DEF Next
<1> QED
  BY <1>1, <1>2 DEF DebtInv

\* What is still to fail is paid for, in every reachable state.
THEOREM DebtInvariance == Spec => []DebtInv
<1>1. Init => DebtInv
  BY InitOK, DebtInitially DEF DebtInv
<1>2. DebtInv /\ [Next]_vars => DebtInv'
  BY DebtStep
<1> QED
  BY <1>1, <1>2, PTL DEF Spec

\* However requests cross and whatever fails, the callback of the newest flow
\* fails at most once for each flow left behind, page loaded again, request sent
\* while another was under way, and fault.
THEOREM FailuresPaid == Spec => []FailuresArePaidFor
<1>1. DebtInv => FailuresArePaidFor
  <2> SUFFICES ASSUME DebtInv
               PROVE  tally.failed <= tally.disturbed + used.faults
    BY DEF FailuresArePaidFor
  <2>1. tally.failed \in Nat /\ tally.disturbed \in Nat /\ used.faults \in Nat
    BY DEF DebtInv, IInv, OtherTypes, SentOK
  <2>2. Served <= Cardinality(Waiting) /\ Cardinality(Waiting) \in Nat
    BY WaitingCards
  <2>3. tally.failed + Cardinality(Waiting) + Spoiled <= tally.disturbed + used.faults + Served
    BY DEF DebtInv, Debt
  <2> QED
    BY <2>1, <2>2, <2>3, Bits
<1> QED
  BY <1>1, DebtInvariance, PTL

-----------------------------------------------------------------------------

\* A used session was asked for and is not live; a late request is over.
Used ==
  /\ store \cap spent = {}
  /\ \A sid \in spent : asked[sid] # None
  /\ \A r \in Requests : answers[r].late => answers[r].pc = "done"
  /\ \A r \in Requests : answers[r].token # None => answers[r].pc = "done" /\ answers[r].sid \in SessionIds
                                                  /\ asked[answers[r].sid] # None

BffInv == BffTypeOK /\ Used /\ NoTokenFromSpent /\ TokensAreEarned

LEMMA BffInitially == BffInit => BffInv
  BY NoneAssumption DEF BffInit, BffInv, BffTypeOK, Used, NoTokenFromSpent, TokensAreEarned, Fresh, Request

LEMMA StepHandleChallenge == BffInv /\ HandleChallenge => BffInv'
<1> SUFFICES ASSUME BffInv, NEW sid \in SessionIds, NEW a \in Ask, asked[sid] = None,
                    asked' = [asked EXCEPT ![sid] = a], store' = store \cup {sid},
                    UNCHANGED <<answers, spent>>
             PROVE  BffInv'
  BY DEF HandleChallenge
<1>0. a # None
  BY NoneAssumption
<1>1. BffTypeOK'
  BY <1>0 DEF BffInv, BffTypeOK
<1>2. Used'
  BY <1>0 DEF BffInv, BffTypeOK, Used
<1>3. NoTokenFromSpent' /\ TokensAreEarned'
  BY DEF BffInv, BffTypeOK, Used, NoTokenFromSpent, TokensAreEarned
<1> QED
  BY <1>1, <1>2, <1>3 DEF BffInv

LEMMA StepBegin == ASSUME NEW r \in Requests, BffInv, Begin(r) PROVE BffInv'
<1> PICK sid \in SessionIds, p \in Proof :
      /\ answers[r].pc = "idle"
      /\ answers' = [answers EXCEPT ![r] = [pc |-> IF sid \in store THEN "read" ELSE "done",
                   sid |-> sid, proof |-> p, token |-> None, late |-> sid \in spent]]
      /\ UNCHANGED <<store, asked, spent>>
  BY DEF Begin
<1> DEFINE new == [pc |-> IF sid \in store THEN "read" ELSE "done",
                   sid |-> sid, proof |-> p, token |-> None, late |-> sid \in spent]
<1>1. new \in Request
  BY DEF Request
<1>2. answers'[r] = new /\ \A q \in Requests \ {r} : answers'[q] = answers[q]
  BY DEF BffInv, BffTypeOK
<1>3. sid \in store => asked[sid] # None
  BY DEF BffInv, BffTypeOK
<1>4. answers' \in [Requests -> Request]
  BY <1>1 DEF BffInv, BffTypeOK
<1>5. BffTypeOK'
  BY <1>2, <1>3, <1>4 DEF BffInv, BffTypeOK
<1>6. sid \in spent => sid \notin store
  BY DEF BffInv, Used
<1>7. Used'
  <2>0. /\ new.token = None /\ new.late = (sid \in spent)
        /\ new.pc = (IF sid \in store THEN "read" ELSE "done")
    OBVIOUS
  <2>1. /\ answers'[r].token = None
        /\ answers'[r].late => answers'[r].pc = "done"
    <3> HIDE DEF new
    <3> QED BY <1>2, <1>6, <2>0
  <2>2. /\ \A q \in Requests : answers'[q].late => answers'[q].pc = "done"
        /\ \A q \in Requests : answers'[q].token # None =>
             answers'[q].pc = "done" /\ answers'[q].sid \in SessionIds /\ asked[answers'[q].sid] # None
    BY <1>2, <2>1 DEF BffInv, Used
  <2> QED
    BY <2>2 DEF BffInv, Used
<1>8. NoTokenFromSpent' /\ TokensAreEarned'
  BY <1>2 DEF BffInv, NoTokenFromSpent, TokensAreEarned
<1> QED
  BY <1>5, <1>7, <1>8 DEF BffInv

LEMMA StepDelete == ASSUME NEW r \in Requests, BffInv, Delete(r) PROVE BffInv'
<1> DEFINE sid == answers[r].sid
<1>1. sid \in SessionIds /\ asked[sid] # None /\ answers[r] \in Request
  BY DEF Delete, BffInv, BffTypeOK
<1>2. /\ answers'[r] = [answers[r] EXCEPT !.pc = "deleted"]
      /\ \A q \in Requests \ {r} : answers'[q] = answers[q]
      /\ answers' \in [Requests -> Request]
  BY <1>1 DEF Delete, BffInv, BffTypeOK, Request
<1>3. /\ answers'[r].pc = "deleted" /\ answers'[r].sid = sid /\ answers'[r].proof = answers[r].proof
      /\ answers'[r].token = answers[r].token /\ answers'[r].late = answers[r].late
  BY <1>1, <1>2 DEF Request
<1>4. answers[r].token = None /\ ~answers[r].late
  BY <1>1 DEF Delete, BffInv, Used, Request
<1>5. BffTypeOK'
  BY <1>1, <1>2, <1>3 DEF Delete, BffInv, BffTypeOK
<1>6. Used'
  BY <1>1, <1>2, <1>3, <1>4 DEF Delete, BffInv, Used
<1>7. NoTokenFromSpent' /\ TokensAreEarned'
  BY <1>2, <1>3, <1>4 DEF Delete, BffInv, NoTokenFromSpent, TokensAreEarned
<1> QED
  BY <1>5, <1>6, <1>7 DEF BffInv

LEMMA StepFinish == ASSUME NEW r \in Requests, BffInv, Finish(r) PROVE BffInv'
<1> DEFINE sid == answers[r].sid
           tok == IF Verifies(r) THEN asked[sid].did ELSE None
<1>1. /\ sid \in SessionIds /\ asked[sid] \in Ask /\ answers[r].proof \in Proof
      /\ answers[r] \in Request /\ asked[sid] # None
  BY DEF Finish, BffInv, BffTypeOK
<1>2. tok \in Dids \cup {None}
  BY <1>1 DEF Ask
<1>3. /\ answers'[r] = [answers[r] EXCEPT !.pc = "done", !.token = tok]
      /\ \A q \in Requests \ {r} : answers'[q] = answers[q]
      /\ answers' \in [Requests -> Request]
  BY <1>1, <1>2 DEF Finish, BffInv, BffTypeOK, Request
<1>4. /\ answers'[r].pc = "done" /\ answers'[r].sid = sid /\ answers'[r].proof = answers[r].proof
      /\ answers'[r].token = tok /\ answers'[r].late = answers[r].late
  BY <1>1, <1>3 DEF Request
<1>5. ~answers[r].late
  BY DEF Finish, BffInv, Used
<1>6. BffTypeOK'
  BY <1>3, <1>4 DEF Finish, BffInv, BffTypeOK
<1>7. Used'
  BY <1>1, <1>3, <1>4 DEF Finish, BffInv, Used
<1>8. NoTokenFromSpent'
  BY <1>3, <1>4, <1>5 DEF BffInv, NoTokenFromSpent
<1>9. tok # None => answers[r].proof = [challenge |-> sid, key |-> asked[sid].key]
  BY <1>1 DEF Verifies, Proof
<1>10. TokensAreEarned'
  BY <1>1, <1>3, <1>4, <1>9 DEF Finish, BffInv, TokensAreEarned
<1> QED
  BY <1>6, <1>7, <1>8, <1>10 DEF BffInv

LEMMA StepRestart == BffInv /\ Restart => BffInv'
<1> SUFFICES ASSUME BffInv, Restart PROVE BffInv'
  OBVIOUS
<1>1. \A q \in Requests :
        /\ answers[q] \in Request /\ answers'[q] \in Request
        /\ answers'[q].pc \in {"idle", "done"} /\ (answers[q].pc = "done" => answers'[q].pc = "done")
        /\ answers'[q].sid = answers[q].sid /\ answers'[q].proof = answers[q].proof
        /\ answers'[q].token = answers[q].token /\ answers'[q].late = answers[q].late
  BY DEF Restart, BffInv, BffTypeOK, Request
<1>2. answers' \in [Requests -> Request]
  BY <1>1 DEF Restart
<1>3. BffTypeOK'
  BY <1>1, <1>2 DEF Restart, BffInv, BffTypeOK
<1>4. Used'
  BY <1>1 DEF Restart, BffInv, BffTypeOK, Used
<1>5. NoTokenFromSpent' /\ TokensAreEarned'
  BY <1>1 DEF Restart, BffInv, NoTokenFromSpent, TokensAreEarned
<1> QED
  BY <1>3, <1>4, <1>5 DEF BffInv

LEMMA BffStutter == BffInv /\ UNCHANGED bffVars => BffInv'
  BY DEF bffVars, BffInv, BffTypeOK, Used, NoTokenFromSpent, TokensAreEarned

\* The strengthened invariant is inductive.
THEOREM BffInvariance == BffSpec => []BffInv
<1>1. BffInv /\ [BffNext]_bffVars => BffInv'
  BY StepHandleChallenge, StepBegin, StepDelete, StepFinish, StepRestart, BffStutter DEF BffNext
<1> QED
  BY BffInitially, <1>1, PTL DEF BffSpec

\* The variables keep their types, and a session that is live or being
\* answered was asked for.
THEOREM BffTypeCorrect == BffSpec => []BffTypeOK
<1>1. BffInv => BffTypeOK
  BY DEF BffInv
<1> QED
  BY BffInvariance, <1>1, PTL

\* A request that begins after its session was used gets no token.
THEOREM SessionsDoNotComeBack == BffSpec => []NoTokenFromSpent
<1>1. BffInv => NoTokenFromSpent
  BY DEF BffInv
<1> QED
  BY BffInvariance, <1>1, PTL

\* A token names the DID its challenge was issued for, to a request whose
\* proof was made with the key given for that DID.
THEOREM TokensFollowChallenges == BffSpec => []TokensAreEarned
<1>1. BffInv => TokensAreEarned
  BY DEF BffInv
<1> QED
  BY BffInvariance, <1>1, PTL
=============================================================================
