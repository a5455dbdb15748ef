---------------------------- MODULE ReverseProxy ----------------------------
(***************************************************************************)
(* The node's reverse proxy (internal/node/reverse_proxy): a map of rules  *)
(* that handlers add to and remove from, and requests that go through the  *)
(* map, in no particular order and without a lock, for the rule to be      *)
(* served by.                                                              *)
(*                                                                         *)
(* A path and a matcher are the sequences of what is between their         *)
(* slashes: "/a/b" is <<"", "a", "b">>, "/a/" is <<"", "a", "">> and the   *)
(* root matcher "" is <<"">>.                                              *)
(***************************************************************************)
EXTENDS Naturals, Sequences

CONSTANTS
  RuleId,    \* keys of the map
  Rule,      \* the rules that may be added: matcher, type, target
  Path,      \* request paths
  Segment,   \* what is between two slashes
  Missing,   \* the targets that name no directory
  Request,   \* requests at work at the same time
  NoRule,
  Changes    \* how often the map is changed (bound)

ASSUME ProxyAssumption ==
  /\ Path \subseteq Seq(Segment)
  /\ \A r \in Rule : r.matcher \in Seq(Segment)
  /\ NoRule \notin Rule
  /\ Changes \in Nat

VARIABLES
  rules,     \* RuleSet.rules
  req,       \* [Request -> the request: where it is, and its local variables]
  changed    \* how often the map was changed

vars == <<rules, req, changed>>

(* The fields of a request: its path, the keys the iteration has yet to    *)
(* reach, bestMatch, the answer; and, for the properties, the entries that *)
(* were in the map since it began and the rules that were in it some time. *)
Idle == [pc |-> "idle", path |-> <<>>, left |-> {}, best |-> NoRule,
         answer |-> "none", stable |-> {}, seen |-> {}]

Present == {id \in RuleId : rules[id] # NoRule}

Init ==
  /\ rules = [id \in RuleId |-> NoRule]
  /\ req = [x \in Request |-> Idle]
  /\ changed = 0

-----------------------------------------------------------------------------
Supported == {"redirect", "file", "embedded_frontend"}

(* What a change of the map means for the requests that are going through  *)
(* it: they may yet reach a new entry, and no longer reach a removed one.  *)
Change(id, rule) ==
  /\ changed < Changes
  /\ changed' = changed + 1
  /\ rules' = [rules EXCEPT ![id] = rule]
  /\ req' = [x \in Request |->
               IF req[x].pc = "search"
               THEN [req[x] EXCEPT !.seen = @ \cup ({rule} \ {NoRule}),
                                   !.stable = {e \in @ : e[1] # id}]
               ELSE req[x]]

(* RuleSet.AddRule; a rule whose ID is taken, or of another type, is       *)
(* refused and changes nothing.                                            *)
AddRule(id, rule) ==
  /\ rules[id] = NoRule
  /\ rule.type \in Supported
  /\ Change(id, rule)

(* RuleSet.Remove; a rule that does not exist is refused.                  *)
Remove(id) ==
  /\ rules[id] # NoRule
  /\ Change(id, NoRule)

-----------------------------------------------------------------------------
(* matchRule: the matcher is a prefix of the path and the path ends there  *)
(* or goes on with a slash.                                                *)
Matches(matcher, path) ==
  /\ Len(matcher) <= Len(path)
  /\ \A i \in 1..Len(matcher) : matcher[i] = path[i]

(* rankMatch: the slashes in the matcher.                                  *)
Rank(rule) == Len(rule.matcher) - 1

(* ServeHTTP begins to go through the map.                                 *)
Begin(x) ==
  \E p \in Path :
    /\ req[x].pc = "idle"
    /\ req' = [req EXCEPT ![x] =
         [Idle EXCEPT !.pc = "search", !.path = p, !.left = RuleId,
            !.stable = {<<id, rules[id]>> : id \in Present},
            !.seen = {rules[id] : id \in Present}]]
    /\ UNCHANGED <<rules, changed>>

(* Mutant: the first rule that matches is taken. *)
Better_First(rule, r) == Matches(rule.matcher, r.path) /\ r.best = NoRule

(* Whether a rule takes the place of the best one so far.                  *)
Better(rule, r) ==
  /\ Matches(rule.matcher, r.path)
  /\ r.best = NoRule \/ Rank(rule) > Rank(r.best)

(* The iteration reaches an entry.                                         *)
Visit(x) ==
  \E id \in req[x].left :
    /\ req[x].pc = "search"
    /\ rules[id] # NoRule
    /\ req' = [req EXCEPT ![x].left = @ \ {id},
                          ![x].best = IF Better(rules[id], req[x]) THEN rules[id] ELSE @]
    /\ UNCHANGED <<rules, changed>>

(* getHandlerFromRule and the handler.  It knows no embedded_frontend; the *)
(* error is written before the status, which therefore is 200.             *)
Outcome(best) ==
  IF best = NoRule THEN "404"
  ELSE CASE best.type = "redirect" -> "forwarded"
         [] best.type = "file" -> IF best.target \in Missing THEN "500" ELSE "served"
         [] OTHER -> "200 with an error"

(* The iteration is over when it has reached every entry that was there    *)
(* all along; of those that came or went meanwhile it reached some.        *)
Serve(x) ==
  /\ req[x].pc = "search"
  /\ \A e \in req[x].stable : e[1] \notin req[x].left
  /\ req' = [req EXCEPT ![x].pc = "done", ![x].answer = Outcome(req[x].best)]
  /\ UNCHANGED <<rules, changed>>

Return(x) ==
  /\ req[x].pc = "done"
  /\ req' = [req EXCEPT ![x] = Idle]
  /\ UNCHANGED <<rules, changed>>

Next ==
  \/ \E id \in RuleId, rule \in Rule : AddRule(id, rule)
  \/ \E id \in RuleId : Remove(id)
  \/ \E x \in Request : Begin(x) \/ Visit(x) \/ Serve(x) \/ Return(x)

Spec == Init /\ [][Next]_vars

-----------------------------------------------------------------------------
Search ==
  [pc : {"idle", "search", "done"}, path : Path \cup {<<>>}, left : SUBSET RuleId,
   best : Rule \cup {NoRule},
   answer : {"none", "404", "forwarded", "500", "served", "200 with an error"},
   stable : SUBSET (RuleId \X Rule), seen : SUBSET Rule]

(* Type invariant.                                                         *)
TypeOK ==
  /\ rules \in [RuleId -> Rule \cup {NoRule}]
  /\ \A id \in Present : rules[id].type \in Supported
  /\ req \in [Request -> Search]
  /\ changed \in 0..Changes

(* Whatever order the map is gone through in, and whatever is added and    *)
(* removed meanwhile, a request is served by a rule that matches its path  *)
(* and was there at some time, and no rule that was there all along        *)
(* matches more of the path: the most slashes (ServeHTTP) is the longest   *)
(* match.                                                                  *)
LongestMatchServes ==
  \A x \in Request : req[x].pc = "done" =>
    /\ req[x].best # NoRule =>
         req[x].best \in req[x].seen /\ Matches(req[x].best.matcher, req[x].path)
    /\ \A e \in req[x].stable : Matches(e[2].matcher, req[x].path) =>
         /\ req[x].best # NoRule
         /\ Len(e[2].matcher) <= Len(req[x].best.matcher)
         /\ Len(e[2].matcher) = Len(req[x].best.matcher) =>
              e[2].matcher = req[x].best.matcher

-----------------------------------------------------------------------------
(* What follows the code does not keep; TLC refutes it (README, section 4). *)

(* A request no rule serves is answered with an error status: "require.    *)
(* Equal(t, http.StatusNotFound, resp.StatusCode)" (proxy_test.go:137).    *)
UnservedIsAnError == \A x \in Request : req[x].answer # "200 with an error"

(* A rule serves what is below its path: the did-rule, whose matcher ends  *)
(* in a slash, is to "Serve a DID document for habitat" (main.go:330).     *)
(* The next line there says that it is broken by another rule; it needs    *)
(* no other rule to be.                                                    *)
ServesBelow(rule, path) ==
  LET base == SubSeq(rule.matcher, 1, Len(rule.matcher) - 1)
  IN rule.matcher[Len(rule.matcher)] = "" /\ Matches(base, path) /\ Len(path) > Len(base)

SlashRulesServe ==
  \A x \in Request : req[x].pc = "done" =>
    \A e \in req[x].stable : ServesBelow(e[2], req[x].path) =>
      req[x].best # NoRule /\ Len(req[x].best.matcher) >= Len(e[2].matcher)
=============================================================================
