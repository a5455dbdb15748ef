---------------------------- MODULE MCController ----------------------------
(***************************************************************************)
(* A node with one default app and its rule, and room for one more app.    *)
(***************************************************************************)
EXTENDS Controller, TLC

CONSTANTS u1, n1, a1, a2, p1, p2, i1, i2, i3, r1, r2, m1

MCDefaultApps  == a1 :> [user |-> RootUser, pkg |-> p1, driver |-> "docker",
                         state |-> "installed"]
ARule          == [app |-> a1, matcher |-> m1, type |-> "redirect"]
MCDefaultRules == r1 :> ARule

(* What is installed: a web app of a second user, with a rule for the      *)
(* default app, or a Docker app of the root user.  Both are to be started. *)
WebInstall    == {[user |-> u1, pkg |-> p2, driver |-> "web", config |-> TRUE,
                   rules |-> r2 :> ARule, start |-> TRUE]}
DockerInstall == {[user |-> RootUser, pkg |-> p2, driver |-> "docker",
                   config |-> TRUE, rules |-> r1 :> ARule, start |-> TRUE]}

(* An app with a rule of its own. *)
RoutedInstall == {[user |-> RootUser, pkg |-> p2, driver |-> "docker",
                   config |-> TRUE, start |-> TRUE,
                   rules |-> r2 :> [app |-> NoApp, matcher |-> m1, type |-> "file"]]}

(* Threads are interchangeable, and so are uuids. *)
Symmetry == Permutations(Thread) \cup Permutations(ProcUuid)
=============================================================================
