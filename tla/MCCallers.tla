----------------------------- MODULE MCCallers -----------------------------
(* The two ways the node has to know who calls it, for TLC: OAuthServer, for *)
(* apps that act for a user, and BffAuth, for other nodes.  They share no    *)
(* state, so a behaviour of both shows nothing that a behaviour of one does  *)
(* not: a run of the model is of the one or of the other.                    *)
EXTENDS OAuthServer, BffAuth, TLC

VARIABLE caller

MCInit == caller \in {"app", "node"} /\ Init /\ BffInit

MCNext ==
  /\ UNCHANGED caller
  /\ \/ caller = "app" /\ Next /\ UNCHANGED bffVars
     \/ caller = "node" /\ BffNext /\ UNCHANGED vars

MCSpec == MCInit /\ [][MCNext]_<<caller, vars, bffVars>>

Symmetry == Permutations(Users) \cup Permutations(Slots)
============================================================================
