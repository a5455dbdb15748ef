----------------------------- MODULE MCServing -----------------------------
(* What an app's page is served from, for TLC: WebBundles, which puts the    *)
(* files of a bundle into its directory, and ReverseProxy, which finds the   *)
(* rule for a request.  The proxy opens a directory by its name and reads    *)
(* what is there, and the two share no state, so a run of the model is of    *)
(* the one or of the other.                                                  *)
EXTENDS WebBundles, ReverseProxy, TLC

CONSTANTS short, long, index, script
VARIABLE part

-----------------------------------------------------------------------------
(* Two archives that share a file: the second one's is longer.               *)
MCBundle == short :> <<[name |-> index, length |-> 1]>>
         @@ long :> <<[name |-> index, length |-> 2], [name |-> script, length |-> 1]>>

MCSegment == {"", "habitat", "api", "x"}
R(m, t, d) == [matcher |-> m, type |-> t, target |-> d]

(* The root rule of production, which no handler serves, two nested ones, one *)
(* that ends in a slash, two with the same matcher, one with a directory that *)
(* is missing and one of an unknown type.                                    *)
NestedRules == {R(<<"">>, "embedded_frontend", ""),
                R(<<"", "habitat">>, "file", "bundle"),
                R(<<"", "habitat", "">>, "file", "bundle"),
                R(<<"", "habitat", "api">>, "redirect", "api"),
                R(<<"", "habitat", "api">>, "file", "nowhere"),
                R(<<"", "">>, "other", "x")}
NestedPaths == {<<"", "habitat", "api", "x">>, <<"", "habitat">>, <<"", "">>}

-----------------------------------------------------------------------------
MCInit == part \in {"bundles", "proxy"} /\ BundleInit /\ Init

MCNext ==
  /\ UNCHANGED part
  /\ \/ part = "bundles" /\ BundleNext /\ UNCHANGED vars
     \/ part = "proxy" /\ Next /\ UNCHANGED bundleVars

MCSpec == MCInit /\ [][MCNext]_<<part, vars, bundleVars>>

Symmetry == Permutations(Calls) \cup Permutations(RuleId) \cup Permutations(Request)
============================================================================
