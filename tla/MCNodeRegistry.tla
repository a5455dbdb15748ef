--------------------------- MODULE MCNodeRegistry ---------------------------
(***************************************************************************)
(* A small node: the root user and one more, two apps, two packages, two   *)
(* process uuids, one rule.  A node may come up bare or with a default app *)
(* and its process.  Users own what they install; a rule may come with an  *)
(* installation.                                                           *)
(***************************************************************************)
EXTENDS Migrations, TLC

CONSTANTS u1, n1, a1, a2, p1, p2, i1, i2, r1, m1

DefaultApp  == a1 :> [user |-> RootUser, pkg |-> p1, driver |-> "docker",
                      state |-> "installed"]
ARule(type) == [app |-> a1, matcher |-> m1, type |-> type]

MCInitialStates ==
  {InitialState(NoEntries, NoEntries, NoEntries),
   InitialState(DefaultApp, r1 :> ARule("redirect"), a1 :> i1),
   InitialState(DefaultApp, r1 :> ARule("embedded_frontend"), a1 :> i1)}

MCRequests ==
  UNION {{Migration(v) : v \in 0..9},
         {AddUser(u, [name |-> n, did |-> d]) :
            u \in UserId, n \in Username, d \in BOOLEAN},
         {StartInstallation(a, [user |-> u, pkg |-> p, driver |-> d],
                            TRUE, rs) :
            a \in AppId, u \in UserId, p \in Package, d \in Driver,
            rs \in {NoEntries, r1 :> ARule("file")}},
         {StartInstallation(a1, [user |-> RootUser, pkg |-> p1,
                                 driver |-> "docker"], FALSE, NoEntries)},
         {FinishInstallation(a) : a \in AppId},
         {Uninstall(a) : a \in AppId},
         {ProcessStart(NewID(d, i), [app |-> a, user |-> RootUser]) :
            d \in {"docker", "web"}, i \in ProcUuid, a \in AppId},
         {ProcessStart(NewID("docker", i1), [app |-> a1, user |-> u1])},
         {ProcessStop(NewID(d, i)) : d \in {"docker", "web"}, i \in ProcUuid},
         {AddProxyRule(r1, ARule(ty)) : ty \in RuleType}}
=============================================================================
