---------------------------- MODULE MCHabitatDB ----------------------------
(***************************************************************************)
(* Two goroutines propose five transitions to the database: a user, an     *)
(* installation by that user and its removal, one that is valid but not by *)
(* the schema, and a downgrade.                                            *)
(***************************************************************************)
EXTENDS HabitatDB, TLC

CONSTANTS u1, n1, a1, p1, i1, r1, m1

MCInitialStates == {InitialState(NoEntries, NoEntries, NoEntries)}

Install(driver) == StartInstallation(
  a1, [user |-> u1, pkg |-> p1, driver |-> driver], TRUE, NoEntries)

MCRequests ==
  {AddUser(u1, [name |-> n1, did |-> TRUE]), Install("docker"), Install("noop"),
   Uninstall(a1), Migration(4)}
=============================================================================
