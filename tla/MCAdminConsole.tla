---------------------------- MODULE MCAdminConsole ----------------------------
(***************************************************************************)
(* Instances of AdminConsole.                                              *)
(***************************************************************************)
EXTENDS AdminConsole, TLC

\* An update sets the status or the role.
MCUserChanges == {<<"active", None>>, <<"disabled", None>>,
                  <<None, "admin">>, <<None, "user">>}

ClientSymmetry == Permutations(Clients)

=============================================================================
