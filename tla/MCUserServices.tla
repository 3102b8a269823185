----------------------------- MODULE MCUserServices -----------------------------
(***************************************************************************)
(* Instances of UserServices.                                              *)
(***************************************************************************)
EXTENDS UserServices, TLC

\* Two requests are alike.
RequestSymmetry == Permutations(Clients)

\* Returns on both sides of the threshold, which a cfg cannot write.
MCReturns == {-8, -7}

=============================================================================
