-------------------------- MODULE MCAccessControl --------------------------
(***************************************************************************)
(* Instances of AccessControl for TLC.                                     *)
(***************************************************************************)
EXTENDS AccessControl, TLC

Symmetry == Permutations(Seeder) \cup Permutations(Request)
=============================================================================
