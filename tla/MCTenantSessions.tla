-------------------------- MODULE MCTenantSessions --------------------------
(***************************************************************************)
(* Instances of TenantSessions for TLC.                                    *)
(***************************************************************************)
EXTENDS TenantSessions, TLC

\* Everything any user may ask for.
MCInput == [op : {"login", "refresh", "logout"}, user : User]

Symmetry == Permutations(Request)
=============================================================================
