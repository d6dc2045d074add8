-------------------------- MODULE MCUserDirectory --------------------------
(***************************************************************************)
(* Instances of UserDirectory for TLC: two tenants with an administrator   *)
(* each, two email addresses.                                              *)
(***************************************************************************)
EXTENDS UserDirectory, TLC

MCTenant == {"a", "b"}
MCResident == [a |-> {"adminA"}, b |-> {"adminB"}]

\* Creations of either email in both tenants, a registration, and everything
\* that may be asked about a user, through the tenant of its creator or not.
MCInput ==
    [op : {"create"}, tenant : MCTenant, email : Email]
    \cup [op : {"register"}, tenant : {"a"}, email : Email]
    \cup [op : {"findOne", "remove"}, tenant : {"b"}, id : Request]
    \cup [op : {"update"}, tenant : {"a"}, id : Request, email : {"e1", None}]
    \cup [op : {"findAll"}, tenant : {"a"}]

Symmetry == Permutations(Request)
=============================================================================
