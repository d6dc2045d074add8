------------------------- MODULE MCTenantLifecycle -------------------------
(***************************************************************************)
(* Instances of TenantLifecycle for TLC: two slugs, two admin emails, at   *)
(* most one custom domain.                                                 *)
(***************************************************************************)
EXTENDS TenantLifecycle, TLC

MCSlug == {"a", "b"}
MCSchema == {"tenant_a", "tenant_b"}
MCSchemaOf == [a |-> "tenant_a", b |-> "tenant_b"]
MCPublic == "public"

Create(g, d, e) == [op |-> "create", slug |-> g, domain |-> d, email |-> e]
Target(ops) == [op : ops, id : Request]

\* Two creations may share slug, email or both.
MCCreations ==
    {Create("a", "x.com", "e1"), Create("a", "x.com", "e2"), Create("b", None, "e2")}

\* Creations and every operation on what they created.
MCAll ==
    MCCreations \cup Target({"remove", "hardDelete"})
    \cup [op : {"update"}, id : Request, domain : {"x.com"}, status : {"ACTIVE"}]

\* Creations and hard deletions.
MCCreateDelete ==
    {Create("a", None, "e1"), Create("b", None, "e1")}
    \cup Target({"hardDelete"})

\* Nobody asks for the tenant that this very request is to create, and at most
\* one request updates or deactivates a tenant.
MCInit ==
    /\ Init
    /\ \A r \in Request : input[r].op # "create" => input[r].id # r
    /\ Cardinality({r \in Request : input[r].op \in {"update", "remove"}}) <= 1

\* Bound: two mishaps in a behaviour, of faults, restarts and strays.
MCNext == Next /\ faults' + crashes' + Cardinality(strayed') <= 2

MCSpec == MCInit /\ [][MCNext]_vars

\* Bound of the run with overlaps: where all requests create, no creation strays.
MCOverlap ==
    /\ MCNext
    /\ strayed' # {} => \E r \in Request : input[r].op # "create"

MCOverlapSpec == MCInit /\ [][MCOverlap]_vars

Symmetry == Permutations(Request) \cup Permutations(Conn)
=============================================================================
