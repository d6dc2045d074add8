----------------------------- MODULE MCTenancy -----------------------------
(***************************************************************************)
(* An instance of Tenancy for TLC: tenants a and b are created, in either  *)
(* order, or b is created and hard deleted.                                *)
(***************************************************************************)
EXTENDS Tenancy, TLC

CONSTANTS r1, r2, d1, d2, c1, c2

MCSlug == {"a", "b"}
MCSchema == {"tenant_a", "tenant_b"}
MCSchemaOf == [a |-> "tenant_a", b |-> "tenant_b"]
MCPublic == "public"
MCRequest == {r1, r2}

Create(g) == [op |-> "create", slug |-> g, domain |-> None, email |-> "e1"]

MCInput == {Create("a"), Create("b"), [op |-> "hardDelete", id |-> r1]}

\* One client logs in to tenant b, which is the other tenant in the first case
\* and the one that is deleted in the second; the other client lists users of
\* either tenant with a token of the administrator whom r1 creates.
MCAsks ==
    d1 :> [op : {"login"}, slug : {"b"}, email : Email]
    @@ d2 :> [op : {"list"}, slug : Slug, sub : {r1}]

MCInit ==
    /\ TenancyInit
    /\ <<input[r1], input[r2]>> \in {<<Create("a"), Create("b")>>,
                                    <<Create("b"), [op |-> "hardDelete", id |-> r1]>>}

\* Bounds: one mishap in a behaviour, a fault, a restart or a stray, and in the
\* first case only a stray; and a SET is always served by c1, so that c2 serves
\* the stray.
MCNext ==
    /\ TenancyNext
    /\ faults' + crashes' + Cardinality(strayed') <= 1
    /\ input[r2].op = "create" => faults' + crashes' = 0
    /\ \A r \in Request : home'[r] # c2

MCSpec == MCInit /\ [][MCNext]_tenancyVars /\ TenancyFairness
=============================================================================
