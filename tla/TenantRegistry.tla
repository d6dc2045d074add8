--------------------------- MODULE TenantRegistry ---------------------------
(***************************************************************************)
(* What the tenants controller promises (tenant/tenant.controller.ts) to   *)
(* administrators who wait for one answer before the next request.  A slug *)
(* is free, or served by a completely provisioned tenant, or stuck: what   *)
(* failures and restarts may leave behind, a row without a usable schema   *)
(* or a schema without a row.                                              *)
(***************************************************************************)
CONSTANTS
    Request,   \* requests; a tenant's id is the request that created it
    Slug,
    None

VARIABLES
    phase,     \* free, served or stuck, for each slug
    owner,     \* the id of the registered tenant of each slug
    input,     \* operation, slug or id of each request
    answer     \* state of each request

vars == <<phase, owner, input, answer>>

Init ==
    /\ phase = [g \in Slug |-> "free"]
    /\ owner = [g \in Slug |-> None]
    /\ answer = [r \in Request |-> "none"]

Answer(r, from, to) ==
    /\ answer[r] = from
    /\ answer' = [answer EXCEPT ![r] = to]
    /\ UNCHANGED input

Become(g, p, o) ==
    /\ phase' = [phase EXCEPT ![g] = p]
    /\ owner' = [owner EXCEPT ![g] = o]

Arrive(r) == Answer(r, "none", "pending") /\ UNCHANGED <<phase, owner>>

\* A tenant is created on a free slug and is served when it is answered for.
Create(r) ==
    /\ input[r].op = "create"
    /\ phase[input[r].slug] = "free"
    /\ Answer(r, "pending", "ok")
    /\ Become(input[r].slug, "served", r)

Conflict(r) ==
    /\ input[r].op = "create"
    /\ phase[input[r].slug] # "free"
    /\ Answer(r, "pending", "conflict")
    /\ UNCHANGED <<phase, owner>>

\* A creation that fails may have used up its slug, with or without a row, or
\* have got as far as a tenant that is served; all this if the slug was free,
\* and to no other slug.
FailToCreate(r) ==
    /\ input[r].op = "create"
    /\ Answer(r, "pending", "failed")
    /\ \/ UNCHANGED <<phase, owner>>
       \/ /\ phase[input[r].slug] = "free"
          /\ \/ \E o \in {r, None} : Become(input[r].slug, "stuck", o)
             \/ Become(input[r].slug, "served", r)

\* Update, and deactivation, of a registered tenant.
Manage(r) ==
    /\ input[r].op \in {"update", "remove"}
    /\ \E g \in Slug : owner[g] = input[r].id
    /\ Answer(r, "pending", "ok")
    /\ UNCHANGED <<phase, owner>>

NotFound(r) ==
    /\ input[r].op # "create"
    /\ \A g \in Slug : owner[g] # input[r].id
    /\ Answer(r, "pending", "notFound")
    /\ UNCHANGED <<phase, owner>>

\* A hard delete first withdraws the tenant and then frees its slug.
Withdraw(r) ==
    /\ input[r].op = "hardDelete" /\ answer[r] = "pending"
    /\ \E g \in Slug : owner[g] = input[r].id /\ Become(g, "stuck", owner[g])
    /\ UNCHANGED <<input, answer>>

Delete(r) ==
    /\ input[r].op = "hardDelete"
    /\ Answer(r, "pending", "ok")
    /\ \E g \in Slug : /\ owner[g] = input[r].id
                       /\ phase[g] = "stuck"
                       /\ Become(g, "free", None)

\* Any other request that fails changes nothing, or frees the slug of a tenant
\* that it has withdrawn and was to delete.
FailToManage(r) ==
    /\ input[r].op # "create"
    /\ Answer(r, "pending", "failed")
    /\ \/ UNCHANGED <<phase, owner>>
       \/ /\ input[r].op = "hardDelete"
          /\ \E g \in Slug : /\ owner[g] = input[r].id
                             /\ phase[g] = "stuck"
                             /\ Become(g, "free", None)

Next == \E r \in Request :
    \/ Arrive(r) \/ Create(r) \/ Conflict(r) \/ FailToCreate(r)
    \/ Manage(r) \/ NotFound(r)
    \/ Withdraw(r) \/ Delete(r) \/ FailToManage(r)

Spec == Init /\ [][Next]_vars
=============================================================================
