------------------------------ MODULE Tenancy ------------------------------
(***************************************************************************)
(* The lifecycle of tenants, requests to the tenants and the migration     *)
(* script, together on one database.  The script is another process: a     *)
(* restart of the server does not touch it.                                *)
(***************************************************************************)
EXTENDS TenantMigration, TenantRequests

tenancyVars == <<vars, scriptVars, clientVars, waiting, tokens>>

TenancyTypeOK == TypeOK /\ ScriptTypeOK /\ ClientTypeOK

TenancyInit == Init /\ ScriptInit /\ ClientInit

LifecycleStep(r) ==
    /\ LifecycleStatement(r) \/ SendDrop(r)
    /\ UNCHANGED scriptVars

\* Mutant of LifecycleEvent: a DROP that gives up waiting stays queued.
LifecycleEventQueued(r) ==
    /\ Begin(r) \/ StatementFails(r)
    /\ UNCHANGED <<waiting, scriptVars, clientVars, tokens>>

\* Arrival, and a failing statement, which may be a DROP that gives up waiting.
LifecycleEvent(r) ==
    /\ Begin(r) \/ StatementFails(r)
    /\ waiting' = waiting \ {r}
    /\ UNCHANGED <<scriptVars, clientVars, tokens>>

\* The script's CREATE TABLE waits behind a DROP as well.
ScriptStep ==
    /\ Script
    /\ script = "create" => ~DropPending(scriptPath)
    /\ UNCHANGED <<clientVars, waiting, tokens>>

ClientStep(c) == ClientStatement(c) /\ UNCHANGED scriptVars
ClientExpiry(c) == ClientTimeout(c) /\ UNCHANGED scriptVars
ClientArrival(c) == Ask(c) /\ UNCHANGED scriptVars

\* A restart of the server.  A DROP that waits while its connection breaks is
\* left out.
Restart ==
    /\ waiting = {}
    /\ Crash
    /\ cpc' = [c \in Client |-> IF cpc[c] \in ClientInFlight THEN "lost" ELSE cpc[c]]
    /\ UNCHANGED <<asked, context, listed, waiting, tokens, scriptVars>>

Rest ==
    /\ Serving = {} /\ \A r \in Request : pc[r] # "idle"
    /\ \A c \in Client : cpc[c] \notin ClientInFlight
    /\ script = "done"
    /\ UNCHANGED tenancyVars

TenancyNext ==
    \/ \E r \in Request : LifecycleStep(r) \/ LifecycleEvent(r)
    \/ \E c \in Client : ClientStep(c) \/ ClientExpiry(c) \/ ClientArrival(c)
    \/ ScriptStep
    \/ Restart
    \/ Rest

\* Statements that can run do run, and Prisma's timers fire.  Nobody has to
\* send a request or to run the script.
TenancyFairness ==
    /\ \A r \in Request : WF_tenancyVars(LifecycleStep(r))
    /\ \A c \in Client : WF_tenancyVars(ClientStep(c)) /\ WF_tenancyVars(ClientExpiry(c))

TenancySpec == TenancyInit /\ [][TenancyNext]_tenancyVars /\ TenancyFairness

----------------------------------------------------------------------------
(* Properties *)

\* A client's step past the check of its permissions is one into a complete
\* tenant, its token's.
EntersComplete ==
    \A c \in Client :
        LET sub == asked[c].sub
        IN cpc[c] = "readPermissions" /\ cpc'[c] = "pass" /\ peers[sub] = {} /\ Steady(sub)
               => context[c] = SchemaOf[input[sub].slug] /\ Complete(sub)

\* Requests are served from the moment the row exists, and the admin can log
\* in before the creation is answered, or after it was cut off; but rights are
\* granted last: whoever is let through as SUPER_ADMIN is in a tenant with every
\* table and role, if no other request overlapped its creation and it did not
\* stray.  (middleware 14-38, create 36-75, login 82-127,
\* JwtStrategy.validate 28-74)
RightsMeanComplete == [][EntersComplete]_tenancyVars

\* A listing shows the users of the tenant whose administrator asked for it,
\* and of no other, if the creation of that tenant was answered with success;
\* unless the tenant was hard deleted between the check of the token and the
\* listing, which are two transactions, or another request overlapped its
\* creation, or the pool scattered the writes of some creation.
\* (runWithTenant 9-11, run 41-51, findAll 10-48)
ServedByOwnTenant ==
    \A c \in Client :
        LET sub == asked[c].sub
        IN /\ cpc[c] = "listed" /\ pc[sub] = "created"
           /\ ~Deleting(sub) /\ peers[sub] = {} /\ strayed = {}
           => listed[c] = {sub}

\* A DROP SCHEMA waits for the transactions of clients and they wait, by way
\* of their audit records, for the DROP, where PostgreSQL sees no deadlock:
\* the timers end every such wait, and in the end every request that was made,
\* to the tenants controller or to a tenant, is answered.  (hardDelete 216-230,
\* login 82-127)
EverybodyAnswered ==
    <>[](Serving = {} /\ \A c \in Client : cpc[c] \notin ClientInFlight)

----------------------------------------------------------------------------
(* The inductive invariants *)

Logging == {"select", "write", "audit", "commit", "loggedIn"}
Listing == {"readUser", "readRoles", "readPermissions", "pass", "refuse", "handle",
            "listed", "forbidden"}

\* What the label of a client's request says about it.
ClientOK(c) ==
    /\ cpc[c] # "idle" => asked[c] \in ClientInput
    /\ cpc[c] \in Logging => asked[c].op = "login"
    /\ cpc[c] \in Listing => asked[c].op = "list"
    /\ cpc[c] \in Starting \cup Holding => context[c] \in Schema

\* Everything that holds however requests overlap, and whatever the pool's size.
TenancyInv ==
    /\ MigrationInv
    /\ ClientTypeOK
    /\ \A c \in Client : ClientOK(c)

\* Behind the check of the token and its roles, the context's schema is that of
\* the token's tenant, whose creation had come to its last statement.
HandledOK(c) ==
    LET sub == asked[c].sub
    IN cpc[c] \in {"readPermissions", "pass", "handle", "listed"}
          /\ peers[sub] = {} /\ Steady(sub)
       => /\ context[c] = SchemaOf[input[sub].slug]
          /\ pc[sub] \in {"adminReset", "lost"} \cup Cleaning \cup Answered

\* The role that a check has found stays there until its transaction ends: a
\* DROP waits for it.
RoleOK(c) ==
    cpc[c] \in {"readPermissions", "pass"} => asked[c].sub \in store[context[c]].granted

\* What a listing has shown, from the last statement of the creation on.
ListedOK(c) ==
    LET sub == asked[c].sub
    IN /\ cpc[c] = "listed" /\ pc[sub] \in {"adminReset", "created"}
       /\ ~Deleting(sub) /\ peers[sub] = {} /\ strayed = {}
       => listed[c] = {sub}

\* What ServedByOwnTenant and RightsMeanComplete add.
ServiceInv ==
    /\ TenancyInv
    /\ CompletionInv
    /\ \A c \in Client : HandledOK(c) /\ RoleOK(c) /\ ListedOK(c)
=============================================================================
