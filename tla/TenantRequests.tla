--------------------------- MODULE TenantRequests ---------------------------
(***************************************************************************)
(* Requests to tenants beside the lifecycle of the tenants: the middleware *)
(* (tenant/middleware/tenant.middleware.ts) that turns a slug into the     *)
(* schema of the request's context, JwtStrategy.validate, and two of the   *)
(* operations behind it, POST /auth/login and GET /users.                  *)
(*                                                                         *)
(* Their transactions lock the tables they use until they end, and DROP    *)
(* SCHEMA waits for them.  A statement of a transaction that comes to the  *)
(* schema after the DROP waits behind it.  The locks of a schema's tables  *)
(* are taken as one: where a transaction and the DROP would each hold a    *)
(* table the other wants, PostgreSQL fails one of the two at once.         *)
(***************************************************************************)
EXTENDS TenantLifecycle

CONSTANTS
    Client,   \* requests to tenants
    Asks      \* what each of them may ask for

\* A login names an email; a listing carries a token of a tenant's admin.
ClientInput == [op : {"login"}, slug : Slug, email : Email]
               \cup [op : {"list"}, slug : Slug, sub : Request]

ASSUME AsksAssumption == Asks \in [Client -> SUBSET ClientInput]

VARIABLES
    cpc,      \* next statement of each client's request, or its outcome
    asked,    \* what it asks for
    context,  \* the schema in its AsyncLocalStorage
    listed,   \* the ids of the users a listing returned
    waiting,  \* lifecycle requests whose DROP SCHEMA waits for its locks
    tokens    \* history: the users whom a login may have given a token

clientVars == <<cpc, asked, context, listed>>

\* Labels inside a transaction that has locked tables of the context's schema.
Holding == {"write", "audit", "commit", "readRoles", "readPermissions", "pass", "refuse"}
Starting == {"select", "readUser", "handle"}
ClientInFlight == {"resolve"} \cup Starting \cup Holding
ClientAnswered == {"loggedIn", "listed", "notFound", "unauthorized", "forbidden", "error"}

ClientTypeOK ==
    /\ cpc \in [Client -> ClientInFlight \cup ClientAnswered \cup {"idle", "lost"}]
    /\ asked \in [Client -> ClientInput \cup {None}]
    /\ context \in [Client -> Schema \cup {None}]
    /\ listed \in [Client -> SUBSET Request]
    /\ waiting \subseteq {r \in Request : pc[r] \in {"dropSchema", "cleanSchema"}}
    /\ tokens \subseteq Request

ClientInit ==
    /\ cpc = [c \in Client |-> "idle"]
    /\ asked = [c \in Client |-> None]
    /\ context = [c \in Client |-> None]
    /\ listed = [c \in Client |-> {}]
    /\ waiting = {}
    /\ tokens = {}

Touched(s) == \E c \in Client : cpc[c] \in Holding /\ context[c] = s
DropPending(s) == \E r \in waiting : schemaName[r] = s

ClientGoto(c, label) == cpc' = [cpc EXCEPT ![c] = label]
Present(c, t) == context[c] \in schemas /\ t \in store[context[c]].tables

\* The admins who can log in: to a registered tenant, created or not, that has
\* the two tables which login reads and writes.
Findable ==
    {u \in Request : \E t \in tenants : /\ u \in store[t.schema].admins
                                       /\ {"users", "sessions"} \subseteq store[t.schema].tables}

\* A client asks for something; a token is one that a login has signed, and
\* outlives its user and its tenant.
Ask(c) ==
    /\ cpc[c] = "idle"
    /\ \E i \in Asks[c] :
        /\ i.op = "list" => i.sub \in tokens
        /\ asked' = [asked EXCEPT ![c] = i]
    /\ ClientGoto(c, "resolve")
    /\ UNCHANGED <<vars, context, listed, waiting, tokens>>

\* Mutant of Resolve: the context in a field that all requests share.
ResolveShared(c) ==
    /\ cpc[c] = "resolve"
    /\ \/ \E t \in tenants :
            /\ t.slug = asked[c].slug
            /\ context' = [d \in Client |-> t.schema]
            /\ ClientGoto(c, IF asked[c].op = "login" THEN "select" ELSE "readUser")
       \/ /\ \A t \in tenants : t.slug # asked[c].slug
          /\ ClientGoto(c, "notFound")
          /\ UNCHANGED context
    /\ UNCHANGED <<vars, asked, listed, waiting, tokens>>

\* TenantMiddleware.use: any row with the slug will do, whatever its status
\* and however far its schema has got.  The lookup names public.tenants, so the
\* search_path of the connection that serves it does not matter; but it takes
\* one of the connections that creations use, which is why those stray.
Resolve(c) ==
    /\ cpc[c] = "resolve"
    /\ \/ \E t \in tenants :
            /\ t.slug = asked[c].slug
            /\ context' = [context EXCEPT ![c] = t.schema]
            /\ ClientGoto(c, IF asked[c].op = "login" THEN "select" ELSE "readUser")
       \/ /\ \A t \in tenants : t.slug # asked[c].slug
          /\ ClientGoto(c, "notFound")
          /\ UNCHANGED context
    /\ UNCHANGED <<vars, asked, listed, waiting, tokens>>

\* The first statement of a transaction of TenantPrismaService.run: an error
\* where table t is missing, otherwise on to the label.
FirstStatement(c, t, from, label) ==
    /\ cpc[c] = from
    /\ ~DropPending(context[c])
    /\ ClientGoto(c, IF Present(c, t) THEN label ELSE "error")
    /\ UNCHANGED <<vars, asked, context, waiting, tokens>>

----------------------------------------------------------------------------
(* login *)

Users(c) == store[context[c]].admins

\* The user is found by email.  A wrong password ends like an unknown email.
SelectUser(c) ==
    /\ FirstStatement(c, "users", "select",
            IF \E u \in Users(c) : input[u].email = asked[c].email
            THEN "write" ELSE "unauthorized")
    /\ UNCHANGED listed

\* UPDATE of lastLoginAt and INSERT of the session.
WriteLogin(c) ==
    /\ cpc[c] = "write"
    /\ ClientGoto(c, IF Present(c, "sessions") THEN "audit" ELSE "error")
    /\ UNCHANGED <<vars, asked, context, listed, waiting, tokens>>

\* The nested transaction of AuditService.create is a new one to the schema:
\* it waits behind a DROP that waits for the login around it.  Whether it
\* writes its record or fails, the login goes on.
AuditLogin(c) ==
    /\ cpc[c] = "audit"
    /\ ~DropPending(context[c])
    /\ ClientGoto(c, "commit")
    /\ UNCHANGED <<vars, asked, context, listed, waiting, tokens>>

CommitLogin(c) ==
    /\ cpc[c] = "commit"
    /\ ClientGoto(c, "loggedIn")
    /\ UNCHANGED <<vars, asked, context, listed, waiting, tokens>>

----------------------------------------------------------------------------
(* GET /users *)

\* JwtStrategy.validate: the user, by the sub of the token ...
ReadUser(c) ==
    /\ FirstStatement(c, "users", "readUser",
            IF asked[c].sub \in Users(c) THEN "readRoles" ELSE "unauthorized")
    /\ UNCHANGED listed

\* ... then its roles ...
ReadRoles(c) ==
    /\ cpc[c] = "readRoles"
    /\ ClientGoto(c, IF ~(Present(c, "roles") /\ Present(c, "user_roles")) THEN "error"
                     ELSE IF asked[c].sub \in store[context[c]].granted
                     THEN "readPermissions" ELSE "refuse")
    /\ UNCHANGED <<vars, asked, context, listed, waiting, tokens>>

\* ... and the permissions of each role it has.
ReadPermissions(c) ==
    /\ cpc[c] = "readPermissions"
    /\ ClientGoto(c, IF Present(c, "permissions") /\ Present(c, "role_permissions")
                     THEN "pass" ELSE "error")
    /\ UNCHANGED <<vars, asked, context, listed, waiting, tokens>>

\* The transaction commits, and PermissionsGuard lets a SUPER_ADMIN pass.
EndCheck(c) ==
    /\ \/ cpc[c] = "pass" /\ ClientGoto(c, "handle")
       \/ cpc[c] = "refuse" /\ ClientGoto(c, "forbidden")
    /\ UNCHANGED <<vars, asked, context, listed, waiting, tokens>>

\* UsersService.findAll, in a second transaction.
ListUsers(c) ==
    /\ FirstStatement(c, "users", "handle", "listed")
    /\ listed' = IF Present(c, "users") THEN [listed EXCEPT ![c] = Users(c)] ELSE listed

----------------------------------------------------------------------------
(* Timers, and the DROP that waits *)

\* Mutant of ClientTimeout: a transaction's timeout that applies to its own
\* statements only, and an audit record that is tried again.
ClientTimeoutRetrying(c) ==
    /\ cpc[c] \in ClientInFlight
    /\ ClientGoto(c, IF cpc[c] = "audit" THEN "audit" ELSE "error")
    /\ UNCHANGED <<vars, asked, context, listed, waiting, tokens>>

\* The middleware's lookup gets no connection in time, or the timeout of run's
\* transaction passes and it is rolled back.  While the audit record is being
\* written, its transaction may time out first, which is logged and the login
\* goes on.
ClientTimeout(c) ==
    /\ cpc[c] \in ClientInFlight
    /\ \/ ClientGoto(c, "error")
       \/ cpc[c] = "audit" /\ ClientGoto(c, "commit")
    /\ UNCHANGED <<vars, asked, context, listed, waiting, tokens>>

ClientStatement(c) ==
    \/ Resolve(c)
    \/ SelectUser(c) \/ WriteLogin(c) \/ AuditLogin(c) \/ CommitLogin(c)
    \/ ReadUser(c) \/ ReadRoles(c) \/ ReadPermissions(c) \/ EndCheck(c) \/ ListUsers(c)

\* A lifecycle request sends its DROP SCHEMA.
SendDrop(r) ==
    /\ pc[r] \in {"dropSchema", "cleanSchema"}
    /\ r \notin waiting
    /\ waiting' = waiting \cup {r}
    /\ UNCHANGED <<vars, clientVars, tokens>>

\* A statement of a lifecycle request, a DROP once it has its locks.
LifecycleStatement(r) ==
    /\ Statement(r)
    /\ pc[r] \in {"dropSchema", "cleanSchema"} => r \in waiting /\ ~Touched(schemaName[r])
    /\ waiting' = waiting \ {r}
    /\ tokens' = tokens \cup Findable'
    /\ UNCHANGED clientVars
=============================================================================
