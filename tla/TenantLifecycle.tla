-------------------------- MODULE TenantLifecycle --------------------------
(***************************************************************************)
(* Creation, update, deactivation and deletion of tenants: TenantService   *)
(* (tenant/tenant.service.ts) over PrismaService (prisma/prisma.service.ts) *)
(* and PostgreSQL.                                                         *)
(*                                                                         *)
(* No operation runs in a transaction.  Every statement commits by itself, *)
(* and each raw statement is sent on whichever pooled connection is free,  *)
(* so statements of requests interleave and a session-level                *)
(* SET search_path governs whatever statement is sent next on the SAME     *)
(* connection, and no statement that another one serves.  One action is    *)
(* one statement.                                                          *)
(*                                                                         *)
(* A tenant's id (a UUID) is the request that created it, and so is the id *)
(* of the admin user inserted by that request.                             *)
(***************************************************************************)
EXTENDS Naturals, FiniteSets, Sequences

CONSTANTS
    Request,      \* HTTP requests to the tenants controller
    Slug,         \* tenant slugs
    Schema,       \* names of tenant schemas
    SchemaOf,     \* slug -> schema name: `tenant_` + slug with "-" as "_"
    Domain,       \* custom domains
    Email,        \* admin email addresses
    Conn,         \* connections of PrismaService's pool
    Public,       \* the default search_path: the public schema
    None,         \* an absent optional field
    Input,        \* request bodies and path parameters that are considered
    MaxInFlight,  \* bound: requests served at the same time
    MaxStrays,    \* bound: statements of creations served off their SET's connection
    MaxFaults,    \* bound: statements that fail for a reason outside the model
    MaxCrashes    \* bound: restarts of the Node process

Status == {"ACTIVE", "SUSPENDED", "INACTIVE"}

CreateInput ==
    [op : {"create"}, slug : Slug, domain : Domain \cup {None}, email : Email]
UpdateInput ==
    [op : {"update"}, id : Request, domain : Domain \cup {None},
     status : Status \cup {None}]
TargetInput == [op : {"remove", "hardDelete"}, id : Request]

\* The DTO admits slugs of [a-z0-9] and single hyphens only, so replacing "-"
\* by "_" is injective, and 50 + 7 characters stay below PostgreSQL's 63.
ASSUME SchemaAssumption ==
    /\ SchemaOf \in [Slug -> Schema]
    /\ \A g, h \in Slug : SchemaOf[g] = SchemaOf[h] => g = h
    /\ Public \notin Schema
    /\ None \notin Schema
ASSUME InputAssumption == Input \subseteq CreateInput \cup UpdateInput \cup TargetInput
ASSUME NoneAssumption == None \notin Request
ASSUME NoConnAssumption == None \notin Conn
ASSUME BoundAssumption ==
    MaxInFlight \in Nat /\ MaxStrays \in Nat /\ MaxFaults \in Nat /\ MaxCrashes \in Nat

\* The tables of a tenant schema in the order they are created.
Migration == << "users", "roles", "permissions", "user_roles",
                "role_permissions", "sessions", "audit_logs" >>
Table == {"users", "roles", "permissions", "user_roles",
          "role_permissions", "sessions", "audit_logs"}

\* The tables whose existence a table's REFERENCES clauses require.
References ==
    [t \in Table |->
        CASE t \in {"users", "roles", "permissions"} -> {}
          [] t = "user_roles"                        -> {"users", "roles"}
          [] t = "role_permissions"                  -> {"roles", "permissions"}
          [] t \in {"sessions", "audit_logs"}        -> {"users"}]

VARIABLES
    tenants,     \* rows of public.tenants
    schemas,     \* tenant schemas that exist
    store,       \* contents of each tenant schema
    searchPath,  \* search_path of each connection
    pc,          \* next statement of each request, or its outcome
    at,          \* index in Migration of the table a request creates next
    schemaName,  \* the local that create and hardDelete address the schema by
    input,       \* body and parameters of each request
    peers,       \* history: the requests a request was in flight together with
    home,        \* history: the connection of the last SET of a request
    strayed,     \* history: requests with a later statement on another connection
    faults,      \* statements that failed so far
    crashes      \* restarts so far

db == <<tenants, schemas, store>>
history == <<peers, home, strayed>>
vars == <<tenants, schemas, store, searchPath, pc, at, schemaName, input,
          peers, home, strayed, faults, crashes>>

Row == [id : Request, slug : Slug, domain : Domain \cup {None},
        schema : Schema, status : Status]
Content == [tables : SUBSET Table, superAdmin : BOOLEAN,
            admins : SUBSET Request, granted : SUBSET Request]
EmptySchema == [tables |-> {}, superAdmin |-> FALSE, admins |-> {}, granted |-> {}]

Checking == {"checkSlug", "checkSchema"}
Trying == {"insertTenant", "createSchema", "migratePath", "migrate",
           "migrateReset", "adminPath", "insertRole", "insertUser",
           "assignRole", "adminReset"}
Cleaning == {"cleanRecord", "cleanSchema"}
Managing == {"find", "updateRow", "deactivate", "dropSchema", "deleteRow"}
Answered == {"created", "conflict", "failed", "cleanupFailed", "notFound",
             "updated", "deactivated", "deleted", "halfDeleted", "error"}
InFlight == Checking \cup Trying \cup Cleaning \cup Managing

Serving == {r \in Request : pc[r] \in InFlight}

TypeOK ==
    /\ tenants \subseteq Row
    /\ schemas \subseteq Schema
    /\ store \in [Schema -> Content]
    /\ searchPath \in [Conn -> Schema \cup {Public}]
    /\ pc \in [Request -> InFlight \cup Answered \cup {"idle", "lost"}]
    /\ at \in [Request -> 1..Len(Migration)]
    /\ schemaName \in [Request -> Schema \cup {None}]
    /\ input \in [Request -> Input]
    /\ peers \in [Request -> SUBSET Request]
    /\ home \in [Request -> Conn \cup {None}]
    /\ strayed \subseteq Request
    /\ faults \in 0..MaxFaults
    /\ crashes \in 0..MaxCrashes

Init ==
    /\ tenants = {}
    /\ schemas = {}
    /\ store = [s \in Schema |-> EmptySchema]
    /\ searchPath = [c \in Conn |-> Public]
    /\ pc = [r \in Request |-> "idle"]
    /\ at = [r \in Request |-> 1]
    /\ schemaName = [r \in Request |-> None]
    /\ input \in [Request -> Input]
    /\ peers = [r \in Request |-> {}]
    /\ home = [r \in Request |-> None]
    /\ strayed = {}
    /\ faults = 0
    /\ crashes = 0

Goto(r, label) == pc' = [pc EXCEPT ![r] = label]

\* A request arrives; the handler of its operation is entered.
Begin(r) ==
    /\ pc[r] = "idle"
    /\ Cardinality(Serving) < MaxInFlight
    /\ Goto(r, IF input[r].op = "create" THEN "checkSlug" ELSE "find")
    /\ peers' = [q \in Request |->
                    IF q = r THEN Serving
                    ELSE IF q \in Serving THEN peers[q] \cup {r} ELSE peers[q]]
    /\ UNCHANGED <<db, searchPath, at, schemaName, input, home, strayed, faults, crashes>>

----------------------------------------------------------------------------
(* TenantService.create *)

\* Mutant of CheckSlug: the lookup moved into the try block, so that its
\* ConflictException reaches the cleanup.
CheckSlugInsideTry(r) ==
    /\ pc[r] = "checkSlug"
    /\ Goto(r, IF \E t \in tenants : t.slug = input[r].slug
               THEN "cleanRecord" ELSE "checkSchema")
    /\ schemaName' = [schemaName EXCEPT ![r] = SchemaOf[input[r].slug]]
    /\ UNCHANGED <<db, searchPath, at, input, history, faults, crashes>>

\* findUnique by slug: a hit is a ConflictException, outside the try block.
\* Otherwise the schema name is computed from the slug.
CheckSlug(r) ==
    /\ pc[r] = "checkSlug"
    /\ IF \E t \in tenants : t.slug = input[r].slug
       THEN Goto(r, "conflict") /\ UNCHANGED schemaName
       ELSE /\ Goto(r, "checkSchema")
            /\ schemaName' = [schemaName EXCEPT ![r] = SchemaOf[input[r].slug]]
    /\ UNCHANGED <<db, searchPath, at, input, history, faults, crashes>>

\* Mutant of CheckSchema: the check dropped, since CREATE SCHEMA says IF NOT EXISTS.
CheckSchemaDropped(r) ==
    /\ pc[r] = "checkSchema"
    /\ Goto(r, "insertTenant")
    /\ UNCHANGED <<db, searchPath, at, schemaName, input, history, faults, crashes>>

\* schemaExists: a schema of that name is a ConflictException as well.
CheckSchema(r) ==
    /\ pc[r] = "checkSchema"
    /\ Goto(r, IF schemaName[r] \in schemas THEN "conflict" ELSE "insertTenant")
    /\ UNCHANGED <<db, searchPath, at, schemaName, input, history, faults, crashes>>

\* The unique columns of public.tenants that a new row would violate.
Clashes(row) ==
    \E t \in tenants : \/ t.slug = row.slug
                       \/ t.schema = row.schema
                       \/ t.domain = row.domain /\ row.domain # None

\* tenant.create: an ACTIVE row, or a unique violation caught by the handler.
InsertTenant(r) ==
    LET row == [id |-> r, slug |-> input[r].slug, domain |-> input[r].domain,
                schema |-> schemaName[r], status |-> "ACTIVE"]
    IN /\ pc[r] = "insertTenant"
       /\ IF Clashes(row)
          THEN Goto(r, "cleanRecord") /\ UNCHANGED tenants
          ELSE Goto(r, "createSchema") /\ tenants' = tenants \cup {row}
       /\ UNCHANGED <<schemas, store, searchPath, at, schemaName, input,
                      history, faults, crashes>>

\* CREATE SCHEMA IF NOT EXISTS
CreateSchema(r) ==
    /\ pc[r] = "createSchema"
    /\ schemas' = schemas \cup {schemaName[r]}
    /\ Goto(r, "migratePath")
    /\ UNCHANGED <<tenants, store, searchPath, at, schemaName, input, history,
                   faults, crashes>>

\* SET search_path, on the connection that happens to serve the statement.
SetPath(r, c, from, to) ==
    /\ pc[r] = from
    /\ searchPath' = [searchPath EXCEPT ![c] = schemaName[r]]
    /\ home' = [home EXCEPT ![r] = c]
    /\ Goto(r, to)
    /\ UNCHANGED <<db, at, schemaName, input, peers, strayed, faults, crashes>>

\* A statement after a SET of request r is served by the connection of the
\* SET, or strays to another.
ServedBy(r, c) ==
    /\ \/ c = home[r] /\ UNCHANGED strayed
       \/ /\ c # home[r] /\ r \notin strayed
          /\ Cardinality(strayed) < MaxStrays
          /\ strayed' = strayed \cup {r}
    /\ UNCHANGED <<peers, home>>

\* RESET search_path, on the connection that happens to serve the statement.
ResetPath(r, c, from, to) ==
    /\ pc[r] = from
    /\ searchPath' = [searchPath EXCEPT ![c] = Public]
    /\ Goto(r, to)
    /\ ServedBy(r, c)
    /\ UNCHANGED <<db, at, schemaName, input, faults, crashes>>

MigratePath(r, c) == SetPath(r, c, "migratePath", "migrate")
MigrateReset(r, c) == ResetPath(r, c, "migrateReset", "adminPath")
AdminPath(r, c) == SetPath(r, c, "adminPath", "insertRole")
AdminReset(r, c) == ResetPath(r, c, "adminReset", "created")

\* The schema that unqualified names resolve to on connection c can hold
\* table t: it exists, and so do the tables t refers to.
CanCreate(t, c) ==
    /\ searchPath[c] \in schemas
    /\ \/ t \in store[searchPath[c]].tables
       \/ References[t] \subseteq store[searchPath[c]].tables

\* Mutant of NextTable: the end of the list missed.
NextTablePastEnd(r) == at' = [at EXCEPT ![r] = @ + 1] /\ UNCHANGED pc

NextTable(r) ==
    IF at[r] = Len(Migration)
    THEN Goto(r, "migrateReset") /\ UNCHANGED at
    ELSE at' = [at EXCEPT ![r] = @ + 1] /\ UNCHANGED pc

\* Mutant of Migrate: user_roles created with the role, the admin and the
\* assignment already in it.
MigrateSeeding(r, c) ==
    LET t == Migration[at[r]]
        s == searchPath[c]
    IN /\ pc[r] = "migrate"
       /\ IF CanCreate(t, c)
          THEN /\ NextTable(r)
               /\ store' = [store EXCEPT
                     ![s].tables = @ \cup {t},
                     ![s].superAdmin = @ \/ t = "user_roles",
                     ![s].admins = IF t = "user_roles" THEN @ \cup {r} ELSE @,
                     ![s].granted = IF t = "user_roles" THEN @ \cup {r} ELSE @]
          ELSE Goto(r, "cleanRecord") /\ UNCHANGED <<store, at>>
       /\ ServedBy(r, c)
       /\ UNCHANGED <<tenants, schemas, searchPath, schemaName, input, faults, crashes>>

\* CREATE TABLE IF NOT EXISTS.  The public schema already holds a table of
\* every name (prisma migrate created them there): nothing happens.
Migrate(r, c) ==
    LET t == Migration[at[r]]
        s == searchPath[c]
    IN /\ pc[r] = "migrate"
       /\ \/ /\ s = Public
             /\ NextTable(r)
             /\ UNCHANGED store
          \/ /\ CanCreate(t, c)
             /\ NextTable(r)
             /\ store' = [store EXCEPT ![s].tables = @ \cup {t}]
          \/ /\ s # Public /\ ~CanCreate(t, c)
             /\ Goto(r, "cleanRecord")
             /\ UNCHANGED <<store, at>>
       /\ ServedBy(r, c)
       /\ UNCHANGED <<tenants, schemas, searchPath, schemaName, input, faults, crashes>>

\* Connection c resolves table t to one of a tenant schema.
Has(c, t) == searchPath[c] \in schemas /\ t \in store[searchPath[c]].tables

\* Mutant of InsertRole: the INSERT not awaited, its failure unnoticed.
InsertRoleUnchecked(r, c) ==
    /\ pc[r] = "insertRole"
    /\ Goto(r, "insertUser")
    /\ ServedBy(r, c)
    /\ UNCHANGED <<db, searchPath, at, schemaName, input, faults, crashes>>

\* INSERT INTO roles ... ON CONFLICT DO NOTHING.  public.roles refuses the row:
\* its "updatedAt" is NOT NULL without a default.
InsertRole(r, c) ==
    /\ pc[r] = "insertRole"
    /\ IF Has(c, "roles")
       THEN /\ store' = [store EXCEPT ![searchPath[c]].superAdmin = TRUE]
            /\ Goto(r, "insertUser")
       ELSE Goto(r, "cleanRecord") /\ UNCHANGED store
    /\ ServedBy(r, c)
    /\ UNCHANGED <<tenants, schemas, searchPath, at, schemaName, input, faults, crashes>>

\* INSERT INTO users ... RETURNING id: "email" is unique, and public.users
\* refuses the row as public.roles does.
InsertUser(r, c) ==
    /\ pc[r] = "insertUser"
    /\ IF /\ Has(c, "users")
          /\ \A q \in store[searchPath[c]].admins : input[q].email # input[r].email
       THEN /\ store' = [store EXCEPT ![searchPath[c]].admins = @ \cup {r}]
            /\ Goto(r, "assignRole")
       ELSE Goto(r, "cleanRecord") /\ UNCHANGED store
    /\ ServedBy(r, c)
    /\ UNCHANGED <<tenants, schemas, searchPath, at, schemaName, input, faults, crashes>>

\* INSERT INTO user_roles SELECT ... FROM roles WHERE name = 'SUPER_ADMIN':
\* no row and no error where the role is missing (public.roles is empty), a
\* foreign-key error where the role is there and the user is not.
AssignRole(r, c) ==
    LET s == searchPath[c]
        found == Has(c, "roles") /\ store[s].superAdmin
    IN /\ pc[r] = "assignRole"
       /\ \/ /\ Has(c, "user_roles") /\ found /\ r \in store[s].admins
             /\ store' = [store EXCEPT ![s].granted = @ \cup {r}]
             /\ Goto(r, "adminReset")
          \/ /\ s = Public \/ (Has(c, "user_roles") /\ Has(c, "roles") /\ ~found)
             /\ Goto(r, "adminReset")
             /\ UNCHANGED store
          \/ /\ s # Public
             /\ \/ ~Has(c, "user_roles")
                \/ ~Has(c, "roles")
                \/ found /\ r \notin store[s].admins
             /\ Goto(r, "cleanRecord")
             /\ UNCHANGED store
       /\ ServedBy(r, c)
       /\ UNCHANGED <<tenants, schemas, searchPath, at, schemaName, input,
                      faults, crashes>>

\* Mutant of CleanRecord: the cleanup forgets the row.
CleanRecordSkipped(r) ==
    /\ pc[r] = "cleanRecord"
    /\ Goto(r, "cleanSchema")
    /\ UNCHANGED <<db, searchPath, at, schemaName, input, history, faults, crashes>>

\* The catch block: deleteMany by SLUG, then the schema.
CleanRecord(r) ==
    /\ pc[r] = "cleanRecord"
    /\ tenants' = {t \in tenants : t.slug # input[r].slug}
    /\ Goto(r, "cleanSchema")
    /\ UNCHANGED <<schemas, store, searchPath, at, schemaName, input, history,
                   faults, crashes>>

\* DROP SCHEMA IF EXISTS ... CASCADE, then continue at label.
Drop(r, from, to) ==
    /\ pc[r] = from
    /\ schemas' = schemas \ {schemaName[r]}
    /\ store' = [store EXCEPT ![schemaName[r]] = EmptySchema]
    /\ Goto(r, to)
    /\ UNCHANGED <<tenants, searchPath, at, schemaName, input, history, faults,
                   crashes>>

\* Mutant of CleanSchema: the cleanup forgets the schema.
CleanSchemaSkipped(r) ==
    /\ pc[r] = "cleanSchema"
    /\ Goto(r, "failed")
    /\ UNCHANGED <<db, searchPath, at, schemaName, input, history, faults, crashes>>

CleanSchema(r) == Drop(r, "cleanSchema", "failed")

----------------------------------------------------------------------------
(* TenantService.update, remove and hardDelete *)

After(op) == CASE op = "update" -> "updateRow"
               [] op = "remove" -> "deactivate"
               [] op = "hardDelete" -> "dropSchema"

\* findOne: the row by id, or a NotFoundException.
Find(r) ==
    /\ pc[r] = "find"
    /\ \/ \E t \in tenants :
            /\ t.id = input[r].id
            /\ schemaName' = [schemaName EXCEPT ![r] = t.schema]
            /\ Goto(r, After(input[r].op))
       \/ /\ \A t \in tenants : t.id # input[r].id
          /\ Goto(r, "notFound")
          /\ UNCHANGED schemaName
    /\ UNCHANGED <<db, searchPath, at, input, history, faults, crashes>>

Written(t, i) ==
    [t EXCEPT !.domain = IF i.domain = None THEN @ ELSE i.domain,
              !.status = IF i.status = None THEN @ ELSE i.status]

DomainTaken(i) ==
    \E t \in tenants : t.id # i.id /\ t.domain = i.domain /\ i.domain # None

\* tenant.update by id: fails if the row is gone or the domain is taken.
UpdateRow(r) ==
    LET i == input[r]
    IN /\ pc[r] = "updateRow"
       /\ IF DomainTaken(i) \/ \A t \in tenants : t.id # i.id
          THEN Goto(r, "error") /\ UNCHANGED tenants
          ELSE /\ tenants' = {IF t.id = i.id THEN Written(t, i) ELSE t : t \in tenants}
               /\ Goto(r, "updated")
       /\ UNCHANGED <<schemas, store, searchPath, at, schemaName, input, history,
                      faults, crashes>>

Deactivated(t) == [t EXCEPT !.status = "INACTIVE"]

\* tenant.update of the status: the soft delete.
Deactivate(r) ==
    /\ pc[r] = "deactivate"
    /\ IF \A t \in tenants : t.id # input[r].id
       THEN Goto(r, "error") /\ UNCHANGED tenants
       ELSE /\ tenants' = {IF t.id = input[r].id THEN Deactivated(t) ELSE t : t \in tenants}
            /\ Goto(r, "deactivated")
    /\ UNCHANGED <<schemas, store, searchPath, at, schemaName, input, history,
                   faults, crashes>>

\* Mutant of DropSchema: a hard delete that leaves the schema behind.
DropSchemaSkipped(r) ==
    /\ pc[r] = "dropSchema"
    /\ Goto(r, "deleteRow")
    /\ UNCHANGED <<db, searchPath, at, schemaName, input, history, faults, crashes>>

DropSchema(r) == Drop(r, "dropSchema", "deleteRow")

\* tenant.delete by id: an error if another request deleted the row first.
DeleteRow(r) ==
    /\ pc[r] = "deleteRow"
    /\ tenants' = {t \in tenants : t.id # input[r].id}
    /\ Goto(r, IF \E t \in tenants : t.id = input[r].id THEN "deleted" ELSE "error")
    /\ UNCHANGED <<schemas, store, searchPath, at, schemaName, input, history,
                   faults, crashes>>

----------------------------------------------------------------------------
(* Failures *)

\* A statement of the request fails without effect (lock or statement timeout,
\* or a connection that breaks and is replaced, with the default search_path):
\* inside the try block the catch block runs, a failing cleanup is logged and
\* dropped, anything else rejects the request.
FailsWithoutEffect(r) ==
    /\ \/ pc[r] \in Trying /\ Goto(r, "cleanRecord")
       \/ pc[r] \in Cleaning /\ Goto(r, "cleanupFailed")
       \/ pc[r] = "deleteRow" /\ Goto(r, "halfDeleted")
       \/ pc[r] \in Checking \cup (Managing \ {"deleteRow"}) /\ Goto(r, "error")
    /\ \/ UNCHANGED searchPath
       \/ \E c \in Conn : searchPath' = [searchPath EXCEPT ![c] = Public]
    /\ UNCHANGED db

\* The last statement of a management request takes effect and its reply is
\* lost: the request is rejected.  (The other statements need no such case.
\* A statement of a creation, or the DROP of a hard delete, that took effect
\* and then fails leaves what its success and the failure of the next one
\* leave; a failing cleanup is only logged, so it ends as a successful one.)
ReplyLost(r) ==
    LET i == input[r]
    IN /\ \/ /\ pc[r] = "updateRow" /\ ~DomainTaken(i)
             /\ tenants' = {IF t.id = i.id THEN Written(t, i) ELSE t : t \in tenants}
          \/ /\ pc[r] = "deactivate"
             /\ tenants' = {IF t.id = i.id THEN Deactivated(t) ELSE t : t \in tenants}
          \/ /\ pc[r] = "deleteRow"
             /\ tenants' = {t \in tenants : t.id # i.id}
       /\ Goto(r, "error")
       /\ UNCHANGED <<schemas, store, searchPath>>

StatementFails(r) ==
    /\ faults < MaxFaults
    /\ faults' = faults + 1
    /\ FailsWithoutEffect(r) \/ ReplyLost(r)
    /\ UNCHANGED <<at, schemaName, input, history, crashes>>

\* The process dies and restarts: requests in flight are never resumed, and
\* the pool opens new connections with the default search_path.
Crash ==
    /\ crashes < MaxCrashes
    /\ crashes' = crashes + 1
    /\ Serving # {}
    /\ pc' = [r \in Request |-> IF r \in Serving THEN "lost" ELSE pc[r]]
    /\ searchPath' = [c \in Conn |-> Public]
    /\ UNCHANGED <<db, at, schemaName, input, history, faults>>

\* Nothing is left to do; a request that could not proceed would be a deadlock.
AllAnswered ==
    /\ \A r \in Request : pc[r] \in Answered \cup {"lost"}
    /\ UNCHANGED vars

Raw(r, c) ==
    \/ MigratePath(r, c) \/ Migrate(r, c) \/ MigrateReset(r, c)
    \/ AdminPath(r, c) \/ InsertRole(r, c) \/ InsertUser(r, c)
    \/ AssignRole(r, c) \/ AdminReset(r, c)

Statement(r) ==
    \/ CheckSlug(r) \/ CheckSchema(r) \/ InsertTenant(r) \/ CreateSchema(r)
    \/ \E c \in Conn : Raw(r, c)
    \/ CleanRecord(r) \/ CleanSchema(r)
    \/ Find(r) \/ UpdateRow(r) \/ Deactivate(r) \/ DropSchema(r) \/ DeleteRow(r)

Next ==
    \/ \E r \in Request : Begin(r) \/ Statement(r) \/ StatementFails(r)
    \/ Crash
    \/ AllAnswered

Spec == Init /\ [][Next]_vars

----------------------------------------------------------------------------
(* Properties *)

IsCreate(r) == input[r].op = "create"

\* A hard delete of the tenant that r created got past its lookup.
Deleting(r) ==
    \E d \in Request : /\ input[d].op = "hardDelete"
                       /\ input[d].id = r
                       /\ pc[d] \notin {"idle", "find", "notFound"}

\* The pool served every write of r by the connection r had SET.
Steady(r) == r \notin strayed

\* The schema of r's tenant has what create promises: every table, the
\* SUPER_ADMIN role, and r's admin as a user and holder of the role.
Complete(r) ==
    LET s == SchemaOf[input[r].slug]
    IN /\ s \in schemas
       /\ store[s].tables = Table /\ store[s].superAdmin
       /\ r \in store[s].admins /\ r \in store[s].granted

\* Nobody else is a user of it or holds the role.
Unmixed(r) ==
    LET s == SchemaOf[input[r].slug]
    IN store[s].admins = {r} /\ store[s].granted = {r}

\* A tenant reported as created, by a request that no other request overlapped
\* and whose writes the pool did not scatter, is complete, whatever failed,
\* crashed or was deleted before, and stays so whatever is requested
\* afterwards; and it is free of data of any earlier or other tenant, unless
\* the pool scattered the writes of some creation.  (create:15-91)
CreatedIsComplete ==
    \A r \in Request :
        pc[r] = "created" /\ peers[r] = {} /\ Steady(r) /\ ~Deleting(r) =>
            Complete(r) /\ (strayed = {} => Unmixed(r))

\* "Tenant created successfully": a creation that no other request overlapped
\* left a complete tenant behind.  (create 36-75, tenant.controller.ts 33-45)
CreatedAloneIsComplete ==
    \A r \in Request :
        pc[r] = "created" /\ peers[r] = {} /\ ~Deleting(r) => Complete(r)

\* No hard delete of r's tenant, and no other request on its schema while r ran.
Undisturbed(r) ==
    /\ ~Deleting(r)
    /\ \A q \in peers[r] : schemaName[q] # SchemaOf[input[r].slug]

\* A tenant reported as created keeps its row and its schema until it is hard
\* deleted, unless some request on the same schema overlapped its creation:
\* in particular a rejected or failed creation of the same slug never takes
\* the winner's tenant with it.  (create:19-34 before the try, catch 76-90)
CreatedSurvives ==
    \A r \in Request :
        /\ pc[r] = "created"
        /\ Undisturbed(r)
        => /\ \E t \in tenants : t.id = r /\ t.slug = input[r].slug
           /\ SchemaOf[input[r].slug] \in schemas

\* Requests that worked on schema s and were cut off or failed to clean up.
Interrupted(s) ==
    \E r \in Request : /\ schemaName[r] = s
                       /\ pc[r] \in {"lost", "cleanupFailed", "halfDeleted"}

\* Two requests on schema s overlapped.
Raced(s) ==
    \E r \in Request : /\ schemaName[r] = s
                       /\ \E q \in peers[r] : schemaName[q] = s

\* Registry and catalog agree: a tenant schema exists exactly when a row of
\* public.tenants names it, except while a request is working on that schema,
\* after one was interrupted midway, or after two of them raced.
\* (create's catch block 76-90, hardDelete 216-230)
RegistryAgreement ==
    \A s \in Schema :
        \/ s \in schemas <=> \E t \in tenants : t.schema = s
        \/ \E r \in Serving : schemaName[r] = s
        \/ Interrupted(s)
        \/ Raced(s)

\* "Create admin user in tenant schema": an admin user row is only ever in the
\* schema of the tenant it administers.  (createTenantAdmin 348-392)
AdminInOwnSchema ==
    \A s \in Schema : \A r \in store[s].admins : SchemaOf[input[r].slug] = s

\* "Tenant created successfully": a creation answered with success left a
\* tenant behind, unless that tenant was hard deleted.  (create 67-75)
CreatedHasTenant ==
    \A r \in Request :
        pc[r] = "created" /\ ~Deleting(r) => \E t \in tenants : t.id = r

----------------------------------------------------------------------------
(* Requests answered one at a time implement the registry of tenants *)

\* A creation past its checks works on slug g, unanswered as yet.
InCreation(g) ==
    \E r \in Request : pc[r] \in Trying \cup Cleaning /\ input[r].slug = g

RowOf(g) == {t \in tenants : t.slug = g}

PhaseOf(g) ==
    CASE InCreation(g) \/ (RowOf(g) = {} /\ SchemaOf[g] \notin schemas) -> "free"
      [] ~InCreation(g) /\ (\E t \in RowOf(g) : Complete(t.id))         -> "served"
      [] OTHER                                                          -> "stuck"

OwnerOf(g) ==
    IF InCreation(g) \/ RowOf(g) = {} THEN None
    ELSE (CHOOSE t \in RowOf(g) : TRUE).id

Outcome(label) ==
    CASE label = "idle"                                            -> "none"
      [] label \in InFlight                                        -> "pending"
      [] label \in {"created", "updated", "deactivated", "deleted"} -> "ok"
      [] label \in {"conflict", "notFound"}                        -> label
      [] OTHER                                                     -> "failed"

Phase == [g \in Slug |-> PhaseOf(g)]
Owner == [g \in Slug |-> OwnerOf(g)]
Answer == [r \in Request |-> Outcome(pc[r])]

Registry == INSTANCE TenantRegistry
                WITH phase <- Phase, owner <- Owner, answer <- Answer

\* No two requests have overlapped so far, and no creation has strayed.
Quiet == \A r \in Request : peers[r] = {} /\ Steady(r)

\* As long as that is so, requests see a registry of tenants in which a
\* creation succeeds on a free slug only, and at once; a failure or a restart
\* at any statement harms the slug of its own request and no tenant that was
\* served before; and nobody is told of a conflict over a free slug.
\* (create 15-91, update to hardDelete 175-230)
ImplementsRegistry ==
    /\ Registry!Init
    /\ [][Quiet' => Registry!Next \/ UNCHANGED Registry!vars]_vars

----------------------------------------------------------------------------
(* The inductive invariant behind RegistryAgreement *)

Creating == Checking \cup Trying \cup Cleaning

\* What the control state of a request says about its input and its local.
ControlOK ==
    \A r \in Request :
        /\ pc[r] \in Creating \cup {"created"} => input[r] \in CreateInput
        /\ pc[r] \in Managing => input[r] \in UpdateInput \cup TargetInput
        /\ pc[r] = "updateRow" => input[r] \in UpdateInput
        /\ pc[r] \in {"dropSchema", "deleteRow"} => input[r].op = "hardDelete"
        /\ pc[r] \in {"idle", "checkSlug", "find"} => schemaName[r] = None
        /\ pc[r] \in InFlight \ {"checkSlug", "find"} => schemaName[r] \in Schema

\* The slug of the tenant that a request is about.
Subject(r) == IF IsCreate(r) THEN input[r].slug ELSE input[input[r].id].slug

\* A request addresses the schema of its subject, and none other.
NamesOK ==
    \A r \in Request : schemaName[r] # None => schemaName[r] = SchemaOf[Subject(r)]

\* A row is that of its creator, and no two tenants share a schema.
RowsOK ==
    /\ \A t \in tenants : /\ input[t.id] \in CreateInput
                          /\ t.slug = input[t.id].slug
                          /\ t.schema = SchemaOf[t.slug]
    /\ \A t, u \in tenants : t.schema = u.schema => t.id = u.id

\* Requests in flight know each other.
PeersOK == \A r, q \in Serving : r # q => q \in peers[r]

RegisteredAs(s, i) == \E t \in tenants : t.schema = s /\ t.id = i
Registered(s) == \E t \in tenants : t.schema = s
Agree(s) == s \in schemas <=> Registered(s)

\* How far r has taken its schema, when nobody else works on it.
Progress(r) ==
    LET s == schemaName[r]
    IN /\ pc[r] \in {"checkSchema", "insertTenant", "createSchema", "deleteRow"}
             => s \notin schemas
       /\ pc[r] \in {"checkSchema", "insertTenant", "cleanSchema"} => ~Registered(s)
       /\ pc[r] = "createSchema" => Registered(s)
       /\ pc[r] \in {"dropSchema", "deleteRow"} => RegisteredAs(s, input[r].id)
       /\ pc[r] \in Trying \ {"insertTenant", "createSchema"}
             => s \in schemas /\ Registered(s)
       /\ pc[r] \in {"updateRow", "deactivate", "dropSchema"}
             => s \in schemas /\ Registered(s)

WorkOK(s) ==
    \/ Raced(s)
    \/ Interrupted(s)
    \/ /\ \A r \in Serving : schemaName[r] = s => Progress(r)
       /\ (\A r \in Serving : schemaName[r] # s) => Agree(s)

\* r has inserted its row, and then created its schema.
Provisioning == (Trying \ {"insertTenant", "createSchema"}) \cup {"created"}

\* The row and the schema of an undisturbed creation stay, and whoever gets to
\* work on its schema afterwards does so on behalf of its tenant.
KeepOK(r) ==
    LET s == SchemaOf[input[r].slug]
    IN Undisturbed(r) =>
       /\ pc[r] \in Provisioning \cup {"createSchema"} => RegisteredAs(s, r)
       /\ pc[r] \in Provisioning => s \in schemas
       /\ pc[r] = "created" =>
            \A q \in Serving \ peers[r] :
                schemaName[q] = s => pc[q] \in Managing /\ input[q].id = r

Inv ==
    /\ TypeOK
    /\ ControlOK
    /\ NamesOK
    /\ RowsOK
    /\ PeersOK
    /\ \A s \in Schema : WorkOK(s)
    /\ \A r \in Request : KeepOK(r)

----------------------------------------------------------------------------
(* What CreatedIsComplete adds *)

\* A schema that does not exist holds nothing.
VacantOK == \A s \in Schema \ schemas : store[s] = EmptySchema

\* A request that has not begun overlaps no other, and a creation that has not
\* reached its migration starts it with the first table.
StartOK ==
    \A r \in Request :
        /\ pc[r] = "idle" => peers[r] = {}
        /\ pc[r] \in {"idle", "checkSlug", "checkSchema", "insertTenant",
                      "createSchema", "migratePath"} => at[r] = 1

\* Labels between the first SET search_path of a creation and its answer.
OnPath == Trying \ {"insertTenant", "createSchema", "migratePath"}

\* The schema s of a steady creation that no other request overlaps fills
\* statement by statement, and the names of each statement resolve to s.  (A
\* script may add audit_logs to a schema that has users.)
FilledOK(r) ==
    LET s == SchemaOf[input[r].slug]
        Holds(tables, role, admins, granted) ==
            /\ tables \subseteq store[s].tables
            /\ store[s].tables \subseteq tables \cup {"audit_logs"}
            /\ store[s].superAdmin <=> role
            /\ store[s].admins = admins /\ store[s].granted = granted
    IN IsCreate(r) /\ peers[r] = {} /\ Steady(r) =>
       /\ pc[r] \in {"insertTenant", "createSchema"} => s \notin schemas
       /\ pc[r] \in OnPath \cup {"migratePath"} => s \in schemas
       /\ pc[r] = "migratePath" => Holds({}, FALSE, {}, {})
       /\ pc[r] = "migrate" =>
             Holds({Migration[i] : i \in 1..at[r] - 1}, FALSE, {}, {})
       /\ pc[r] \in {"migrateReset", "adminPath", "insertRole"} =>
             Holds(Table, FALSE, {}, {})
       /\ pc[r] = "insertUser" => Holds(Table, TRUE, {}, {})
       /\ pc[r] = "assignRole" => Holds(Table, TRUE, {r}, {})
       /\ pc[r] = "adminReset" => Holds(Table, TRUE, {r}, {r})
       /\ pc[r] \in {"migrate", "insertRole", "insertUser", "assignRole"} =>
             searchPath[home[r]] = s

\* The role is granted last: where the admin of such a creation has it, the
\* tenant is complete, and stays complete until its schema is dropped, since
\* nobody who creates another tenant works on that schema or SETs a connection
\* to it.  (A creation that strays may still write to it, and only adds.)
GrantedOK(r) ==
    \A s \in Schema : r \in store[s].granted /\ peers[r] = {} /\ Steady(r) =>
        /\ s = SchemaOf[input[r].slug] /\ Complete(r)
        /\ pc[r] \in {"adminReset", "lost"} \cup Cleaning \cup Answered
        /\ \A q \in Serving \ {r} :
            /\ schemaName[q] = s => pc[q] \in Managing \cup {"checkSchema"}
            /\ pc[q] \in OnPath => searchPath[home[q]] # s
        /\ strayed = {} => Unmixed(r)

\* Only the tenant's own hard delete takes the role away once it is created.
HeldOK(r) ==
    pc[r] = "created" /\ peers[r] = {} /\ Steady(r) /\ ~Deleting(r) =>
        r \in store[SchemaOf[input[r].slug]].granted

\* Between its first SET and its answer a creation has a home.
HomeOK == \A r \in Request : pc[r] \in OnPath => home[r] \in Conn

CompletionInv ==
    /\ Inv
    /\ VacantOK
    /\ StartOK
    /\ HomeOK
    /\ \A r \in Request : FilledOK(r) /\ GrantedOK(r) /\ HeldOK(r)

----------------------------------------------------------------------------
(* What ImplementsRegistry adds, as long as requests do not overlap or stray *)

\* A request knows the rows of the slug it works on.  A creation is the owner of
\* the only one, as soon as it inserted it and until it cleans up; a found row
\* stays until its request deletes it.
AloneOK(r) ==
    /\ pc[r] \in {"checkSchema", "insertTenant", "cleanSchema"} =>
          ~Registered(SchemaOf[input[r].slug])
    /\ pc[r] \in Trying \ {"insertTenant"} =>
          RegisteredAs(SchemaOf[input[r].slug], r)
    /\ pc[r] = "cleanRecord" =>
          \A i \in Request : RegisteredAs(SchemaOf[input[r].slug], i) => i = r
    /\ pc[r] \in Managing \ {"find"} => RegisteredAs(schemaName[r], input[r].id)
    /\ pc[r] = "deactivate" => input[r].op = "remove"
    /\ pc[r] = "deleteRow" => schemaName[r] \notin schemas

SerialInv ==
    /\ CompletionInv
    /\ Quiet => /\ \A r, q \in Serving : r = q
                /\ \A r \in Request : AloneOK(r)
=============================================================================
