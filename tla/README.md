# A formal model of the multi-tenant RBAC service

TLA+ modules, TLC configurations and TLAPS proofs about the NestJS service in
this repository. Paths below are those of `PROJECT.json`, where `src/` is the
root of the repository and `src/src/` its application code. `PROJECT.json`
also maps every definition to the lines it models.

## The system

| component | state | operations | what makes it correct |
|---|---|---|---|
| tenant lifecycle (`tenant/tenant.service.ts`, `tenant.controller.ts`) | rows of `public.tenants` | create, update, remove (soft), hardDelete, and queries | a tenant answered as created is complete and stays until deleted; rows and schemas agree; a failed creation leaves nothing and takes nothing with it |
| schema catalog (`prisma/prisma.service.ts`) | PostgreSQL schemas, their tables, `search_path` of each pooled connection | create, drop, exists; raw statements | a statement meant for one tenant reaches that tenant |
| authentication (`auth/auth.service.ts`, `auth.controller.ts`, `strategies/jwt.strategy.ts`) | `sessions`, `users.lastLoginAt` of a tenant | register, login, refresh, logout, validate | logout is final; a replaced token stays dead; valid credentials are accepted |
| tenant transactions (`prisma/tenant-prisma.service.ts`) | a pool of connections, open interactive transactions | run | every request is answered, whatever the pool |
| audit (`audit/audit.service.ts`, `audit/interceptors`) | `audit_logs` of a tenant | create, queries | what is recorded happened, in the tenant that recorded it |
| tenant context (`tenant/middleware`, `tenant-context.ts`) | AsyncLocalStorage of a request | resolve the header to a schema | requests are served in a complete, active tenant |
| access control (`auth/guards`, `rbac/guards`) | none; reads roles and permissions | three guards | a route is reached only with what its decorators name |
| user directory (`users/`) | `users` of a tenant, and `public.users` | findAll, findOne, create, update, remove | what is created is found |
| seeding, scripts (`prisma/seeds`, `scripts`) | a tenant's roles, permissions, users; tables of all tenants | one run each | running again after an interruption completes the work |
| health, configuration, bootstrap | none | read-only | |

How they interact: `TenantMiddleware` resolves the tenant header to a schema
name and stores it for the request; `JwtAuthGuard` and `JwtStrategy` read the
user and its roles in that schema through `TenantPrismaService.run`, each in a
transaction of its own; a handler then opens another transaction, and login
and logout open a third one for the audit record while theirs is still open.
Tenants are managed through `PrismaService`, a second client with its own pool,
in single statements without any transaction.

What is hard:

* **interleaving**: Node serves requests concurrently and every `await` is a
  point where another request may run. Tenant creation has about 15 of them.
* **connection state**: `SET search_path` outside a transaction belongs to
  whichever connection served it, not to the request.
* **partial failure and restart**: tenant operations are sequences of
  committed statements with a best-effort cleanup and no recovery at startup.
* **lost replies**: a statement or a COMMIT takes effect and its reply never
  arrives, with the connection or the process; the handler reports an error.
* **locks, pool and timers**: nested transactions wait for connections held by
  the transactions they are nested in; only Prisma's timers release them.
* **stale reads**: checks precede the statements that rely on them.

`PROJECT.json` lists each hazard at its line with the properties aimed at it.

## Modules

### TenantLifecycle

One action is one SQL statement of one request: `CheckSlug`, `CheckSchema`,
`InsertTenant`, `CreateSchema`, `MigratePath` (SET), `Migrate` (one CREATE
TABLE at a time), `MigrateReset` (RESET), `AdminPath`, `InsertRole`,
`InsertUser`, `AssignRole`, `AdminReset`, the catch block `CleanRecord`,
`CleanSchema`, then `Find`, `UpdateRow`, `Deactivate`, `DropSchema`,
`DeleteRow` for the other operations. `pc` is the next statement or the
outcome of the request. Raw statements take a connection as a parameter and act
in whatever schema the `search_path` of that connection names; `tenants`
statements go through the Prisma model, which qualifies them, and do not depend
on it. `StatementFails` makes a statement fail without effect, or (`ReplyLost`)
with it; `Crash` restarts the process and renews the pool.

The pool is the default one of Prisma, several connections that are opened when
the others are busy, and any free connection serves a raw statement. A SET is
served by any connection, its `home`; each later statement of the creation by
the same one, or the creation *strays* (`ServedBy`): one statement of it is served
by another. Who keeps the home connection busy at that moment is not modelled; the
lookup of `TenantMiddleware` for any request to a tenant does. `MaxStrays` bounds
how many creations stray. Two creations may share a home in either case, and
each SET may have a home of its own.

The content of a schema is kept to what the properties tell apart: which
tables exist, whether the SUPER_ADMIN role does, which creations inserted
their admin, and which admins hold the role. In the public schema the
unqualified CREATE TABLEs find the tables of `schema.prisma`, and the INSERTs
fail, because `updatedAt` is NOT NULL there and has no default.

A UUID is identified with the request that draws it. Input that names a tenant
by id may thus name one that does not exist yet, which the code answers as it
answers any unknown id.

The variables `peers` (which requests were in flight together) and `strayed`
(which creations strayed) are history, and no guard depends on them but for the
bound on strays. Properties use them to say "unless raced" and `Steady`. `home` is
what `ServedBy` compares with.

### TenantSessions

Login, refresh and logout of users of one tenant in interactive transactions
at READ COMMITTED. `InUse` counts the connections held by open transactions,
the nested audit transaction included. `rowLock` and `userLock` are the
uncommitted writers that other statements wait for; uniqueness of
`refreshToken` is checked against committed rows and waits for uncommitted
ones. `GiveUp` is Prisma's `maxWait`, `Expire` its transaction `timeout`; the
audit transaction outlives the transaction it was started from, as it does in
the code. A refresh token is the pair of its user and the second of its
signature, because the payload has nothing else that differs.
A COMMIT takes effect in one step (`CommitLogin`, `CommitRefresh`,
`CommitLogout`) and is answered in another (`Reply`): in between a restart may
come, and the acknowledgement may be lost, which the client sees as an error.
Logout goes through `JwtStrategy.validate` first; refresh verifies the JWT
before its transaction. The expiry test of a refresh reads the clock in the
step that reads the session.

`committed`, `before` and `stale` are history: the requests whose transaction has
committed, the sessions a user had when a logout arrived, and the refreshes that
arrived with a dead token.

### AccessControl

Roles and permissions of one tenant. `Start`, `SeedRole`, `SeedPermission`,
`SeedGrants`, `SeedUser` and `AssignRole` are the statements of the seed script,
which commit one by one: `stage` is the list a run goes through and `at` its
index. `Kill` interrupts a run, which may start again; two runs may overlap. The
initial schema is empty or that of a tenant just created, with its SUPER_ADMIN.
`Arrive`, `ReadUser`, `ReadRoles` and `ReadPermissions` are the JWT guard and the
statements of `JwtStrategy.validate`; `Decide` applies `RolesGuard` and
`PermissionsGuard` to any route of `Decorators`, the table of what the decorators
of the controllers name. Nothing before `Decide` depends on the route, so it is
chosen there. `late` is history: requests that arrived after a completed run.

### UserDirectory

`UsersService`, `register` and the audit interceptor around the users controller,
for all tenants at once. Every operation is an interactive READ COMMITTED
transaction of one read (`CheckEmail`, `FindRow`, `ReadList`) and at most one
write (`InsertRow`, `UpdateRow`, `DeleteRow`), then `Commit`; `register` also
has `InsertSession`. `users` is `public.users`, because statements through a
Prisma model name the public schema; `Resident` is the tenant's own users, which
only the creation of the tenant writes and which `findAll` lists. A write waits
for the uncommitted writer of its row or of its email and finds out afterwards
that the row is gone or the email taken. `Commit` makes the write take effect;
`Respond` sends the response and starts the audit record (`recording`), unless the
acknowledgement was lost, which the handler reports as an error. `WriteRecord` or
`DropRecord` ends the record in a transaction nobody waits for. `Expire` stands for
both timers of `run`. `committed` is history.

### TenantMigration, TenantRequests, Tenancy

`TenantMigration` extends TenantLifecycle with `migrate-tenants.ts`: one read of
the tenants, then SET, CREATE TABLE IF NOT EXISTS and RESET for each, on a
connection of its own.

`TenantRequests` extends TenantLifecycle with requests to tenants: `Resolve` is
`TenantMiddleware`, which looks at the slug and ignores the status, and stores the schema in
the context of the request; its lookup takes a connection of the pool that creations
use, which is why those stray, and `ClientTimeout` lets it fail for want of one.
Login is `SelectUser`, `WriteLogin`, `AuditLogin`, `CommitLogin`; `GET /users` is
`ReadUser`, `ReadRoles`, `ReadPermissions` and `EndCheck` in one transaction and
`ListUsers` in another. A listing carries the token of an administrator. `tokens`
collects everybody whom a login could have given one so far: the administrators
whose row is in the schema of a registered tenant with its `users` and `sessions`,
so from the INSERT of the user on, before the grant of the role and the answer to
the creation, and also after a creation was cut off. A token outlives its user and
its tenant. A transaction locks the tables it has used until it ends
(`Holding`). `SendDrop` puts a DROP SCHEMA in line: it waits for these
transactions, and statements that come later wait for it. PostgreSQL sees
no deadlock between a DROP that waits for a login and the login's audit record
that waits for the DROP, because the login itself waits in Node.

`Tenancy` composes the three: the statements of one part leave the variables of
the others alone, except that lifecycle statements remove what they waited for.
Its properties about a tenant have the conditions of those of TenantLifecycle: no
other request overlapped its creation and it did not stray (`RightsMeanComplete`),
or nothing strayed and the tenant is not being deleted (`ServedByOwnTenant`), or no
request on its schema overlapped (`MigratedHasAuditLog`). Without them they are false,
for the reasons `CreatedHasTenant`, `AdminInOwnSchema` and `CreatedAloneIsComplete`
show. In the `tenancy` run requests to the lifecycle come one at a time, so there
the conditions on overlaps always hold; strays do happen.

### Abstract specifications

`SessionStore`, `TenantRegistry` and `UserTable` say what the controllers promise
if every request took effect at one instant; see Refinements.

### MC modules

`MCTenantLifecycle`, `MCTenantSessions`, `MCAccessControl`, `MCUserDirectory` and
`MCTenancy` give the constants their values, choose the initial inputs, bound the
mishaps and declare the symmetry sets. The
table of the seed script's permissions and roles is data of the program and is
not a parameter.

### Proof modules

`TenantLifecycleProofs` and, building on it, `TenantCompletionProofs`, on which
`TenantRegistryProofs` and `TenancyProofs` build; `TenantSessionsProofs` and,
building on it, `SessionStoreProofs`; `AccessControlProofs`;
`UserDirectoryProofs`. See Proofs.

## Runs

| run | bounds | shows |
|---|---|---|
| `lifecycle_serial` | 3 requests of any kind but at most 1 update or deactivation, one at a time, 2 connections; 2 of: a failing statement or lost reply, a restart, a stray | `ImplementsRegistry`, `CreatedIsComplete`, `RegistryAgreement`, and the inductive invariants `CompletionInv` and `SerialInv` |
| `lifecycle_concurrent` | 3 creations or hard deletions, 2 at a time, 2 connections, 1 stray unless all 3 are creations | `CreatedIsComplete`, `CreatedSurvives`, `RegistryAgreement` under races |
| `lifecycle_same_slug` | as above, 1 connection, no stray | `CreatedHasTenant` is violated |
| `lifecycle_admin` | 3 creations or hard deletions, 2 at a time, 2 connections, 1 stray | `AdminInOwnSchema` is violated |
| `lifecycle_pool` | as `lifecycle_admin` | `CreatedAloneIsComplete` is violated |
| `sessions` | 3 requests of one user, 2 connections, 3 clock values, 1 restart | `ImplementsStore`, `LogoutIsFinal`, `DeadTokensStayDead`, the inductive invariant `StoreInv`, and `EveryRequestAnswered` under fairness |
| `sessions_login` | 2 requests in one second | `LoginIsNotRefused` is violated |
| `access` | 2 runs of the seed script, 1 interruption, 1 request of any user to any route | `SeedIsComplete`, `AccessFollowsPolicy`, and the inductive invariant `Inv` |
| `users` | 3 requests of any kind, 2 tenants, 2 emails, 1 restart | `ImplementsTable`, `RecordsAreTrue`, and the inductive invariant `Inv` |
| `users_listed` | 2 requests, otherwise as `users`, no restart | `CreatedIsListed` is violated |
| `users_register` | as `users_listed` | `RegistrationSucceeds` is violated |
| `tenancy` | creations of a and b, or creation and hard delete of b; a login at b, a listing at either tenant with a token of the first creation's administrator; one run of the script; 2 connections; 1 mishap: a failing statement, a restart or a stray, with two creations only a stray | `MigratedHasAuditLog`, `ServedByOwnTenant`, `RightsMeanComplete`, the inductive invariant `ServiceInv`, and `EverybodyAnswered` under fairness |

Why the bounds are enough to be interesting: three tenant requests allow
create, delete and create again, or two racing creations followed by a
deletion. Two connections allow both ways in which a `search_path` goes wrong, two
creations that share one and one creation served by two; which SET of which
creation has which home is free. One failing statement
reaches each catch branch, and together with the restart each half-done state; a
third mishap only multiplies these. Updates and deactivations write one row each,
so one of them in a behaviour meets every state that the others leave.
Three session requests are a login and two that race, refreshes with one token or
a refresh and a logout, or a rotation whose answer is lost and a second use of the
old token. Two connections are taken by one login and its audit record, so three
requests exhaust the pool. The clock reaches expiry, and `SessionLife < TokenLife`
lets a session expire while its JWT is valid (a daylight saving change does this
with the default configuration). `LifecycleConcurrent` has no faults and no restart:
what these leave behind is in the serial run, and with both the run no longer ends
in minutes. Two seed runs are enough for every order of two statements, and a run
that follows an interrupted one; requests do not influence one another, so one is
enough. Three user requests are a creation and two that race for its row or for
its email. In `tenancy` tenant requests come one at a time, because their races
with one another are in `lifecycle_concurrent`; each may race with both clients
and the script at every statement. There a SET is always served by the first
connection, so that the second one is where a stray goes: the two are alike but for
that. A slug that is created again after a deletion is in `lifecycle_serial` only.

### What the violated properties say

* `CreatedHasTenant`: creations A and B of a slug both pass the two checks; A
  inserts the row, B's insert fails on the unique slug, B's catch block deletes
  by slug, that is A's row, and drops the schema A is filling. A may then
  still be answered 201.
* `AdminInOwnSchema`: A and B set `search_path` on the same connection one
  after the other; A's INSERTs then go to B's schema.
* `CreatedAloneIsComplete`: no other request to the controller is in flight. The
  creation's SET and its INSERTs of role and user are served by one connection, and
  its INSERT into `user_roles` by another, with the default `search_path`: it
  selects from `public.roles`, which is empty, inserts nothing and reports no error.
  The creation is answered 201, and its administrator has no role. In other
  positions a stray fails (and the cleanup runs), or finds the table in the public
  schema and leaves it out of the tenant's.
* `LoginIsNotRefused`: two logins in a second sign equal refresh tokens; the
  second INSERT violates the UNIQUE constraint.
* `CreatedIsListed`: `create` writes `public.users`, `findAll` and login read the
  tenant's own table; a user created with success is never listed and cannot
  log in.
* `RegistrationSucceeds`: `register` inserts its user into `public.users` and its
  session into the tenant's `sessions`, whose foreign key is to the tenant's own
  `users`. Every registration of a new email is refused with an internal error,
  where the controller and `docs/TESTING_GUIDE.md:54-69` promise 201.

Two more disagreements have no run of their own. `scripts/verify-audit.ts:113`
looks for the DELETE record of a user by that user's id; `remove` answers with a
message only, so the interceptor finds no id there: `RecordsAreTrue` says that the
record of a removal names nobody. `docs/TESTING_GUIDE.md:272-275` registers one
email in two tenants; the Prisma model `User` is one table with a unique email for
all of them, as `UserTable` says, and no such registration succeeds in either.

### Refinements

A refinement is checked as a property of a run: every step of the detailed
module is a step of the abstract one or leaves its variables unchanged.

* `ImplementsStore`: TenantSessions implements `SessionStore`, where a request takes
  effect at one instant before its answer: login and
  refresh give a session a token of its user that no other session holds, logout
  ends all sessions its user had when it was asked for. A request answered with
  success has taken effect; one that is refused or lost may have, before that
  and not afterwards. The rows are mapped as they are; `Answer` turns `pc`
  into pending, ok or refused. The abstract refresh may renew nothing, if its
  user has logged out: that is a refresh followed by the logout.
* `ImplementsRegistry`: TenantLifecycle implements `TenantRegistry` as long as no
  two requests have overlapped and no creation has strayed (`Quiet`). `Phase` maps
  a slug to free (no row, no schema), served (row and complete schema) or stuck
  (anything else); while a
  creation is under way its slug counts as what it was before. A failed creation
  may leave its own slug stuck, or served if it was cut off just before its
  answer, and never touches another slug; stuck slugs conflict until a hard
  delete. A hard delete takes two steps, because its DROP and its DELETE commit
  one after the other, and one whose reply is lost may have finished. Once requests
  overlap or a creation strays the refinement fails, as `CreatedHasTenant` and
  `CreatedAloneIsComplete` show.
* `ImplementsTable`: UserDirectory implements `UserTable`, where each request
  takes effect at one instant before its answer, with the same reading of refused
  requests. The proof obligation TLC discharges is that a check
  before a write is either still true at the commit or leads to a refusal.
  `UserTable` admits successful registrations. UserDirectory has none, since the
  session a registration inserts references a user the tenant does not have; a
  refinement does not ask for them, `RegistrationSucceeds` does and is violated.

### Fairness

`sessions` assumes weak fairness of each request's statements
and of its timers. PostgreSQL runs a statement that can run and the event loop
resumes its continuation; Prisma arms both timers for every transaction.
Arrival of requests, ticks of the clock and restarts are not fair. Without the
timers the property fails: logins that hold all connections wait for a second
one each.

`tenancy` assumes the same of the statements of tenant requests and of clients
and of the clients' timers; not of the script, which is not needed, nor of
failures. If the timer did not reach a login that waits for its audit record, a
DROP and that login would wait for each other for ever.

## Proofs

`TenantLifecycleProofs` proves for every set of requests, slugs, domains and
connections, and every value of the bounds:

* `TypeCorrect`: `Spec => []TypeOK`.
* `RegistryAgrees`: `Spec => []RegistryAgreement`.
* `CreatedTenantSurvives`: `Spec => []CreatedSurvives`.

The assumptions are those of the module: inputs are of the three record types,
`SchemaOf` is injective into the tenant schemas (the DTO's slug pattern makes
the replacement of hyphens injective), an absent optional field (`None`) is
neither a schema nor a request, and bounds are naturals.

Neither property is inductive. `Inv` adds: what the control state of a request
says about its input and its `schemaName` (`ControlOK`, `NamesOK`); that a row
is that of its creator and schemas are unique (`RowsOK`); that requests in
flight know each other (`PeersOK`); per schema, how far the one request that
works on it has come, as long as nobody raced or was cut off (`WorkOK` with
`Progress`); and per creation, that its row and schema are there from the
statement that made them (`KeepOK`). The argument in one line: a schema has at
most one worker unless `Raced` holds, a worker's `Progress` describes registry
and catalog exactly, and handing over to nobody re-establishes agreement. The
proof has one step per action, and `lifecycle_serial` checks `Inv` as an
invariant.

`TenantSessionsProofs` proves for every set of requests, users and inputs, every
pool, every lifetime of tokens and sessions, and every bound:

* `TypeCorrect`: `Spec => []TypeOK`.
* `LogoutFinal`: `Spec => []LogoutIsFinal`.

The assumptions are again those of the module: inputs name an operation and a
user, bounds are naturals, `None` is no request. Its `Inv` adds to the types:
which operations pass through which label (`ControlOK`); that a session, a token
and the session a refresh found belong to the user of their request (`TokensOK`,
`SessionsOK`, `FoundOK`), and that a session is there only once its login has
committed; that a request that has committed never does so again (`CommitOK`); that
a row lock is on a live row and its holder is a refresh about to
commit or a logout past its DELETE (`LocksOK`); and that of the sessions a logout
must end each is gone, or among the rows its DELETE is waiting for, or locked by
it (`LogoutOK`). The last part is the argument: the DELETE waits for every
refresh that has written one of its rows, then holds all locks until it commits;
a refresh that comes later waits for it and then finds no row, so nothing writes
a row that is gone. `UpsertSession`, a mutant that would, breaks `LocksOK`. The
proof has one lemma per action and one step per part of `Inv`, and the `sessions`
run checks `Inv`.

`TenantCompletionProofs` proves, for pools of any size and every value of the
constants, requests in any number, overlaps and strays included:

* `CompletionInvariant`: `Spec => []CompletionInv`.
* `CreationComplete`: `Spec => []CreatedIsComplete`.

The property itself has conditions: no other request overlapped the creation, and
none of its statements was served off its home (`Steady`). Without the
first, `AdminInOwnSchema` shows what happens, without the second
`CreatedAloneIsComplete`. Neither limits what happens to the database before,
after, or in other schemas: other creations may stray, fail and be cut off.

`CompletionInv` adds to the `Inv` of TenantLifecycle: a schema that does not
exist is empty (`VacantOK`); a creation reaches its migration at the first table
(`StartOK`), and has a home while it is on a path (`HomeOK`); the schema of a steady
creation that nobody overlaps holds exactly what its statements so far have put
there, while its home resolves names to it (`FilledOK`); where the admin of such a
creation holds the role, the tenant is complete, and nobody who creates another one
works on its schema or has a home that resolves names to it (`GrantedOK`); and after
the answer the admin holds it until a hard delete of that tenant (`HeldOK`). The
grant is the last write of a creation, so it stands for completeness, and unlike
the label of the request it survives a restart and is what `JwtStrategy.validate`
later reads. Before the answer the request is alone, so each of its statements
writes where the previous one did. After it, no later request SETs a connection to
that schema, and none drops it unless it is a hard delete of that tenant. A
connection may still resolve names to it, left by a creation cut off on another
connection; a later creation that strays there adds to the schema and takes nothing
away, so completeness stays and only `Unmixed` needs that nothing strayed.

`TenantRegistryProofs` proves, for every value of the constants:

* `SerialInvariant`: `Spec => []SerialInv`.
* `RegistryImplemented`: `Spec => ImplementsRegistry`.

`SerialInv` adds to `CompletionInv` that, as long as `Quiet` holds, at most one
request is in flight and knows the
rows of its slug (`AloneOK`): there is none when a creation inserts its own, its
cleanup finds that one only, and a row that was found is there until its request
deletes it. `Quiet` only ever ends, so where it holds after a step it held before
(`QuietBefore`). `Mapped` says what the mapping makes of a slug: free while its
creation is under way, otherwise what row and schema say. The simulation has one
lemma per
kind of step: a statement touches only the slug whose schema it addresses
(`SlugElsewhere`); statements between the checks and the answer of a creation are
stutters (`InnerRefines`); the RESET that ends a creation is `Create`, because
`FilledOK` then says that the tenant is complete; a failed statement, a failed
cleanup or a restart is `FailToCreate`, with whatever row and schema are left
(`Leaves`); DROP and DELETE are `Withdraw` and `Delete`, the latter also when its
reply is lost.

`TenancyProofs` proves for the composition, for every set of requests, clients,
connections and every bound, however requests overlap or stray:

* `TenancyTypes`: `TenancySpec => []TenancyTypeOK`.
* `MigrationReported`: `TenancySpec => []MigratedHasAuditLog`.
* `TenancyKeeps`: `TenancySpec => [](RegistryAgreement /\ CreatedSurvives)`.
* `ServiceInvariance`: `TenancySpec => []ServiceInv`.
* `ServedByOwn`: `TenancySpec => []ServedByOwnTenant`.
* `RightsComplete`: `TenancySpec => RightsMeanComplete`.

The script and the clients do not write what `Inv` is about, except that the
script adds `audit_logs` to a schema with users; this is why `FilledOK` allows that
table early. `MigrationInv` says that the script works on rows that a creation
inserted, on the schema it names (`ScriptOK`), and that while a row of an
undisturbed creation stands, whoever else works on its schema manages that tenant
(`RowOK`): so between the CREATE TABLE and the moment the property is about,
nobody drops the schema. `TenancyInv` adds the labels of the clients
(`ClientOK`). `ServiceInv` adds `CompletionInv`; that a role the check of a token has
found stays until its transaction ends, since a DROP waits for it (`RoleOK`); and
that behind the check the context's schema is that of the token's tenant
(`HandledOK`). Nothing is assumed about when tokens are given out: a token may be of
any administrator, in any state of its creation. The argument is the role: where
the check finds it, `GrantedOK` says that the schema is the tenant's own and
complete and that its creation had come to its last statement. The listing, in a
later transaction, still finds it so unless a hard delete has begun (`ListedOK`).

`SessionStoreProofs` proves, from the assumptions of TenantSessions:

* `StoreInvariance`: `Spec => []StoreInv`.
* `DeadStayDead`: `Spec => []DeadTokensStayDead`.
* `StoreImplemented`: `Spec => ImplementsStore`.

`StoreInv` adds to the `Inv` of TenantSessions: who holds a token signed one
(`SignedOK`); a token that was dead when it was presented is dead still, and its
refresh gets no further than the SELECT (`StaleOK`); a token that is written and
not committed is in no other row (`WritersOK`); a refresh has its session, or the
lock on it, unless its user logged out (`LostOK`); a logout works on sessions of
its own user (`TargetsOK`). A dead token was signed in an earlier second and no
request in flight holds it; tokens are signed with the present second, so no
later login or refresh produces it again.
The simulation maps each commit to the abstract operation, arrivals and answers to
theirs, and every other step to a stutter; a restart refuses everybody in flight,
whether or not it has committed.

`AccessControlProofs` proves for any number of seed runs, interruptions and
requests, and any initial users:

* `TypeCorrect`: `Spec => []TypeOK`; in particular no run leaves its lists.
* `Invariance`: `Spec => []Inv`.
* `SeedComplete`: `Spec => []SeedIsComplete`.
* `PolicyFollowed`: `Spec => []AccessFollowsPolicy`.

`Inv` says that nothing undocumented is ever granted (`GrantsOK`), that each run
has inserted its lists up to the next entry (`ProgressOK`), and that what a
request has read is documented, and complete if it came after a completed run
(`RequestOK`). Since the script only inserts, what one run has put there stays
while others run, and a request that reads in between reads a part of the policy.

`UserDirectoryProofs` proves for every set of requests, tenants, emails and
inputs and every bound:

* `TypeCorrect`: `Spec => []TypeOK`.
* `DirectoryInvariant`: `Spec => []Inv`.
* `RecordsTrue`: `Spec => []RecordsAreTrue`.
* `TableImplemented`: `Spec => ImplementsTable`.

`Inv` says which operations pass through which label (`ControlOK`), that a request
commits once and before it is answered (`CommitOK`), that a row is
that of a committed creation (`RowsOK`), that a transaction that has written
holds the lock of a row that is there (`LocksOK`), that the email it wrote is
nobody else's (`EmailsOK`), and that a record is that of an answered call
(`RecordsOK`). Row and email have one writer from the write to the commit, so
what the write found still holds when it takes effect, and the commit is the
abstract step. A registration never gets that far: the session it inserts
references a user the tenant does not have.

Every invariant and every action property of the passing runs, and the three
refinements, are stated by a theorem, for every value of the constants. Only
model-checked: the two liveness
properties `EveryRequestAnswered` and `EverybodyAnswered`, because liveness under
fairness is outside TLAPS.

## Not modelled

* `findAll` and `findBySlug` of tenants, and the audit queries, change nothing.
* Health, configuration, bootstrap and rate limits have no state the properties
  need. The verification scripts are clients for manual tests.
* The audit records of the tenants controller take the way of those of the users
  controller, which are modelled.
* A RESET that fails in the migration script ends the script in the catch block
  of `main`; statements of the script do not fail otherwise, except for a
  schema that is missing or incomplete.
* A DROP SCHEMA whose process dies while it waits goes on in PostgreSQL or not,
  depending on when the server notices; `Restart` does not happen meanwhile.
* Which query keeps a connection busy when a creation strays, and a second stray of
  one creation: one is enough to break what can be broken, and the properties exempt
  a creation from the first on.
* Logins of `TenantRequests` do not write sessions; those of `TenantSessions` do.

## Plan

All components with state are modelled, and what the runs check of safety is
proved. What is left: the refinement of the registry beside the script and
the clients.
