--------------------------- MODULE AccessControl ---------------------------
(***************************************************************************)
(* Roles and permissions of one tenant: how prisma/seeds/seed.ts fills     *)
(* them in, how JwtStrategy.validate reads them, and how RolesGuard and    *)
(* PermissionsGuard decide about the routes of the controllers.            *)
(*                                                                         *)
(* Seeding is a sequence of statements that commit one by one; it may be   *)
(* killed anywhere, run again, and run twice at a time.  Validation is a   *)
(* READ COMMITTED transaction, so each of its statements may see another   *)
(* state of the seeding.                                                   *)
(***************************************************************************)
EXTENDS Naturals, Sequences

CONSTANTS
    Seeder,    \* processes that run the seed script
    Request,   \* requests to routes that are not public
    MaxKills   \* bound: interrupted runs of the seed script

ASSUME BoundAssumption == MaxKills \in Nat

RoleNames == <<"SUPER_ADMIN", "ADMIN", "MANAGER", "USER">>
Role == {"SUPER_ADMIN", "ADMIN", "MANAGER", "USER"}

Perm(res, act) == [resource |-> res, action |-> act]
PermissionList ==
    << Perm("users", "create"), Perm("users", "read"), Perm("users", "update"),
       Perm("users", "delete"), Perm("users", "list"),
       Perm("roles", "create"), Perm("roles", "read"), Perm("roles", "update"),
       Perm("roles", "delete"), Perm("roles", "assign"),
       Perm("permissions", "create"), Perm("permissions", "read"),
       Perm("permissions", "update"), Perm("permissions", "delete"),
       Perm("permissions", "assign") >>
Permission == {PermissionList[i] : i \in 1..Len(PermissionList)}

\* The WHERE clause of each INSERT INTO role_permissions ... SELECT.
Selects(role, p) ==
    \/ role = "SUPER_ADMIN"
    \/ role = "ADMIN" /\ p.action \in {"create", "read", "update", "list", "assign"}
    \/ role = "MANAGER" /\ p.action \in {"read", "update", "list"} /\ p.resource = "users"
    \/ role = "USER" /\ p.action = "read"

\* The seeded test users, each named by its role, and the tenant's first
\* administrator, whom TenantService.create makes a SUPER_ADMIN.
User == Role \cup {"owner"}

----------------------------------------------------------------------------
(* The guards *)

Guards(rs, ps) == [roles |-> rs, permissions |-> ps]

\* @Roles and @Permissions of the routes that are not @Public.
Decorators ==
    [ listTenants    |-> Guards({"SUPER_ADMIN"}, {}),
      getTenant      |-> Guards({"SUPER_ADMIN", "ADMIN"}, {}),
      updateTenant   |-> Guards({"SUPER_ADMIN"}, {}),
      removeTenant   |-> Guards({"SUPER_ADMIN"}, {}),
      hardDelete     |-> Guards({"SUPER_ADMIN"}, {}),
      listUsers      |-> Guards({}, {Perm("users", "read")}),
      getUser        |-> Guards({}, {Perm("users", "read")}),
      createUser     |-> Guards({"ADMIN", "SUPER_ADMIN"}, {}),
      updateUser     |-> Guards({}, {Perm("users", "update")}),
      removeUser     |-> Guards({"SUPER_ADMIN"}, {Perm("users", "delete")}),
      profile        |-> Guards({}, {}),
      listAuditLogs  |-> Guards({"ADMIN", "SUPER_ADMIN", "MANAGER"}, {}),
      myAuditLogs    |-> Guards({}, {}),
      getAuditLog    |-> Guards({"ADMIN", "SUPER_ADMIN", "MANAGER"}, {}),
      logout         |-> Guards({}, {}),
      health         |-> Guards({}, {}) ]
Route == DOMAIN Decorators

\* Mutant of RolesGuard: every required role instead of some.
RolesGuardEvery(route, rs) == Decorators[route].roles \subseteq rs

\* One of the required roles, if any is required.
RolesGuard(route, rs) ==
    Decorators[route].roles = {} \/ Decorators[route].roles \cap rs # {}

\* All required permissions; SUPER_ADMIN passes without.
PermissionsGuard(route, rs, ps) ==
    "SUPER_ADMIN" \in rs \/ Decorators[route].permissions \subseteq ps

----------------------------------------------------------------------------
VARIABLES
    roles,        \* names in "roles"
    permissions,  \* rows of "permissions"
    rolePerms,    \* rows of "role_permissions"
    users,        \* rows of "users"
    userRoles,    \* rows of "user_roles"
    stage,        \* what each run of the script inserts next, or its end
    at,           \* index into the list that the stage goes through
    kills,        \* interrupted runs so far
    pc,           \* next step of each request, or its outcome
    user,         \* the user its access token names
    heldRoles,    \* roles that validate read
    unread,       \* those of them whose permissions it has yet to read
    heldPerms,    \* permissions that validate read
    route,        \* the route it asks for
    late          \* history: requests that arrived after a completed seeding

content == <<roles, permissions, rolePerms, users, userRoles>>
seeding == <<content, stage, at, kills>>
request == <<pc, user, heldRoles, unread, heldPerms, route, late>>
vars == <<seeding, request>>

Stage == {"roles", "permissions", "grants", "user", "assign"}
Outcome == {"allowed", "forbidden", "unauthorized"}

TypeOK ==
    /\ roles \subseteq Role
    /\ permissions \subseteq Permission
    /\ rolePerms \subseteq roles \X permissions
    /\ users \subseteq User
    /\ userRoles \subseteq users \X roles
    /\ stage \in [Seeder -> Stage \cup {"idle", "done"}]
    /\ at \in [Seeder -> Nat]
    /\ \A s \in Seeder : at[s] \in 1..(IF stage[s] = "permissions"
                                       THEN Len(PermissionList) ELSE Len(RoleNames))
    /\ kills \in 0..MaxKills
    /\ pc \in [Request -> {"idle", "user", "roles", "permissions", "guards"} \cup Outcome]
    /\ user \in [Request -> User]
    /\ heldRoles \in [Request -> SUBSET Role]
    /\ unread \in [Request -> SUBSET Role]
    /\ \A r \in Request : unread[r] \subseteq heldRoles[r]
    /\ heldPerms \in [Request -> SUBSET Permission]
    /\ route \in [Request -> Route]
    /\ late \subseteq Request

\* The schema has its tables only (prisma db push), or is that of a tenant
\* created through the API.
Init ==
    /\ \/ roles = {} /\ users = {} /\ userRoles = {}
       \/ roles = {"SUPER_ADMIN"} /\ users = {"owner"}
          /\ userRoles = {<<"owner", "SUPER_ADMIN">>}
    /\ permissions = {}
    /\ rolePerms = {}
    /\ stage = [s \in Seeder |-> "idle"]
    /\ at = [s \in Seeder |-> 1]
    /\ kills = 0
    /\ pc = [r \in Request |-> "idle"]
    /\ user \in [Request -> User]
    /\ heldRoles = [r \in Request |-> {}]
    /\ unread = [r \in Request |-> {}]
    /\ heldPerms = [r \in Request |-> {}]
    /\ route = [r \in Request |-> "profile"]
    /\ late = {}

----------------------------------------------------------------------------
(* seed.ts *)

Goto(s, next, i) ==
    /\ stage' = [stage EXCEPT ![s] = next]
    /\ at' = [at EXCEPT ![s] = i]

\* The next entry of a list of n, or the next stage.
Advance(s, n, next) ==
    IF at[s] < n THEN Goto(s, stage[s], at[s] + 1) ELSE Goto(s, next, 1)

\* Mutant of Start: roles that are there already are taken for a seeded tenant's.
StartUnlessSeeded(s) ==
    /\ stage[s] = "idle"
    /\ Goto(s, IF roles = {} THEN "roles" ELSE "permissions", 1)
    /\ UNCHANGED <<content, kills, request>>

Start(s) ==
    /\ stage[s] = "idle"
    /\ Goto(s, "roles", 1)
    /\ UNCHANGED <<content, kills, request>>

SeedRole(s) ==
    /\ stage[s] = "roles"
    /\ roles' = roles \cup {RoleNames[at[s]]}
    /\ Advance(s, Len(RoleNames), "permissions")
    /\ UNCHANGED <<permissions, rolePerms, users, userRoles, kills, request>>

\* Mutant of SeedPermission: the list left one entry too late.
SeedPermissionPastEnd(s) ==
    /\ stage[s] = "permissions"
    /\ permissions' = permissions \cup {PermissionList[at[s]]}
    /\ Advance(s, Len(PermissionList) + 1, "grants")
    /\ UNCHANGED <<roles, rolePerms, users, userRoles, kills, request>>

SeedPermission(s) ==
    /\ stage[s] = "permissions"
    /\ permissions' = permissions \cup {PermissionList[at[s]]}
    /\ Advance(s, Len(PermissionList), "grants")
    /\ UNCHANGED <<roles, rolePerms, users, userRoles, kills, request>>

\* One INSERT ... SELECT over the roles and permissions that are there.
SeedGrants(s) ==
    LET role == RoleNames[at[s]]
    IN /\ stage[s] = "grants"
       /\ rolePerms' = rolePerms
              \cup ((roles \cap {role}) \X {p \in permissions : Selects(role, p)})
       /\ Advance(s, Len(RoleNames), "user")
       /\ UNCHANGED <<roles, permissions, users, userRoles, kills, request>>

\* An upsert that returns the id of the user, new or not.
SeedUser(s) ==
    /\ stage[s] = "user"
    /\ users' = users \cup {RoleNames[at[s]]}
    /\ Goto(s, "assign", at[s])
    /\ UNCHANGED <<roles, permissions, rolePerms, userRoles, kills, request>>

AssignRole(s) ==
    LET role == RoleNames[at[s]]
    IN /\ stage[s] = "assign"
       /\ userRoles' = userRoles \cup ({role} \X (roles \cap {role}))
       /\ IF at[s] < Len(RoleNames) THEN Goto(s, "user", at[s] + 1) ELSE Goto(s, "done", 1)
       /\ UNCHANGED <<roles, permissions, rolePerms, users, kills, request>>

\* A statement fails or the process is killed; the script may be run again.
Kill(s) ==
    /\ stage[s] \in Stage
    /\ kills < MaxKills
    /\ kills' = kills + 1
    /\ Goto(s, "idle", 1)
    /\ UNCHANGED <<content, request>>

Seed(s) ==
    \/ Start(s) \/ SeedRole(s) \/ SeedPermission(s) \/ SeedGrants(s)
    \/ SeedUser(s) \/ AssignRole(s) \/ Kill(s)

----------------------------------------------------------------------------
(* A request: JwtAuthGuard with JwtStrategy.validate, then the guards *)

\* A request with a valid access token, of this tenant or of another one.
Arrive(r) ==
    /\ pc[r] = "idle"
    /\ pc' = [pc EXCEPT ![r] = "user"]
    /\ late' = IF \E s \in Seeder : stage[s] = "done" THEN late \cup {r} ELSE late
    /\ UNCHANGED <<seeding, user, heldRoles, unread, heldPerms, route>>

ReadUser(r) ==
    /\ pc[r] = "user"
    /\ pc' = [pc EXCEPT ![r] = IF user[r] \in users THEN "roles" ELSE "unauthorized"]
    /\ UNCHANGED <<seeding, user, heldRoles, unread, heldPerms, route, late>>

ReadRoles(r) ==
    LET held == {x \in Role : <<user[r], x>> \in userRoles}
    IN /\ pc[r] = "roles"
       /\ heldRoles' = [heldRoles EXCEPT ![r] = held]
       /\ unread' = [unread EXCEPT ![r] = held]
       /\ pc' = [pc EXCEPT ![r] = IF held = {} THEN "guards" ELSE "permissions"]
       /\ UNCHANGED <<seeding, user, heldPerms, route, late>>

\* The permissions of one role after the other.
ReadPermissions(r) ==
    /\ pc[r] = "permissions"
    /\ \E x \in unread[r] :
        /\ heldPerms' = [heldPerms EXCEPT ![r] = @ \cup {p \in Permission : <<x, p>> \in rolePerms}]
        /\ unread' = [unread EXCEPT ![r] = @ \ {x}]
        /\ pc' = [pc EXCEPT ![r] = IF unread[r] = {x} THEN "guards" ELSE "permissions"]
    /\ UNCHANGED <<seeding, user, heldRoles, route, late>>

\* The guards of the route, of which nothing so far depended on which it is.
Decide(r) ==
    /\ pc[r] = "guards"
    /\ \E x \in Route :
        /\ route' = [route EXCEPT ![r] = x]
        /\ pc' = [pc EXCEPT ![r] =
                    IF /\ RolesGuard(x, heldRoles[r])
                       /\ PermissionsGuard(x, heldRoles[r], heldPerms[r])
                    THEN "allowed" ELSE "forbidden"]
    /\ UNCHANGED <<seeding, user, heldRoles, unread, heldPerms, late>>

Serve(r) ==
    Arrive(r) \/ ReadUser(r) \/ ReadRoles(r) \/ ReadPermissions(r) \/ Decide(r)

\* Every run of the script is over and every request is answered.
Finished ==
    /\ \A s \in Seeder : stage[s] = "done"
    /\ \A r \in Request : pc[r] \in Outcome
    /\ UNCHANGED vars

Next == (\E s \in Seeder : Seed(s)) \/ (\E r \in Request : Serve(r)) \/ Finished

Spec == Init /\ [][Next]_vars

----------------------------------------------------------------------------
(* Properties *)

\* The summary of src/docs/QUICKSTART.md:173-178.
Documented(role) ==
    CASE role = "SUPER_ADMIN" -> Permission
      [] role = "ADMIN" -> {p \in Permission : p.action # "delete"}
      [] role = "MANAGER" -> {Perm("users", a) : a \in {"read", "update", "list"}}
      [] role = "USER" -> {p \in Permission : p.action = "read"}

\* A run of the seed script that ends leaves every role, permission, grant and
\* test user of the documentation and none besides, whatever other runs were
\* interrupted before or are under way, on an empty schema or a new tenant's.
\* (seed.ts 14-185)
SeedIsComplete ==
    (\E s \in Seeder : stage[s] = "done") =>
        /\ roles = Role
        /\ permissions = Permission
        /\ rolePerms = UNION {{role} \X Documented(role) : role \in Role}
        /\ users \cup {"owner"} = User
        /\ \A u \in users \ {"owner"}, x \in Role : <<u, x>> \in userRoles <=> u = x

RoleOf(u) == IF u = "owner" THEN "SUPER_ADMIN" ELSE u

\* What the documentation lets a user do on a route.
Entitled(u, x) ==
    /\ Decorators[x].roles = {} \/ RoleOf(u) \in Decorators[x].roles
    /\ Decorators[x].permissions \subseteq Documented(RoleOf(u))

\* Nobody passes the guards without being entitled to, although roles and
\* permissions are read one statement at a time while they are being seeded;
\* and whoever arrives after a completed seeding is not refused what they are
\* entitled to.  (JwtStrategy.validate 28-74, RolesGuard 9-41,
\* PermissionsGuard 9-62)
AccessFollowsPolicy ==
    \A r \in Request :
        /\ pc[r] = "allowed" => Entitled(user[r], route[r])
        /\ pc[r] = "forbidden" /\ r \in late => ~Entitled(user[r], route[r])

----------------------------------------------------------------------------
(* The inductive invariant behind SeedIsComplete and AccessFollowsPolicy *)

\* Nothing is granted or assigned that the documentation does not name.
GrantsOK ==
    /\ \A g \in rolePerms : g[2] \in Documented(g[1])
    /\ \A a \in userRoles : a[2] = RoleOf(a[1])
    /\ "owner" \in users => <<"owner", "SUPER_ADMIN">> \in userRoles

Granted(role) == {role} \X Documented(role) \subseteq rolePerms
Assigned(u) == u \in users /\ <<u, u>> \in userRoles

\* A run of the script has inserted the entries of its list up to the one that
\* is next, and all of the lists before, whoever else inserts and is killed.
Progress(s) ==
    /\ \A i \in 1..at[s] - 1 :
        /\ stage[s] = "roles" => RoleNames[i] \in roles
        /\ stage[s] = "permissions" => PermissionList[i] \in permissions
        /\ stage[s] = "grants" => Granted(RoleNames[i])
        /\ stage[s] \in {"user", "assign"} => Assigned(RoleNames[i])
    /\ stage[s] \in {"permissions", "grants", "user", "assign", "done"} => roles = Role
    /\ stage[s] \in {"grants", "user", "assign", "done"} => permissions = Permission
    /\ stage[s] \in {"user", "assign", "done"} => \A role \in Role : Granted(role)
    /\ stage[s] = "assign" => RoleNames[at[s]] \in users
    /\ stage[s] = "done" => \A role \in Role : Assigned(role)

ProgressOK == \A s \in Seeder : Progress(s)

\* What a request read of its user's role and permissions is documented; and
\* if it came after a completed seeding, nothing of it is missing.
RequestOK ==
    \A r \in Request :
        /\ heldRoles[r] \subseteq {RoleOf(user[r])}
        /\ heldPerms[r] \subseteq Documented(RoleOf(user[r]))
        /\ r \in late => \E s \in Seeder : stage[s] = "done"
        /\ pc[r] = "roles" => user[r] \in users
        /\ pc[r] \in {"permissions", "guards"} /\ r \in late =>
              /\ heldRoles[r] = {RoleOf(user[r])}
              /\ unread[r] = {} => heldPerms[r] = Documented(RoleOf(user[r]))
        /\ pc[r] = "guards" => unread[r] = {}

Inv == TypeOK /\ GrantsOK /\ ProgressOK /\ RequestOK /\ AccessFollowsPolicy
=============================================================================
