------------------------ MODULE AccessControlProofs ------------------------
(***************************************************************************)
(* Theorems about AccessControl, for any number of seed runs, requests and *)
(* interruptions.                                                          *)
(***************************************************************************)
EXTENDS AccessControl, TLAPS

USE DEF content, seeding, request

----------------------------------------------------------------------------
(* The lists of the script and the documentation *)

LEMMA Names ==
    /\ Len(RoleNames) = 4
    /\ \A i \in 1..4 : RoleNames[i] \in Role
    /\ \A role \in Role : \E i \in 1..4 : RoleNames[i] = role
<1>1. /\ RoleNames[1] = "SUPER_ADMIN" /\ RoleNames[2] = "ADMIN"
      /\ RoleNames[3] = "MANAGER" /\ RoleNames[4] = "USER" /\ Len(RoleNames) = 4
  BY DEF RoleNames
<1>2. \A i \in 1..4 : i = 1 \/ i = 2 \/ i = 3 \/ i = 4
  OBVIOUS
<1> QED
  BY <1>1, <1>2 DEF Role

LEMMA Entries ==
    /\ Len(PermissionList) = 15
    /\ \A i \in 1..15 : PermissionList[i] \in Permission
    /\ \A p \in Permission : \E i \in 1..15 : PermissionList[i] = p
<1>1. Len(PermissionList) = 15
  BY DEF PermissionList
<1> QED
  BY <1>1 DEF Permission

LEMMA Permissions ==
    Permission =
        {Perm("users", a) : a \in {"create", "read", "update", "delete", "list"}}
        \cup {Perm(res, a) : res \in {"roles", "permissions"},
                            a \in {"create", "read", "update", "delete", "assign"}}
BY DEF Permission, PermissionList, Perm

LEMMA Documents ==
    /\ Documented("SUPER_ADMIN") = Permission
    /\ Documented("ADMIN") = {p \in Permission : p.action # "delete"}
    /\ Documented("MANAGER") = {Perm("users", a) : a \in {"read", "update", "list"}}
    /\ Documented("USER") = {p \in Permission : p.action = "read"}
BY DEF Documented

\* What each INSERT ... SELECT selects is what the documentation lists.
LEMMA SelectsDocumented ==
    ASSUME NEW role \in Role
    PROVE  {p \in Permission : Selects(role, p)} = Documented(role)
<1>1. CASE role = "SUPER_ADMIN"
  BY <1>1, Documents DEF Selects
<1>2. CASE role = "ADMIN"
  BY <1>2, Documents, Permissions DEF Selects, Perm
<1>3. CASE role = "MANAGER"
  BY <1>3, Documents, Permissions DEF Selects, Perm
<1>4. CASE role = "USER"
  BY <1>4, Documents DEF Selects
<1> QED
  BY <1>1, <1>2, <1>3, <1>4 DEF Role

LEMMA RolesOfUsers ==
    \A u \in User : RoleOf(u) \in Role
BY DEF RoleOf, User, Role

LEMMA DocumentedPermissions ==
    \A role \in Role : Documented(role) \subseteq Permission
BY SelectsDocumented

LEMMA DecoratedPermissions ==
    \A x \in Route : Decorators[x].permissions \subseteq Permission
BY Permissions DEF Route, Decorators, Guards, Perm

----------------------------------------------------------------------------
(* A statement of the script adds to the tables, and what others have done *)
(* and read remains true.                                                  *)

Adds ==
    /\ roles \subseteq roles' /\ roles' \subseteq Role
    /\ permissions \subseteq permissions' /\ permissions' \subseteq Permission
    /\ rolePerms \subseteq rolePerms'
    /\ users \subseteq users'
    /\ userRoles \subseteq userRoles'

\* The run s moves on and the others stay where they are.
Moves(s) ==
    /\ stage[s] # "done"
    /\ \A q \in Seeder \ {s} : stage'[q] = stage[q] /\ at'[q] = at[q]
    /\ UNCHANGED request

LEMMA OthersProgress ==
    ASSUME Inv, Adds, NEW s \in Seeder, Moves(s), Progress(s)'
    PROVE  ProgressOK'
<1> SUFFICES ASSUME NEW q \in Seeder, q # s
             PROVE  Progress(q)'
  BY DEF ProgressOK
<1>1. stage'[q] = stage[q] /\ at'[q] = at[q] /\ Progress(q)
  BY DEF Moves, Inv, ProgressOK
<1>2. \A role : Granted(role) => Granted(role)'
  BY DEF Adds, Granted
<1>3. \A u : Assigned(u) => Assigned(u)'
  BY DEF Adds, Assigned
<1>4. /\ roles = Role => roles' = Role
      /\ permissions = Permission => permissions' = Permission
  BY DEF Adds
<1> QED
  BY <1>1, <1>2, <1>3, <1>4 DEF Adds, Progress

LEMMA RequestsKept ==
    ASSUME Inv, Adds, NEW s \in Seeder, Moves(s)
    PROVE  RequestOK' /\ AccessFollowsPolicy'
<1>1. ASSUME NEW q \in Seeder, stage[q] = "done"
      PROVE  stage'[q] = "done"
  BY <1>1 DEF Moves
<1>2. RequestOK'
  BY <1>1 DEF Inv, RequestOK, Adds, Moves
<1>3. AccessFollowsPolicy'
  BY DEF Inv, AccessFollowsPolicy, Moves
<1> QED
  BY <1>2, <1>3

LEMMA AdvanceMoves ==
    ASSUME TypeOK, NEW s \in Seeder, NEW n \in Nat, NEW next,
           Advance(s, n, next)
    PROVE  /\ stage'[s] = (IF at[s] < n THEN stage[s] ELSE next)
           /\ at'[s] = (IF at[s] < n THEN at[s] + 1 ELSE 1)
           /\ \A q \in Seeder \ {s} : stage'[q] = stage[q] /\ at'[q] = at[q]
BY DEF TypeOK, Advance, Goto

----------------------------------------------------------------------------
(* Each statement of the script keeps the invariant. *)

LEMMA StartStep ==
    ASSUME Inv, NEW s \in Seeder, Start(s)
    PROVE  Inv'
<1>1. Adds /\ Moves(s)
  BY DEF Inv, TypeOK, Start, Goto, Adds, Moves
<1>2. TypeOK'
  BY Names DEF Inv, TypeOK, Start, Goto, Stage
<1>3. GrantsOK'
  BY DEF Inv, GrantsOK, Start
<1>4. Progress(s)'
  BY DEF Inv, TypeOK, Start, Goto, Progress
<1> QED
  BY <1>1, <1>2, <1>3, <1>4, OthersProgress, RequestsKept DEF Inv

LEMMA SeedRoleStep ==
    ASSUME Inv, NEW s \in Seeder, SeedRole(s)
    PROVE  Inv'
<1>1. stage[s] = "roles" /\ at[s] \in 1..4 /\ RoleNames[at[s]] \in Role
  BY Names DEF Inv, TypeOK, SeedRole
<1>2. /\ stage'[s] = (IF at[s] < 4 THEN "roles" ELSE "permissions")
      /\ at'[s] = (IF at[s] < 4 THEN at[s] + 1 ELSE 1)
      /\ \A q \in Seeder \ {s} : stage'[q] = stage[q] /\ at'[q] = at[q]
  BY <1>1, Names, AdvanceMoves DEF Inv, SeedRole
<1>3. Adds /\ Moves(s)
  BY <1>1, <1>2 DEF Inv, TypeOK, SeedRole, Adds, Moves
<1>4. TypeOK'
  BY <1>1, <1>2, Names, Entries DEF Inv, TypeOK, SeedRole, Advance, Goto, Stage
<1>5. GrantsOK'
  BY DEF Inv, GrantsOK, SeedRole
<1>6. Progress(s)'
  <2>1. \A i \in 1..at[s] : RoleNames[i] \in roles'
    BY <1>1 DEF Inv, ProgressOK, Progress, SeedRole
  <2>2. CASE at[s] < 4
    BY <1>1, <1>2, <2>1, <2>2 DEF Progress
  <2>3. CASE at[s] = 4
    <3>1. roles' = Role
      BY <1>3, <2>1, <2>3, Names DEF Adds
    <3> QED
      BY <1>1, <1>2, <2>3, <3>1 DEF Progress
  <2> QED
    BY <1>1, <2>2, <2>3
<1> QED
  BY <1>3, <1>4, <1>5, <1>6, OthersProgress, RequestsKept DEF Inv

LEMMA SeedPermissionStep ==
    ASSUME Inv, NEW s \in Seeder, SeedPermission(s)
    PROVE  Inv'
<1>1. /\ stage[s] = "permissions" /\ at[s] \in 1..15
      /\ PermissionList[at[s]] \in Permission
  BY Entries DEF Inv, TypeOK, SeedPermission
<1>2. /\ stage'[s] = (IF at[s] < 15 THEN "permissions" ELSE "grants")
      /\ at'[s] = (IF at[s] < 15 THEN at[s] + 1 ELSE 1)
      /\ \A q \in Seeder \ {s} : stage'[q] = stage[q] /\ at'[q] = at[q]
  BY <1>1, Entries, AdvanceMoves DEF Inv, SeedPermission
<1>3. Adds /\ Moves(s)
  BY <1>1, <1>2 DEF Inv, TypeOK, SeedPermission, Adds, Moves
<1>4. TypeOK'
  BY <1>1, <1>2, Names, Entries DEF Inv, TypeOK, SeedPermission, Advance, Goto, Stage
<1>5. GrantsOK'
  BY DEF Inv, GrantsOK, SeedPermission
<1>6. Progress(s)'
  <2>1. roles' = Role /\ \A i \in 1..at[s] : PermissionList[i] \in permissions'
    BY <1>1 DEF Inv, ProgressOK, Progress, SeedPermission
  <2>2. CASE at[s] < 15
    BY <1>1, <1>2, <2>1, <2>2 DEF Progress
  <2>3. CASE at[s] = 15
    <3>1. permissions' = Permission
      BY <1>3, <2>1, <2>3, Entries DEF Adds
    <3> QED
      BY <1>1, <1>2, <2>1, <2>3, <3>1 DEF Progress
  <2> QED
    BY <1>1, <2>2, <2>3
<1> QED
  BY <1>3, <1>4, <1>5, <1>6, OthersProgress, RequestsKept DEF Inv

LEMMA SeedGrantsStep ==
    ASSUME Inv, NEW s \in Seeder, SeedGrants(s)
    PROVE  Inv'
<1> DEFINE role == RoleNames[at[s]]
<1>1. /\ stage[s] = "grants" /\ at[s] \in 1..4 /\ role \in Role
      /\ roles = Role /\ permissions = Permission
  BY Names DEF Inv, TypeOK, ProgressOK, Progress, SeedGrants
<1>2. /\ stage'[s] = (IF at[s] < 4 THEN "grants" ELSE "user")
      /\ at'[s] = (IF at[s] < 4 THEN at[s] + 1 ELSE 1)
      /\ \A q \in Seeder \ {s} : stage'[q] = stage[q] /\ at'[q] = at[q]
  BY <1>1, Names, AdvanceMoves DEF Inv, SeedGrants
<1>3. rolePerms' = rolePerms \cup ({role} \X Documented(role))
  <2>1. roles \cap {role} = {role} /\ {p \in permissions : Selects(role, p)} = Documented(role)
    BY <1>1, SelectsDocumented
  <2> QED
    BY <2>1 DEF SeedGrants
<1>4. Adds /\ Moves(s)
  BY <1>1, <1>2, <1>3 DEF Inv, TypeOK, SeedGrants, Adds, Moves
<1>5. TypeOK'
  <2>1. rolePerms' \subseteq roles \X permissions
    BY <1>1, <1>3, DocumentedPermissions DEF Inv, TypeOK
  <2> QED
    BY <1>1, <1>2, <2>1, Names, Entries DEF Inv, TypeOK, SeedGrants, Advance, Goto, Stage
<1>6. GrantsOK'
  BY <1>3 DEF Inv, GrantsOK, SeedGrants
<1>7. Progress(s)'
  <2>1. \A i \in 1..at[s] : Granted(RoleNames[i])'
    BY <1>1, <1>3 DEF Inv, ProgressOK, Progress, Granted
  <2>2. CASE at[s] < 4
    BY <1>1, <1>2, <2>1, <2>2 DEF Progress, SeedGrants
  <2>3. CASE at[s] = 4
    <3>1. \A x \in Role : Granted(x)'
      BY <2>1, <2>3, Names
    <3> QED
      BY <1>1, <1>2, <2>3, <3>1 DEF Progress, SeedGrants
  <2> QED
    BY <1>1, <2>2, <2>3
<1> QED
  BY <1>4, <1>5, <1>6, <1>7, OthersProgress, RequestsKept DEF Inv

LEMMA SeedUserStep ==
    ASSUME Inv, NEW s \in Seeder, SeedUser(s)
    PROVE  Inv'
<1>1. /\ stage[s] = "user" /\ at[s] \in 1..4
      /\ RoleNames[at[s]] \in Role /\ RoleNames[at[s]] \in User
      /\ RoleNames[at[s]] # "owner"
  BY Names DEF Inv, TypeOK, SeedUser, User, Role
<1>2. /\ stage'[s] = "assign" /\ at'[s] = at[s]
      /\ \A q \in Seeder \ {s} : stage'[q] = stage[q] /\ at'[q] = at[q]
  BY DEF Inv, TypeOK, SeedUser, Goto
<1>3. Adds /\ Moves(s)
  BY <1>1, <1>2 DEF Inv, TypeOK, SeedUser, Adds, Moves
<1>4. TypeOK'
  BY <1>1, <1>2, Names DEF Inv, TypeOK, SeedUser, Goto, Stage
<1>5. GrantsOK'
  BY <1>1 DEF Inv, GrantsOK, SeedUser
<1>6. Progress(s)'
  BY <1>1, <1>2 DEF Inv, ProgressOK, Progress, SeedUser, Granted, Assigned
<1> QED
  BY <1>3, <1>4, <1>5, <1>6, OthersProgress, RequestsKept DEF Inv

LEMMA AssignRoleStep ==
    ASSUME Inv, NEW s \in Seeder, AssignRole(s)
    PROVE  Inv'
<1> DEFINE role == RoleNames[at[s]]
<1>1. /\ stage[s] = "assign" /\ at[s] \in 1..4
      /\ role \in Role /\ role # "owner" /\ role \in users
      /\ roles = Role
  BY Names DEF Inv, TypeOK, ProgressOK, Progress, AssignRole, Role
<1>2. /\ stage'[s] = (IF at[s] < 4 THEN "user" ELSE "done")
      /\ at'[s] = (IF at[s] < 4 THEN at[s] + 1 ELSE 1)
      /\ \A q \in Seeder \ {s} : stage'[q] = stage[q] /\ at'[q] = at[q]
  BY <1>1, Names DEF Inv, TypeOK, AssignRole, Goto
<1>3. userRoles' = userRoles \cup {<<role, role>>}
  BY <1>1 DEF AssignRole
<1>4. Adds /\ Moves(s)
  BY <1>1, <1>2, <1>3 DEF Inv, TypeOK, AssignRole, Adds, Moves
<1>5. TypeOK'
  <2>1. userRoles' \subseteq users' \X roles'
    BY <1>1, <1>3 DEF Inv, TypeOK, AssignRole
  <2>2. /\ stage' \in [Seeder -> Stage \cup {"idle", "done"}]
        /\ at' \in [Seeder -> Nat]
    <3>1. Goto(s, "user", at[s] + 1) \/ Goto(s, "done", 1)
      BY DEF AssignRole
    <3>2. /\ stage \in [Seeder -> Stage \cup {"idle", "done"}] /\ at \in [Seeder -> Nat]
          /\ at[s] + 1 \in Nat
      BY <1>1 DEF Inv, TypeOK
    <3> QED
      BY <3>1, <3>2 DEF Goto, Stage
  <2> QED
    BY <1>1, <1>2, <2>1, <2>2, Names DEF Inv, TypeOK, AssignRole
<1>6. GrantsOK'
  BY <1>1, <1>3 DEF Inv, GrantsOK, AssignRole, RoleOf
<1>7. Progress(s)'
  <2>1. \A i \in 1..at[s] : Assigned(RoleNames[i])'
    BY <1>1, <1>3 DEF Inv, ProgressOK, Progress, Assigned, AssignRole
  <2>2. /\ roles' = Role /\ permissions' = Permission
        /\ \A x \in Role : Granted(x)'
    BY <1>1 DEF Inv, ProgressOK, Progress, AssignRole, Granted
  <2>3. CASE at[s] < 4
    BY <1>1, <1>2, <2>1, <2>2, <2>3 DEF Progress
  <2>4. CASE at[s] = 4
    <3>1. \A x \in Role : Assigned(x)'
      BY <2>1, <2>4, Names
    <3> QED
      BY <1>1, <1>2, <2>2, <2>4, <3>1 DEF Progress
  <2> QED
    BY <1>1, <2>3, <2>4
<1> QED
  BY <1>4, <1>5, <1>6, <1>7, OthersProgress, RequestsKept DEF Inv

LEMMA KillStep ==
    ASSUME Inv, NEW s \in Seeder, Kill(s)
    PROVE  Inv'
<1>1. Adds /\ Moves(s)
  BY DEF Inv, TypeOK, Kill, Goto, Adds, Moves, Stage
<1>2. TypeOK'
  BY Names, BoundAssumption DEF Inv, TypeOK, Kill, Goto, Stage
<1>3. GrantsOK'
  BY DEF Inv, GrantsOK, Kill
<1>4. Progress(s)'
  BY DEF Inv, TypeOK, Kill, Goto, Progress
<1> QED
  BY <1>1, <1>2, <1>3, <1>4, OthersProgress, RequestsKept DEF Inv

----------------------------------------------------------------------------
(* Each step of a request keeps the invariant. *)

\* The tables are as they were, and so is what other requests have read.
Reads(r) ==
    /\ UNCHANGED <<content, stage, at, kills, user>>
    /\ \A q \in Request \ {r} :
          /\ pc'[q] = pc[q] /\ heldRoles'[q] = heldRoles[q]
          /\ unread'[q] = unread[q] /\ heldPerms'[q] = heldPerms[q]
          /\ route'[q] = route[q] /\ (q \in late' <=> q \in late)

LEMMA SeedingKept ==
    ASSUME Inv, UNCHANGED seeding
    PROVE  GrantsOK' /\ ProgressOK'
<1>1. GrantsOK'
  BY DEF Inv, GrantsOK
<1>2. \A s \in Seeder : Progress(s)'
  BY DEF Inv, ProgressOK, Progress, Granted, Assigned
<1> QED
  BY <1>1, <1>2 DEF ProgressOK

LEMMA DoneMeansComplete ==
    ASSUME Inv, NEW s \in Seeder, stage[s] = "done"
    PROVE  /\ roles = Role /\ permissions = Permission
           /\ \A role \in Role : Granted(role) /\ Assigned(role)
BY DEF Inv, ProgressOK, Progress

LEMMA ArriveStep ==
    ASSUME Inv, NEW r \in Request, Arrive(r)
    PROVE  Inv'
<1>1. TypeOK'
  BY DEF Inv, TypeOK, Arrive
<1>2. RequestOK'
  BY DEF Inv, TypeOK, RequestOK, Arrive
<1>3. AccessFollowsPolicy'
  BY DEF Inv, TypeOK, AccessFollowsPolicy, Arrive
<1> QED
  BY <1>1, <1>2, <1>3, SeedingKept DEF Inv, Arrive

LEMMA ReadUserStep ==
    ASSUME Inv, NEW r \in Request, ReadUser(r)
    PROVE  Inv'
<1>1. TypeOK'
  BY DEF Inv, TypeOK, ReadUser, Outcome
<1>2. RequestOK'
  BY DEF Inv, TypeOK, RequestOK, ReadUser
<1>3. AccessFollowsPolicy'
  BY DEF Inv, TypeOK, AccessFollowsPolicy, ReadUser
<1> QED
  BY <1>1, <1>2, <1>3, SeedingKept DEF Inv, ReadUser

LEMMA ReadRolesStep ==
    ASSUME Inv, NEW r \in Request, ReadRoles(r)
    PROVE  Inv'
<1> DEFINE held == {x \in Role : <<user[r], x>> \in userRoles}
<1>1. held \subseteq {RoleOf(user[r])} /\ held \subseteq Role
  BY DEF Inv, GrantsOK
<1>2. r \in late => held = {RoleOf(user[r])}
  <2>1. SUFFICES ASSUME r \in late
                 PROVE  <<user[r], RoleOf(user[r])>> \in userRoles
    BY <1>1, RolesOfUsers DEF Inv, TypeOK
  <2>2. PICK s \in Seeder : stage[s] = "done"
    BY <2>1 DEF Inv, RequestOK
  <2>3. CASE user[r] = "owner"
    BY <2>3 DEF Inv, GrantsOK, RequestOK, ReadRoles, RoleOf
  <2>4. CASE user[r] # "owner"
    BY <2>2, <2>4, DoneMeansComplete DEF Inv, TypeOK, Assigned, RoleOf, User
  <2> QED
    BY <2>3, <2>4
<1>3. /\ pc[r] = "roles"
      /\ pc' = [pc EXCEPT ![r] = IF held = {} THEN "guards" ELSE "permissions"]
      /\ heldRoles' = [heldRoles EXCEPT ![r] = held]
      /\ unread' = [unread EXCEPT ![r] = held]
      /\ UNCHANGED <<seeding, user, heldPerms, route, late>>
  BY DEF ReadRoles
<1> HIDE DEF held
<1>4. TypeOK'
  BY <1>1, <1>3 DEF Inv, TypeOK, Outcome
<1>5. RequestOK'
  BY <1>1, <1>2, <1>3 DEF Inv, TypeOK, RequestOK
<1>6. AccessFollowsPolicy'
  BY <1>3 DEF Inv, TypeOK, AccessFollowsPolicy
<1> QED
  BY <1>3, <1>4, <1>5, <1>6, SeedingKept DEF Inv

LEMMA ReadPermissionsStep ==
    ASSUME Inv, NEW r \in Request, ReadPermissions(r)
    PROVE  Inv'
<1> DEFINE read(x) == {p \in Permission : <<x, p>> \in rolePerms}
<1>1. PICK x \in unread[r] :
          /\ heldPerms' = [heldPerms EXCEPT ![r] = @ \cup read(x)]
          /\ unread' = [unread EXCEPT ![r] = @ \ {x}]
          /\ pc' = [pc EXCEPT ![r] = IF unread[r] = {x} THEN "guards" ELSE "permissions"]
  BY DEF ReadPermissions
<1>2. /\ pc[r] = "permissions"
      /\ UNCHANGED <<seeding, user, heldRoles, route, late>>
  BY DEF ReadPermissions
<1>3. x = RoleOf(user[r]) /\ x \in Role /\ heldRoles[r] = {x}
  BY DEF Inv, TypeOK, RequestOK
<1>4. read(x) \subseteq Documented(x)
  BY DEF Inv, GrantsOK
<1>5. r \in late => read(x) = Documented(x)
  <2>1. SUFFICES ASSUME r \in late
                 PROVE  Documented(x) \subseteq read(x)
    BY <1>4
  <2>2. PICK s \in Seeder : stage[s] = "done"
    BY <2>1 DEF Inv, RequestOK
  <2>3. Granted(x)
    BY <1>3, <2>2, DoneMeansComplete
  <2> QED
    BY <1>3, <2>3, DocumentedPermissions DEF Granted
<1>6. read(x) \subseteq Permission
  OBVIOUS
<1> HIDE DEF read
<1>7. TypeOK'
  BY <1>1, <1>2, <1>6 DEF Inv, TypeOK, Outcome
<1>8. RequestOK'
  BY <1>1, <1>2, <1>3, <1>4, <1>5 DEF Inv, TypeOK, RequestOK
<1>9. AccessFollowsPolicy'
  BY <1>1, <1>2 DEF Inv, TypeOK, AccessFollowsPolicy
<1> QED
  BY <1>2, <1>7, <1>8, <1>9, SeedingKept DEF Inv

LEMMA DecideStep ==
    ASSUME Inv, NEW r \in Request, Decide(r)
    PROVE  Inv'
<1> DEFINE passes(x) == /\ RolesGuard(x, heldRoles[r])
                        /\ PermissionsGuard(x, heldRoles[r], heldPerms[r])
<1>1. PICK x \in Route :
          /\ route' = [route EXCEPT ![r] = x]
          /\ pc' = [pc EXCEPT ![r] = IF passes(x) THEN "allowed" ELSE "forbidden"]
  BY DEF Decide
<1>2. /\ pc[r] = "guards"
      /\ UNCHANGED <<seeding, user, heldRoles, unread, heldPerms, late>>
  BY DEF Decide
<1>3. /\ heldRoles[r] \subseteq {RoleOf(user[r])}
      /\ heldPerms[r] \subseteq Documented(RoleOf(user[r]))
      /\ r \in late => /\ heldRoles[r] = {RoleOf(user[r])}
                       /\ heldPerms[r] = Documented(RoleOf(user[r]))
  BY <1>2 DEF Inv, RequestOK
<1>4. passes(x) => Entitled(user[r], x)
  <2>1. SUFFICES ASSUME passes(x)
                 PROVE  Entitled(user[r], x)
    OBVIOUS
  <2>2. Decorators[x].roles = {} \/ RoleOf(user[r]) \in Decorators[x].roles
    BY <1>3, <2>1 DEF RolesGuard
  <2>3. Decorators[x].permissions \subseteq Documented(RoleOf(user[r]))
    BY <1>3, <2>1, Documents, DecoratedPermissions DEF PermissionsGuard
  <2> QED
    BY <2>2, <2>3 DEF Entitled
<1>5. r \in late /\ Entitled(user[r], x) => passes(x)
  BY <1>3 DEF Entitled, RolesGuard, PermissionsGuard
<1> HIDE DEF passes
<1>6. TypeOK'
  BY <1>1, <1>2 DEF Inv, TypeOK, Outcome
<1>7. RequestOK'
  BY <1>1, <1>2 DEF Inv, TypeOK, RequestOK
<1>8. AccessFollowsPolicy'
  BY <1>1, <1>2, <1>4, <1>5 DEF Inv, TypeOK, AccessFollowsPolicy
<1> QED
  BY <1>2, <1>6, <1>7, <1>8, SeedingKept DEF Inv

----------------------------------------------------------------------------
(* The theorems *)

LEMMA InitInv == Init => Inv
<1> SUFFICES ASSUME Init
             PROVE  Inv
  OBVIOUS
<1>1. TypeOK
  BY Names, BoundAssumption DEF Init, TypeOK, User, Role, Route, Decorators
<1>2. GrantsOK
  BY DEF Init, GrantsOK, RoleOf
<1>3. ProgressOK
  BY DEF Init, ProgressOK, Progress
<1>4. RequestOK /\ AccessFollowsPolicy
  BY DEF Init, RequestOK, AccessFollowsPolicy
<1> QED
  BY <1>1, <1>2, <1>3, <1>4 DEF Inv

LEMMA NextInv == Inv /\ [Next]_vars => Inv'
<1> SUFFICES ASSUME Inv, [Next]_vars
             PROVE  Inv'
  OBVIOUS
<1>1. ASSUME NEW s \in Seeder, Seed(s)
      PROVE  Inv'
  BY <1>1, StartStep, SeedRoleStep, SeedPermissionStep, SeedGrantsStep, SeedUserStep,
     AssignRoleStep, KillStep DEF Seed
<1>2. ASSUME NEW r \in Request, Serve(r)
      PROVE  Inv'
  BY <1>2, ArriveStep, ReadUserStep, ReadRolesStep, ReadPermissionsStep, DecideStep
     DEF Serve
<1>3. CASE UNCHANGED vars
  BY <1>3, SeedingKept DEF vars, Inv, TypeOK, RequestOK, AccessFollowsPolicy
<1> QED
  BY <1>1, <1>2, <1>3 DEF Next, Finished

\* Every run of the script has inserted its lists up to where it is, nothing
\* undocumented is ever granted, and what a request has read of the roles and
\* permissions is documented.  (seed.ts 14-185, JwtStrategy.validate 28-74)
THEOREM Invariance == Spec => []Inv
BY InitInv, NextInv, PTL DEF Spec

\* Whatever runs of the script overlap or are killed, every value keeps its
\* type; in particular no list of the script is left by more than its end.
\* (seed.ts 14-185)
THEOREM TypeCorrect == Spec => []TypeOK
<1>1. Inv => TypeOK
  BY DEF Inv
<1> QED
  BY <1>1, Invariance, PTL

\* A run of the seed script that ends leaves what the documentation lists and
\* nothing else, for any number of runs that overlap or are interrupted.
\* (seed.ts 14-185)
THEOREM SeedComplete == Spec => []SeedIsComplete
<1>1. Inv => SeedIsComplete
  <2> SUFFICES ASSUME Inv, NEW s \in Seeder, stage[s] = "done"
               PROVE  /\ roles = Role /\ permissions = Permission
                      /\ rolePerms = UNION {{role} \X Documented(role) : role \in Role}
                      /\ users \cup {"owner"} = User
                      /\ \A u \in users \ {"owner"}, x \in Role :
                            <<u, x>> \in userRoles <=> u = x
    BY DEF SeedIsComplete
  <2>1. /\ roles = Role /\ permissions = Permission
        /\ \A role \in Role : Granted(role) /\ Assigned(role)
    BY DoneMeansComplete
  <2>2. rolePerms = UNION {{role} \X Documented(role) : role \in Role}
    BY <2>1 DEF Inv, TypeOK, GrantsOK, Granted
  <2>3. users \cup {"owner"} = User
    BY <2>1 DEF Inv, TypeOK, Assigned, User
  <2>4. ASSUME NEW u \in users \ {"owner"}, NEW x \in Role
        PROVE  <<u, x>> \in userRoles <=> u = x
    BY <2>1, <2>3 DEF Inv, GrantsOK, Assigned, RoleOf, User
  <2> QED
    BY <2>1, <2>2, <2>3, <2>4
<1> QED
  BY <1>1, Invariance, PTL

\* Nobody passes the guards without being entitled to, and nobody who comes
\* after a completed seeding is refused what they are entitled to.
\* (JwtStrategy.validate 28-74, RolesGuard 9-41, PermissionsGuard 9-62)
THEOREM PolicyFollowed == Spec => []AccessFollowsPolicy
<1>1. Inv => AccessFollowsPolicy
  BY DEF Inv
<1> QED
  BY <1>1, Invariance, PTL
=============================================================================
