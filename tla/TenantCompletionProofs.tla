----------------------- MODULE TenantCompletionProofs -----------------------
(***************************************************************************)
(* A tenant reported as created is complete, unless another request        *)
(* overlapped its creation or the pool scattered its statements: for every *)
(* set of requests, connections, slugs and inputs and every bound.         *)
(***************************************************************************)
EXTENDS TenantLifecycleProofs

USE DEF db, history

----------------------------------------------------------------------------
(* The schema of a creation, and who may be at work beside it. *)

LEMMA OwnSchema ==
    ASSUME Inv, NEW r \in Request, IsCreate(r)
    PROVE  /\ input[r] \in CreateInput
           /\ SchemaOf[input[r].slug] \in Schema
           /\ pc[r] \in Trying \cup Cleaning \cup {"checkSchema"} =>
                 schemaName[r] = SchemaOf[input[r].slug]
<1>1. input[r] \in CreateInput /\ SchemaOf[input[r].slug] \in Schema
  BY InputKinds, SchemaAssumption DEF Inv, TypeOK, IsCreate
<1>2. ASSUME pc[r] \in Trying \cup Cleaning \cup {"checkSchema"}
      PROVE  schemaName[r] # None
  BY <1>2, SchemaAssumption
     DEF Inv, ControlOK, InFlight, Checking, Trying, Cleaning
<1> QED
  BY <1>1, <1>2 DEF Inv, NamesOK, Subject

\* Nobody else is being served while a request without peers is.
LEMMA Alone ==
    ASSUME Inv, NEW r \in Request, NEW q \in Request,
           peers[r] = {}, pc[r] \in InFlight, pc[q] \in InFlight
    PROVE  q = r
BY DEF Inv, PeersOK, Serving

LEMMA DeletingStays ==
    ASSUME Inv, NEW q \in Request, Statement(q) \/ StatementFails(q),
           NEW r \in Request, Deleting(r)
    PROVE  Deleting(r)'
<1>1. Moves(q)
  BY StatementMoves DEF Inv
<1>2. PICK d \in Request : /\ input[d].op = "hardDelete" /\ input[d].id = r
                           /\ pc[d] \notin {"idle", "find", "notFound"}
  BY DEF Deleting
<1>3. input' = input /\ pc'[d] \notin {"idle", "find", "notFound"}
  BY <1>1, <1>2 DEF Moves
<1> QED
  BY <1>2, <1>3 DEF Deleting

\* Requests that work on the schema of an undisturbed tenant manage it.
LEMMA OthersManage ==
    ASSUME Inv, NEW q \in Request, pc[q] \in InFlight,
           NEW r \in Request, pc[r] = "created", peers[r] = {}, ~Deleting(r),
           schemaName[q] = SchemaOf[input[r].slug]
    PROVE  pc[q] \in Managing \ {"dropSchema", "deleteRow"}
<1>1. Undisturbed(r) /\ KeepOK(r) /\ q \in Serving \ peers[r]
  BY DEF Undisturbed, Inv, Serving
<1>2. pc[q] \in Managing /\ input[q].id = r
  BY <1>1 DEF KeepOK
<1> QED
  BY <1>2 DEF Deleting, Inv, ControlOK

\* Which statements change a schema, its contents, or a search_path.
Writes(q, c) ==
    Migrate(q, c) \/ InsertRole(q, c) \/ InsertUser(q, c) \/ AssignRole(q, c)
Sets(q, c) == MigratePath(q, c) \/ AdminPath(q, c)
Clears(c) == searchPath' = [searchPath EXCEPT ![c] = Public] /\ home' = home

LEMMA Kinds ==
    ASSUME NEW q \in Request, Statement(q) \/ StatementFails(q)
    PROVE  /\ \/ UNCHANGED <<schemas, store>>
              \/ CreateSchema(q) \/ CleanSchema(q) \/ DropSchema(q)
              \/ \E c \in Conn : Writes(q, c)
           /\ \/ UNCHANGED <<searchPath, home>>
              \/ \E c \in Conn : Sets(q, c) \/ Clears(c)
<1>1. ASSUME NEW c \in Conn, Raw(q, c)
      PROVE  /\ UNCHANGED <<schemas, store>> \/ Writes(q, c)
             /\ UNCHANGED <<searchPath, home>> \/ Sets(q, c) \/ Clears(c)
  BY <1>1 DEF Raw, Writes, Sets, Clears, MigratePath, AdminPath, SetPath,
     MigrateReset, AdminReset, ResetPath, Migrate, InsertRole, InsertUser, AssignRole,
     ServedBy
<1>2. CASE StatementFails(q)
  BY <1>2 DEF StatementFails, FailsWithoutEffect, ReplyLost, Clears
<1>3. CASE CheckSlug(q) \/ CheckSchema(q) \/ InsertTenant(q) \/ CreateSchema(q)
  BY <1>3 DEF CheckSlug, CheckSchema, InsertTenant, CreateSchema
<1>4. CASE CleanRecord(q) \/ CleanSchema(q) \/ DropSchema(q)
  BY <1>4 DEF CleanRecord, CleanSchema, DropSchema, Drop
<1>5. CASE Find(q) \/ UpdateRow(q) \/ Deactivate(q) \/ DeleteRow(q)
  BY <1>5 DEF Find, UpdateRow, Deactivate, DeleteRow
<1> QED
  BY <1>1, <1>2, <1>3, <1>4, <1>5 DEF Statement

\* A statement writes where its connection resolves names, in a schema that exists.
LEMMA WritesThere ==
    ASSUME Inv, NEW q \in Request, NEW c \in Conn, Writes(q, c)
    PROVE  /\ schemas' = schemas
           /\ \A s \in Schema :
                 s # searchPath[c] \/ s \notin schemas => store'[s] = store[s]
           /\ pc[q] \in Trying /\ ServedBy(q, c)
BY SchemaAssumption
   DEF Inv, TypeOK, Writes, Migrate, CanCreate, InsertRole, InsertUser, AssignRole,
       Has, Trying

LEMMA VacantStep ==
    ASSUME Inv, VacantOK, NEW q \in Request, Statement(q) \/ StatementFails(q)
    PROVE  VacantOK'
<1>1. CASE UNCHANGED <<schemas, store>>
  BY <1>1 DEF VacantOK
<1>2. CASE CreateSchema(q)
  BY <1>2 DEF VacantOK, CreateSchema
<1>3. CASE CleanSchema(q) \/ DropSchema(q)
  BY <1>3 DEF VacantOK, Inv, TypeOK, CleanSchema, DropSchema, Drop
<1>4. ASSUME NEW c \in Conn, Writes(q, c) PROVE VacantOK'
  BY <1>4, WritesThere DEF VacantOK
<1> QED
  BY <1>1, <1>2, <1>3, <1>4, Kinds

LEMMA Untouched ==
    ASSUME NEW q \in Request, Statement(q) \/ StatementFails(q),
           ~\E c \in Conn : Migrate(q, c)
    PROVE  at' = at
BY DEF Statement, Raw, StatementFails, CheckSlug, CheckSchema, InsertTenant,
   CreateSchema, MigratePath, AdminPath, SetPath, MigrateReset, AdminReset,
   ResetPath, InsertRole, InsertUser, AssignRole, CleanRecord, CleanSchema,
   DropSchema, Drop, Find, UpdateRow, Deactivate, DeleteRow

LEMMA StartStep ==
    ASSUME Inv, StartOK, NEW q \in Request, Statement(q) \/ StatementFails(q)
    PROVE  StartOK'
<1> DEFINE Early == {"idle", "checkSlug", "checkSchema", "insertTenant", "createSchema",
                     "migratePath"}
<1>1. /\ \A r \in Request \ {q} : pc'[r] = pc[r]
      /\ pc'[q] # "idle" /\ peers' = peers
  BY StatementMoves DEF Inv, Moves
<1>2. CASE \E c \in Conn : Migrate(q, c)
  <2>1. PICK c \in Conn : Migrate(q, c)
    BY <1>2
  <2>2. pc'[q] \in {"migrate", "migrateReset", "cleanRecord"}
    BY <2>1 DEF Migrate, NextTable, Goto, Inv, TypeOK
  <2>3. \A r \in Request \ {q} : at'[r] = at[r]
    BY <2>1 DEF Migrate, NextTable, Inv, TypeOK
  <2> QED
    BY <1>1, <2>2, <2>3 DEF StartOK
<1>3. CASE ~\E c \in Conn : Migrate(q, c)
  <2>1. SUFFICES ASSUME pc'[q] \in Early
                 PROVE  at' = at /\ pc[q] \in Early
    BY <1>1, <1>3, Untouched DEF StartOK
  <2>2. pc[q] \in Creating
    BY <2>1, StatementMoves
       DEF Inv, Moves, Creating, Checking, Trying
  <2>3. ASSUME NEW c \in Conn, Raw(q, c) PROVE pc[q] \in Early
    BY <1>3, <2>1, <2>3
       DEF Raw, MigratePath, AdminPath, SetPath, MigrateReset, AdminReset, ResetPath,
       InsertRole, InsertUser, AssignRole, Goto, Inv, TypeOK
  <2>4. CASE StatementFails(q)
    BY <2>1, <2>2, <2>4 DEF StatementFails, FailsWithoutEffect, ReplyLost, Goto,
       Inv, TypeOK, Checking, Trying, Cleaning
  <2>5. CASE CheckSlug(q) \/ CheckSchema(q) \/ InsertTenant(q) \/ CreateSchema(q)
    BY <2>5 DEF CheckSlug, CheckSchema, InsertTenant, CreateSchema
  <2>6. CASE CleanRecord(q) \/ CleanSchema(q) \/ DropSchema(q)
    BY <2>1, <2>6 DEF CleanRecord, CleanSchema, DropSchema, Drop, Goto, Inv, TypeOK
  <2>7. CASE Find(q) \/ UpdateRow(q) \/ Deactivate(q) \/ DeleteRow(q)
    BY <2>2, <2>7 DEF Find, UpdateRow, Deactivate, DeleteRow, Creating, Checking,
       Trying, Cleaning
  <2> QED
    BY <1>3, <2>3, <2>4, <2>5, <2>6, <2>7, Untouched DEF Statement
<1> QED
  BY <1>2, <1>3

----------------------------------------------------------------------------
(* The statements of the creation itself. *)

LEMMA AllTables == {Migration[i] : i \in 1..7} = Table /\ Len(Migration) = 7
<1>1. /\ Migration[1] = "users" /\ Migration[2] = "roles"
      /\ Migration[3] = "permissions" /\ Migration[4] = "user_roles"
      /\ Migration[5] = "role_permissions"
      /\ Migration[6] = "sessions" /\ Migration[7] = "audit_logs"
  BY DEF Migration
<1>2. \A i \in 1..7 : i = 1 \/ i = 2 \/ i = 3 \/ i = 4 \/ i = 5 \/ i = 6 \/ i = 7
  OBVIOUS
<1> QED
  BY <1>1, <1>2, MigrationTables DEF Table

\* A creation that is steady after a statement of it was so before, and the
\* statement was served by its home.
LEMMA SteadyHome ==
    ASSUME NEW r \in Request, Moves(r), Steady(r)'
    PROVE  Steady(r) /\ \A d : ServedBy(r, d) => d = home[r]
BY DEF Moves, Steady, ServedBy

\* What is known of the creation and its schema before a statement of it.
LEMMA Before ==
    ASSUME CompletionInv, NEW r \in Request, IsCreate(r), peers[r] = {}, Steady(r)
    PROVE  /\ SchemaOf[input[r].slug] \in Schema /\ SchemaOf[input[r].slug] # Public
           /\ pc[r] \in Trying \cup Cleaning \cup {"checkSchema"} =>
                 schemaName[r] = SchemaOf[input[r].slug]
           /\ pc[r] \in OnPath \cup {"migratePath"} =>
                 SchemaOf[input[r].slug] \in schemas
           /\ pc[r] \notin Managing
<1>1. /\ input[r] \in CreateInput /\ SchemaOf[input[r].slug] \in Schema
      /\ pc[r] \in Trying \cup Cleaning \cup {"checkSchema"} =>
            schemaName[r] = SchemaOf[input[r].slug]
  BY OwnSchema DEF CompletionInv
<1>2. SchemaOf[input[r].slug] # Public
  BY <1>1, SchemaAssumption
<1>3. pc[r] \in OnPath \cup {"migratePath"} => SchemaOf[input[r].slug] \in schemas
  BY DEF CompletionInv, FilledOK
<1>4. pc[r] \notin Managing
  <2>1. ControlOK /\ input[r] \in Input
    BY DEF CompletionInv, Inv, TypeOK
  <2>2. input[r] \notin UpdateInput \cup TargetInput
    BY <2>1, InputKinds DEF IsCreate
  <2> QED
    BY <2>1, <2>2 DEF ControlOK
<1> QED
  BY <1>1, <1>2, <1>3, <1>4

\* The contents of a schema after one write.
LEMMA Rewritten ==
    ASSUME NEW k \in Content, NEW x
    PROVE  /\ LET m == [k EXCEPT !.tables = @ \cup {x}]
              IN m.tables = k.tables \cup {x} /\ (m.superAdmin <=> k.superAdmin)
                 /\ m.admins = k.admins /\ m.granted = k.granted
           /\ LET m == [k EXCEPT !.superAdmin = TRUE]
              IN m.tables = k.tables /\ m.superAdmin
                 /\ m.admins = k.admins /\ m.granted = k.granted
           /\ LET m == [k EXCEPT !.admins = @ \cup {x}]
              IN m.tables = k.tables /\ (m.superAdmin <=> k.superAdmin)
                 /\ m.admins = k.admins \cup {x} /\ m.granted = k.granted
           /\ LET m == [k EXCEPT !.granted = @ \cup {x}]
              IN m.tables = k.tables /\ (m.superAdmin <=> k.superAdmin)
                 /\ m.admins = k.admins /\ m.granted = k.granted \cup {x}
BY DEF Content

LEMMA OwnFilled ==
    ASSUME CompletionInv, NEW r \in Request, IsCreate(r), peers[r] = {}, Steady(r)',
           Statement(r) \/ StatementFails(r)
    PROVE  FilledOK(r)'
<1> DEFINE s == SchemaOf[input[r].slug]
           Holds(T, b, A, G) ==
               /\ T \subseteq store[s].tables
               /\ store[s].tables \subseteq T \cup {"audit_logs"}
               /\ store[s].superAdmin <=> b
               /\ store[s].admins = A /\ store[s].granted = G
           Leaves(T, b, A, G) ==
               /\ T \subseteq store'[s].tables
               /\ store'[s].tables \subseteq T \cup {"audit_logs"}
               /\ store'[s].superAdmin <=> b
               /\ store'[s].admins = A /\ store'[s].granted = G
           Unlabelled ==
               pc'[r] \notin {"insertTenant", "createSchema", "migratePath", "migrate",
                              "migrateReset", "adminPath", "insertRole", "insertUser",
                              "assignRole", "adminReset", "created"}
<1> USE DEF OnPath, Trying
<1>1. Moves(r) /\ TypeOK /\ FilledOK(r)
  BY StatementMoves DEF CompletionInv, Inv
<1>S. Steady(r) /\ \A d : ServedBy(r, d) => d = home[r]
  BY <1>1, SteadyHome
<1>2. input' = input /\ peers' = peers /\ pc[r] \in InFlight
  BY <1>1 DEF Moves
<1>3. /\ s \in Schema /\ s # Public
      /\ pc[r] \in Trying \cup Cleaning \cup {"checkSchema"} => schemaName[r] = s
      /\ pc[r] \in OnPath \cup {"migratePath"} => s \in schemas
      /\ pc[r] \notin Managing
  BY <1>S, Before
<1>4. Unlabelled => FilledOK(r)'
  BY DEF FilledOK
<1>5. CASE CheckSlug(r)
  BY <1>1, <1>4, <1>5 DEF CheckSlug, Goto, TypeOK
<1>6. CASE CheckSchema(r)
  BY <1>1, <1>S, <1>2, <1>3, <1>6 DEF CheckSchema, Goto, TypeOK, FilledOK
<1>7. CASE InsertTenant(r)
  <2>1. /\ pc[r] = "insertTenant" /\ pc'[r] \in {"cleanRecord", "createSchema"}
        /\ schemas' = schemas
    BY <1>1, <1>7 DEF InsertTenant, Goto, TypeOK
  <2> QED
    BY <1>1, <1>S, <1>2, <2>1 DEF FilledOK
<1>8. CASE CreateSchema(r)
  <2>1. Holds({}, FALSE, {}, {})
    <3>1. s \notin schemas
      BY <1>1, <1>S, <1>8 DEF CreateSchema, FilledOK
    <3>2. store[s] = EmptySchema
      BY <1>3, <3>1 DEF CompletionInv, VacantOK
    <3> QED
      BY <3>2 DEF EmptySchema
  <2> QED
    BY <1>1, <1>S, <1>2, <1>3, <1>8, <2>1 DEF CreateSchema, Goto, TypeOK, FilledOK
<1>9. ASSUME NEW d \in Conn, MigratePath(r, d) PROVE FilledOK(r)'
  <2>1. at[r] = 1 /\ {Migration[i] : i \in 1..at[r] - 1} = {}
    BY <1>9 DEF MigratePath, SetPath, CompletionInv, StartOK
  <2>2. pc[r] = "migratePath" /\ pc'[r] = "migrate" /\ searchPath'[home'[r]] = s
    BY <1>1, <1>3, <1>9 DEF MigratePath, SetPath, Goto, TypeOK, Trying
  <2>3. Holds({}, FALSE, {}, {})
    BY <1>1, <1>S, <2>2 DEF FilledOK
  <2> QED
    BY <1>2, <1>3, <1>9, <2>1, <2>2, <2>3 DEF MigratePath, SetPath, FilledOK
<1>10. ASSUME NEW d \in Conn, Migrate(r, d) PROVE FilledOK(r)'
  <2> DEFINE n == at[r]
             T(m) == {Migration[i] : i \in 1..m - 1}
  <2>1. pc[r] = "migrate" /\ searchPath[d] = s /\ Holds(T(n), FALSE, {}, {}) /\ d = home[r]
    BY <1>1, <1>S, <1>10 DEF Migrate, FilledOK
  <2>2. n \in 1..7
    BY <1>1, AllTables DEF TypeOK
  <2>3. CASE pc'[r] = "cleanRecord"
    BY <1>4, <2>3
  <2>4. CASE pc'[r] # "cleanRecord"
    <3>1. /\ NextTable(r) /\ schemas' = schemas
          /\ store' = [store EXCEPT ![s].tables = @ \cup {Migration[n]}]
      BY <1>1, <1>3, <1>10, <2>1, <2>4 DEF Migrate, Goto, TypeOK
    <3>2. Leaves(T(n) \cup {Migration[n]}, FALSE, {}, {})
      <4>1. store'[s] = [store[s] EXCEPT !.tables = @ \cup {Migration[n]}]
        BY <1>1, <1>3, <3>1 DEF TypeOK
      <4>2. store[s] \in Content
        BY <1>1, <1>3 DEF TypeOK
      <4>3. /\ store'[s].tables = store[s].tables \cup {Migration[n]}
            /\ store'[s].superAdmin <=> store[s].superAdmin
            /\ store'[s].admins = store[s].admins
            /\ store'[s].granted = store[s].granted
        BY <4>1, <4>2, Rewritten
      <4> QED
        BY <2>1, <4>3
    <3>3. T(n) \cup {Migration[n]} = T(n + 1)
      BY <2>2
    <3>4. CASE n = 7
      <4>1. T(n + 1) = Table
        BY <3>4, AllTables
      <4>2. pc'[r] = "migrateReset"
        BY <1>1, <3>1, <3>4, AllTables DEF NextTable, Goto, TypeOK
      <4> QED
        BY <1>2, <1>3, <2>1, <3>1, <3>2, <3>3, <4>1, <4>2 DEF FilledOK
    <3>5. CASE n # 7
      <4>1. /\ pc'[r] = "migrate" /\ at'[r] = n + 1 /\ searchPath' = searchPath
            /\ home' = home
        BY <1>1, <1>10, <2>1, <3>1, <3>5, AllTables
           DEF NextTable, Migrate, ServedBy, TypeOK
      <4> QED
        BY <1>2, <1>3, <2>1, <3>1, <3>2, <3>3, <4>1 DEF FilledOK
    <3> QED
      BY <3>4, <3>5
  <2> QED
    BY <2>3, <2>4
<1>11. ASSUME NEW d \in Conn, MigrateReset(r, d) PROVE FilledOK(r)'
  BY <1>1, <1>S, <1>2, <1>11 DEF MigrateReset, ResetPath, Goto, TypeOK, FilledOK
<1>12. ASSUME NEW d \in Conn, AdminPath(r, d) PROVE FilledOK(r)'
  BY <1>1, <1>S, <1>2, <1>3, <1>12 DEF AdminPath, SetPath, Goto, TypeOK, FilledOK
<1>13. ASSUME NEW d \in Conn, InsertRole(r, d) PROVE FilledOK(r)'
  <2>1. /\ pc[r] = "insertRole" /\ searchPath[d] = s /\ Holds(Table, FALSE, {}, {})
        /\ d = home[r] /\ home' = home
    BY <1>1, <1>S, <1>13 DEF ServedBy, InsertRole, FilledOK
  <2>2. CASE Has(d, "roles")
    <3>1. Leaves(Table, TRUE, {}, {})
      <4>1. store'[s] = [store[s] EXCEPT !.superAdmin = TRUE]
        BY <1>1, <1>3, <1>13, <2>1, <2>2 DEF InsertRole, TypeOK
      <4> QED
        BY <1>1, <1>3, <2>1, <4>1, Rewritten DEF TypeOK
    <3>2. pc'[r] = "insertUser" /\ UNCHANGED <<schemas, searchPath>>
      BY <1>1, <1>13, <2>2 DEF InsertRole, Goto, TypeOK
    <3> QED
      BY <1>2, <1>3, <2>1, <3>1, <3>2 DEF FilledOK
  <2>3. CASE ~Has(d, "roles")
    BY <1>1, <1>4, <1>13, <2>3 DEF InsertRole, Goto, TypeOK
  <2> QED
    BY <2>2, <2>3
<1>14. ASSUME NEW d \in Conn, InsertUser(r, d) PROVE FilledOK(r)'
  <2>1. /\ pc[r] = "insertUser" /\ searchPath[d] = s /\ Holds(Table, TRUE, {}, {})
        /\ d = home[r] /\ home' = home
    BY <1>1, <1>S, <1>14 DEF ServedBy, InsertUser, FilledOK
  <2>2. CASE pc'[r] = "cleanRecord"
    BY <1>4, <2>2
  <2>3. CASE pc'[r] # "cleanRecord"
    <3>1. pc'[r] = "assignRole" /\ store' = [store EXCEPT ![s].admins = @ \cup {r}]
      BY <1>1, <1>14, <2>1, <2>3 DEF InsertUser, Goto, TypeOK
    <3>2. Leaves(Table, TRUE, {r}, {})
      <4>1. store'[s] = [store[s] EXCEPT !.admins = @ \cup {r}]
        BY <1>1, <1>3, <3>1 DEF TypeOK
      <4> QED
        BY <1>1, <1>3, <2>1, <4>1, Rewritten DEF TypeOK
    <3> QED
      BY <1>2, <1>3, <1>14, <2>1, <3>1, <3>2 DEF InsertUser, FilledOK
  <2> QED
    BY <2>2, <2>3
<1>15. ASSUME NEW d \in Conn, AssignRole(r, d) PROVE FilledOK(r)'
  <2>1. pc[r] = "assignRole" /\ searchPath[d] = s /\ Holds(Table, TRUE, {r}, {})
    BY <1>1, <1>S, <1>15 DEF AssignRole, FilledOK
  <2>2. s \in schemas
    BY <1>3, <2>1 DEF Trying
  <2>3. /\ Has(d, "user_roles") /\ Has(d, "roles") /\ store[s].superAdmin
        /\ r \in store[s].admins
    BY <2>1, <2>2 DEF Has, Table
  <2>4. /\ pc'[r] = "adminReset" /\ schemas' = schemas
        /\ store' = [store EXCEPT ![s].granted = @ \cup {r}]
    BY <1>1, <1>3, <1>15, <2>1, <2>3 DEF AssignRole, Goto, TypeOK
  <2>5. Leaves(Table, TRUE, {r}, {r})
    <3>1. store'[s] = [store[s] EXCEPT !.granted = @ \cup {r}]
      BY <1>1, <1>3, <2>4 DEF TypeOK
    <3> QED
      BY <1>1, <1>3, <2>1, <3>1, Rewritten DEF TypeOK
  <2> QED
    BY <1>2, <1>3, <2>1, <2>4, <2>5 DEF FilledOK
<1>16. ASSUME NEW d \in Conn, AdminReset(r, d) PROVE FilledOK(r)'
  BY <1>1, <1>S, <1>2, <1>3, <1>16 DEF AdminReset, ResetPath, Goto, TypeOK, FilledOK
<1>17. CASE CleanRecord(r) \/ CleanSchema(r)
  BY <1>1, <1>4, <1>17 DEF CleanRecord, CleanSchema, Drop, Goto, TypeOK
<1>18. CASE Find(r) \/ UpdateRow(r) \/ Deactivate(r) \/ DropSchema(r) \/ DeleteRow(r)
  BY <1>3, <1>18 DEF Find, UpdateRow, Deactivate, DropSchema, Drop, DeleteRow,
     Managing
<1>19. CASE StatementFails(r)
  BY <1>1, <1>4, <1>19 DEF StatementFails, FailsWithoutEffect, ReplyLost, Goto, TypeOK
<1> QED
  BY <1>5, <1>6, <1>7, <1>8, <1>9, <1>10, <1>11, <1>12, <1>13, <1>14, <1>15, <1>16,
     <1>17, <1>18, <1>19 DEF Statement, Raw

----------------------------------------------------------------------------
(* The basic invariant. *)

LEMMA InvStatement ==
    ASSUME Inv, NEW q \in Request, Statement(q) \/ StatementFails(q)
    PROVE  Inv'
BY InvStep DEF Next

----------------------------------------------------------------------------
(* A tenant whose admin holds the role, once others are at work. *)

\* Only the statement that is meant to grants the role.
LEMMA Grants ==
    ASSUME Inv, NEW q \in Request, Statement(q) \/ StatementFails(q),
           NEW r \in Request, NEW s \in Schema,
           r \in store'[s].granted, r \notin store[s].granted
    PROVE  q = r /\ \E c \in Conn : AssignRole(r, c) /\ searchPath[c] = s
<1>1. CASE CreateSchema(q)
  BY <1>1 DEF CreateSchema
<1>2. CASE CleanSchema(q) \/ DropSchema(q)
  BY <1>2 DEF CleanSchema, DropSchema, Drop, EmptySchema, Inv, TypeOK
<1>3. ASSUME NEW c \in Conn, Writes(q, c)
      PROVE  q = r /\ AssignRole(r, c) /\ searchPath[c] = s
  <2>1. s = searchPath[c] /\ store[s] \in Content
    BY <1>3, WritesThere DEF Inv, TypeOK
  <2>2. CASE Migrate(q, c)
    <3>1. \/ store' = store
          \/ store' = [store EXCEPT ![s].tables = @ \cup {Migration[at[q]]}]
      BY <2>1, <2>2 DEF Migrate
    <3>2. store \in [Schema -> Content]
      BY DEF Inv, TypeOK
    <3>3. store'[s].granted = store[s].granted
      BY <2>1, <3>1, <3>2 DEF Content
    <3> QED
      BY <3>3
  <2>T. store \in [Schema -> Content]
    BY DEF Inv, TypeOK
  <2>3. CASE InsertRole(q, c)
    <3>1. store'[s] \in {store[s], [store[s] EXCEPT !.superAdmin = TRUE]}
      BY <2>1, <2>3, <2>T DEF InsertRole
    <3> QED
      BY <2>1, <3>1, Rewritten
  <2>4. CASE InsertUser(q, c)
    <3>1. store'[s] \in {store[s], [store[s] EXCEPT !.admins = @ \cup {q}]}
      BY <2>1, <2>4, <2>T DEF InsertUser
    <3>2. CASE store'[s] = [store[s] EXCEPT !.admins = @ \cup {q}]
      BY <2>1, <3>2, Rewritten
    <3> QED
      BY <3>1, <3>2
  <2>5. CASE AssignRole(q, c)
    BY <2>1, <2>5 DEF AssignRole, Inv, TypeOK, Content
  <2> QED
    BY <1>3, <2>1, <2>2, <2>3, <2>4, <2>5 DEF Writes
<1> QED
  BY <1>1, <1>2, <1>3, Kinds

\* What a schema holds stays in it, and more may come.
Grows(s) ==
    /\ store[s].tables \subseteq store'[s].tables
    /\ store[s].superAdmin => store'[s].superAdmin
    /\ store[s].admins \subseteq store'[s].admins
    /\ store[s].granted \subseteq store'[s].granted

LEMMA WritesGrow ==
    ASSUME Inv, NEW q \in Request, NEW c \in Conn, Writes(q, c), NEW s \in Schema
    PROVE  Grows(s)
<1>1. store \in [Schema -> Content] /\ store[s] \in Content
  BY DEF Inv, TypeOK
<1>2. CASE store'[s] = store[s]
  BY <1>2 DEF Grows
<1>3. CASE store'[s] # store[s]
  <2>1. s = searchPath[c]
    BY <1>3, WritesThere
  <2>2. \/ store'[s] = [store[s] EXCEPT !.tables = @ \cup {Migration[at[q]]}]
        \/ store'[s] = [store[s] EXCEPT !.superAdmin = TRUE]
        \/ store'[s] = [store[s] EXCEPT !.admins = @ \cup {q}]
        \/ store'[s] = [store[s] EXCEPT !.granted = @ \cup {q}]
    BY <1>1, <1>3, <2>1 DEF Writes, Migrate, InsertRole, InsertUser, AssignRole
  <2>3. CASE store'[s] = [store[s] EXCEPT !.tables = @ \cup {Migration[at[q]]}]
    BY <1>1, <2>3, Rewritten DEF Grows
  <2>4. CASE store'[s] = [store[s] EXCEPT !.superAdmin = TRUE]
    BY <1>1, <2>4, Rewritten DEF Grows
  <2>5. CASE store'[s] = [store[s] EXCEPT !.admins = @ \cup {q}]
    BY <1>1, <2>5, Rewritten DEF Grows
  <2>6. CASE store'[s] = [store[s] EXCEPT !.granted = @ \cup {q}]
    BY <1>1, <2>6, Rewritten DEF Grows
  <2> QED
    BY <2>2, <2>3, <2>4, <2>5, <2>6
<1> QED
  BY <1>2, <1>3

\* The schema of such a tenant only grows, and does not even do that where no
\* creation strays, or it is dropped as a whole.
LEMMA GrowsOrDropped ==
    ASSUME CompletionInv, NEW q \in Request, Statement(q) \/ StatementFails(q),
           NEW r \in Request, NEW s \in Schema, r \in store[s].granted, peers[r] = {},
           Steady(r)
    PROVE  \/ Grows(s) /\ s \in schemas' /\ (strayed' = {} => store'[s] = store[s])
           \/ /\ CleanSchema(q) \/ DropSchema(q)
              /\ schemaName[q] = s /\ store'[s] = EmptySchema
<1>1. Inv /\ GrantedOK(r) /\ Moves(q)
  BY StatementMoves DEF CompletionInv, Inv
<1>2. s \in schemas
  BY <1>1 DEF GrantedOK, Complete
<1>3. CASE UNCHANGED <<schemas, store>>
  BY <1>2, <1>3 DEF Grows
<1>4. CASE CreateSchema(q)
  BY <1>2, <1>4 DEF CreateSchema, Grows
<1>5. CASE CleanSchema(q) \/ DropSchema(q)
  BY <1>1, <1>2, <1>5 DEF CleanSchema, DropSchema, Drop, Inv, TypeOK, Grows
<1>6. ASSUME NEW c \in Conn, Writes(q, c), strayed' = {} PROVE store'[s] = store[s]
  <2>1. pc[q] \in OnPath /\ q \in Serving
    BY <1>6 DEF Writes, Migrate, InsertRole, InsertUser, AssignRole, OnPath, Trying,
       Serving, InFlight
  <2>2. CASE q = r
    BY <1>1, <1>6, <2>2
       DEF GrantedOK, Writes, Migrate, InsertRole, InsertUser, AssignRole, Cleaning,
           Answered
  <2>3. CASE q # r
    <3>1. c = home[q]
      BY <1>1, <1>6, WritesThere, SteadyHome DEF Steady
    <3> QED
      BY <1>1, <1>2, <1>6, <2>1, <2>3, <3>1, WritesThere DEF GrantedOK
  <2> QED
    BY <2>2, <2>3
<1>7. ASSUME NEW c \in Conn, Writes(q, c) PROVE Grows(s) /\ s \in schemas'
  BY <1>1, <1>2, <1>7, WritesGrow, WritesThere
<1> QED
  BY <1>3, <1>4, <1>5, <1>6, <1>7, Kinds

\* Where a request that works beside such a tenant goes next.
LEMMA Beside ==
    ASSUME CompletionInv, NEW q \in Request, Statement(q) \/ StatementFails(q),
           NEW r \in Request, q # r, NEW s \in Schema, s \in schemas,
           schemaName[q] = s => pc[q] \in Managing \cup {"checkSchema"},
           schemaName'[q] = s, pc'[q] \in InFlight
    PROVE  pc'[q] \in Managing \cup {"checkSchema"}
<1>1. Moves(q) /\ TypeOK
  BY StatementMoves DEF CompletionInv, Inv
<1>2. pc[q] \in Managing => pc'[q] \in Managing
  BY <1>1 DEF Moves, Managing, Creating, Checking, Trying, Cleaning, InFlight
<1>3. CASE pc[q] = "checkSchema"
  BY <1>1, <1>3, <1>2
     DEF Statement, Raw, StatementFails, FailsWithoutEffect, ReplyLost, CheckSlug, CheckSchema, InsertTenant,
         CreateSchema, MigratePath, AdminPath, SetPath, MigrateReset, AdminReset,
         ResetPath, Migrate, InsertRole, InsertUser, AssignRole, CleanRecord,
         CleanSchema, DropSchema, Drop, Find, UpdateRow, Deactivate, DeleteRow, Goto,
         TypeOK, InFlight, Checking, Trying, Cleaning, Managing
<1>4. CASE pc[q] = "checkSlug"
  BY <1>1, <1>4
     DEF Statement, Raw, StatementFails, FailsWithoutEffect, ReplyLost, CheckSlug, CheckSchema, InsertTenant,
         CreateSchema, MigratePath, AdminPath, SetPath, MigrateReset, AdminReset,
         ResetPath, Migrate, InsertRole, InsertUser, AssignRole, CleanRecord,
         CleanSchema, DropSchema, Drop, Find, UpdateRow, Deactivate, DeleteRow, Goto,
         TypeOK, InFlight, Checking, Trying, Cleaning, Managing
<1>5. CASE pc[q] \notin {"checkSlug", "checkSchema"}
  BY <1>1, <1>2, <1>5 DEF Moves, Managing
<1> QED
  BY <1>3, <1>4, <1>5

\* The first SET of a creation, and no other statement, gives it a home.
LEMMA EntersPath ==
    ASSUME Inv, NEW q \in Request, Statement(q) \/ StatementFails(q),
           pc'[q] \in OnPath, pc[q] \notin OnPath
    PROVE  \E c \in Conn : MigratePath(q, c)
<1>1. Moves(q) /\ TypeOK
  BY StatementMoves DEF Inv
<1>2. pc[q] \in Creating \ OnPath
  BY <1>1 DEF Moves, OnPath, Creating
<1>3. ~StatementFails(q)
  BY <1>1, <1>2 DEF StatementFails, FailsWithoutEffect, ReplyLost, Goto, TypeOK,
     OnPath, Trying, Creating, Checking, Cleaning
<1>4. ~CleanRecord(q) /\ ~CleanSchema(q) /\ ~DropSchema(q)
  BY <1>1 DEF CleanRecord, CleanSchema, DropSchema, Drop, Goto, TypeOK, OnPath, Trying
<1>5. ~Find(q) /\ ~UpdateRow(q) /\ ~Deactivate(q) /\ ~DeleteRow(q)
  BY <1>2 DEF Find, UpdateRow, Deactivate, DeleteRow, Creating, Checking, Trying,
     Cleaning
<1>6. ~CheckSlug(q) /\ ~CheckSchema(q) /\ ~InsertTenant(q) /\ ~CreateSchema(q)
  BY <1>1 DEF CheckSlug, CheckSchema, InsertTenant, CreateSchema, Goto, TypeOK,
     OnPath, Trying
<1>7. ASSUME NEW c \in Conn, Raw(q, c) PROVE MigratePath(q, c)
  BY <1>2, <1>7 DEF Raw, MigrateReset, AdminPath, SetPath, AdminReset, ResetPath,
     Migrate, InsertRole, InsertUser, AssignRole, OnPath, Trying
<1> QED
  BY <1>3, <1>4, <1>5, <1>6, <1>7 DEF Statement

LEMMA HomeStep ==
    ASSUME Inv, HomeOK, NEW q \in Request, Statement(q) \/ StatementFails(q)
    PROVE  HomeOK'
<1>1. Moves(q) /\ TypeOK
  BY StatementMoves DEF Inv
<1>2. ASSUME NEW c \in Conn, Sets(q, c) PROVE home' = [home EXCEPT ![q] = c]
  BY <1>2 DEF Sets, MigratePath, AdminPath, SetPath
<1>3. home' = home \/ \E c \in Conn : home' = [home EXCEPT ![q] = c]
  BY <1>2, Kinds DEF Clears
<1>4. pc'[q] \in OnPath => home'[q] \in Conn
  <2>1. CASE pc[q] \in OnPath
    BY <1>1, <1>3, <2>1 DEF HomeOK, TypeOK
  <2>2. ASSUME pc[q] \notin OnPath, pc'[q] \in OnPath PROVE home'[q] \in Conn
    <3>1. PICK c \in Conn : MigratePath(q, c)
      BY <2>2, EntersPath
    <3> QED
      BY <1>1, <1>2, <3>1 DEF Sets, TypeOK
  <2> QED
    BY <2>1, <2>2
<1>5. \A r \in Request \ {q} : pc'[r] = pc[r] /\ home'[r] = home[r]
  BY <1>1, <1>3 DEF Moves, TypeOK
<1> QED
  BY <1>4, <1>5 DEF HomeOK

\* Where names are resolved beside such a tenant.
LEMMA PathElsewhere ==
    ASSUME CompletionInv, NEW q \in Request, Statement(q) \/ StatementFails(q),
           NEW r \in Request, NEW s \in Schema, r \in store[s].granted, peers[r] = {},
           Steady(r), NEW p \in Request \ {r}, pc'[p] \in OnPath
    PROVE  searchPath'[home'[p]] # s
<1>1. Moves(q) /\ Inv /\ GrantedOK(r) /\ TypeOK /\ HomeOK
  BY StatementMoves DEF CompletionInv, Inv
<1>2. ASSUME NEW d \in Conn, Sets(q, d)
      PROVE  /\ schemaName[q] # s
             /\ searchPath' = [searchPath EXCEPT ![d] = schemaName[q]]
             /\ home' = [home EXCEPT ![q] = d]
  <2>1. pc[q] \in {"migratePath", "adminPath"} /\ q \in Serving
    BY <1>2 DEF Sets, MigratePath, AdminPath, SetPath, Serving, InFlight, Trying
  <2>2. q # r
    BY <1>1, <2>1 DEF GrantedOK, Cleaning, Answered
  <2>3. schemaName[q] # s
    BY <1>1, <2>1, <2>2 DEF GrantedOK, Managing
  <2> QED
    BY <1>2, <2>3 DEF Sets, MigratePath, AdminPath, SetPath
<1>3. CASE pc[p] \in OnPath
  <2>1. searchPath[home[p]] # s /\ home[p] \in Conn
    BY <1>1, <1>3 DEF GrantedOK, HomeOK, Serving, InFlight, OnPath
  <2>2. ASSUME NEW d \in Conn, Sets(q, d) PROVE searchPath'[home'[p]] # s
    BY <1>1, <1>2, <2>1, <2>2 DEF TypeOK
  <2>3. ASSUME NEW d \in Conn, Clears(d) PROVE searchPath'[home'[p]] # s
    BY <1>1, <2>1, <2>3, SchemaAssumption DEF Clears, TypeOK
  <2> QED
    BY <2>1, <2>2, <2>3, Kinds
<1>4. CASE pc[p] \notin OnPath
  <2>1. p = q
    BY <1>1, <1>4 DEF Moves
  <2>2. PICK d \in Conn : MigratePath(q, d)
    BY <1>1, <1>4, <2>1, EntersPath
  <2> QED
    BY <1>1, <1>2, <2>1, <2>2 DEF Sets, TypeOK
<1> QED
  BY <1>3, <1>4

LEMMA GrantedStatement ==
    ASSUME CompletionInv, NEW q \in Request, Statement(q) \/ StatementFails(q),
           NEW r \in Request
    PROVE  GrantedOK(r)'
<1>1. Moves(q) /\ Inv /\ GrantedOK(r) /\ input' = input /\ peers' = peers
  BY StatementMoves DEF CompletionInv, Inv, Moves
<1>2. SUFFICES ASSUME NEW s \in Schema, r \in store'[s].granted, peers[r] = {}, Steady(r)'
               PROVE  /\ s = SchemaOf[input[r].slug] /\ Complete(r)'
                      /\ pc'[r] \in {"adminReset", "lost"} \cup Cleaning \cup Answered
                      /\ \A p \in Serving' \ {r} :
                          /\ schemaName'[p] = s => pc'[p] \in Managing \cup {"checkSchema"}
                          /\ pc'[p] \in OnPath => searchPath'[home'[p]] # s
                      /\ strayed' = {} => Unmixed(r)'
  BY <1>1 DEF GrantedOK
<1>S. Steady(r) /\ (strayed' = {} => strayed = {})
  BY <1>1, <1>2 DEF Moves, Steady
<1>T. store'[s] \in Content
  BY <1>1, InvStatement DEF Inv, TypeOK
<1>3. CASE r \notin store[s].granted
  <2>1. q = r /\ \E d \in Conn : AssignRole(r, d) /\ searchPath[d] = s
    BY <1>1, <1>2, <1>3, Grants
  <2>2. pc[r] = "assignRole" /\ IsCreate(r)
    BY <1>1, <2>1
       DEF AssignRole, Inv, ControlOK, Creating, Trying, CreateInput, IsCreate
  <2>3. s = SchemaOf[input[r].slug]
    <3>1. PICK d \in Conn : AssignRole(r, d) /\ searchPath[d] = s
      BY <2>1
    <3>2. d = home[r]
      BY <1>1, <1>2, <2>1, <3>1, SteadyHome DEF AssignRole
    <3>3. FilledOK(r)
      BY DEF CompletionInv
    <3> QED
      BY <1>S, <1>2, <2>2, <3>1, <3>2, <3>3 DEF FilledOK
  <2>4. FilledOK(r)'
    BY <1>2, <2>1, <2>2, OwnFilled
  <2>5. pc'[r] = "adminReset"
    <3>1. PICK d \in Conn : AssignRole(r, d)
      BY <2>1
    <3>2. store' # store
      BY <1>2, <1>3
    <3> QED
      BY <1>1, <3>1, <3>2 DEF AssignRole, Goto, Inv, TypeOK
  <2>6. Complete(r)' /\ Unmixed(r)'
    <3>1. /\ s \in schemas' /\ Table \subseteq store'[s].tables
          /\ store'[s].superAdmin
          /\ store'[s].admins = {r} /\ store'[s].granted = {r}
      BY <1>1, <1>2, <2>2, <2>3, <2>4, <2>5 DEF FilledOK, IsCreate, OnPath, Trying
    <3>2. store'[s].tables = Table
      BY <1>T, <3>1 DEF Content
    <3> QED
      BY <1>1, <2>3, <3>1, <3>2 DEF Complete, Unmixed
  <2>7. Serving' \subseteq {r}
    BY <1>1, <1>2, <2>1, Alone DEF Serving, Moves
  <2> QED
    BY <2>3, <2>5, <2>6, <2>7
<1>4. CASE r \in store[s].granted
  <2>1. Grows(s) /\ s \in schemas' /\ (strayed' = {} => store'[s] = store[s])
    BY <1>S, <1>2, <1>4, GrowsOrDropped DEF EmptySchema
  <2>2. /\ s = SchemaOf[input[r].slug] /\ Complete(r)
        /\ pc[r] \in {"adminReset", "lost"} \cup Cleaning \cup Answered
        /\ \A p \in Serving \ {r} :
              schemaName[p] = s => pc[p] \in Managing \cup {"checkSchema"}
        /\ strayed = {} => Unmixed(r)
    BY <1>1, <1>S, <1>2, <1>4 DEF GrantedOK
  <2>3. Complete(r)'
    <3>1. store'[s].tables = Table
      BY <1>T, <2>1, <2>2 DEF Content, Complete, Grows
    <3> QED
      BY <1>1, <2>1, <2>2, <3>1 DEF Complete, Grows
  <2>U. strayed' = {} => Unmixed(r)'
    BY <1>1, <1>S, <2>1, <2>2 DEF Unmixed
  <2>4. pc'[r] \in {"adminReset", "lost"} \cup Cleaning \cup Answered
    <3>1. CASE q # r
      BY <1>1, <2>2, <3>1 DEF Moves
    <3>2. CASE q = r
      <4>1. pc[r] \in {"adminReset"} \cup Cleaning
        BY <1>1, <2>2, <3>2 DEF Moves, InFlight, Checking, Trying, Cleaning, Managing,
           Answered
      <4> QED
        BY <1>1, <3>2, <4>1
           DEF Statement, Raw, StatementFails, FailsWithoutEffect, ReplyLost,
               CheckSlug, CheckSchema, InsertTenant, CreateSchema, MigratePath,
               AdminPath, SetPath, MigrateReset, AdminReset, ResetPath, Migrate,
               InsertRole, InsertUser, AssignRole, CleanRecord, CleanSchema,
               DropSchema, Drop, Find, UpdateRow, Deactivate, DeleteRow, Goto, Inv,
               TypeOK, Checking, Cleaning, Managing, Answered, Trying
    <3> QED
      BY <3>1, <3>2
  <2>5. ASSUME NEW p \in Request \ {r}, pc'[p] \in InFlight, schemaName'[p] = s
        PROVE  pc'[p] \in Managing \cup {"checkSchema"}
    <3>1. CASE p = q
      <4>1. q \in Serving \ {r}
        BY <1>1, <3>1, <2>5 DEF Moves, Serving
      <4> QED
        BY <2>2, <2>5, <3>1, <4>1, Beside DEF Complete
    <3>2. CASE p # q
      BY <1>1, <2>2, <2>5, <3>2 DEF Moves, Serving
    <3> QED
      BY <3>1, <3>2
  <2> QED
    BY <1>S, <1>2, <1>4, <2>2, <2>3, <2>U, <2>4, <2>5, PathElsewhere DEF Serving
<1> QED
  BY <1>3, <1>4

LEMMA HeldStatement ==
    ASSUME CompletionInv, NEW q \in Request, Statement(q) \/ StatementFails(q),
           NEW r \in Request
    PROVE  HeldOK(r)'
<1>1. Moves(q) /\ Inv /\ input' = input /\ peers' = peers /\ (Steady(r)' => Steady(r))
  BY StatementMoves DEF CompletionInv, Inv, Moves, Steady
<1>2. SUFFICES ASSUME pc'[r] = "created", peers[r] = {}, Steady(r), ~Deleting(r)
               PROVE  r \in store'[SchemaOf[input[r].slug]].granted
  BY <1>1, DeletingStays DEF HeldOK
<1> DEFINE s == SchemaOf[input[r].slug]
<1>3. CASE q = r
  <2>1. \E d \in Conn : AdminReset(r, d)
    <3>1. pc[r] \in Creating /\ pc'[r] = "created"
      BY <1>1, <1>2, <1>3 DEF Moves
    <3>2. ~StatementFails(r)
      BY <1>1, <3>1 DEF StatementFails, FailsWithoutEffect, ReplyLost, Goto, Inv, TypeOK
    <3>3. ~CleanRecord(r) /\ ~CleanSchema(r) /\ ~DropSchema(r)
      BY <1>1, <3>1 DEF CleanRecord, CleanSchema, DropSchema, Drop, Goto, Inv, TypeOK
    <3>4. ~Find(r) /\ ~UpdateRow(r) /\ ~Deactivate(r) /\ ~DeleteRow(r)
      BY <3>1 DEF Find, UpdateRow, Deactivate, DeleteRow, Creating, Checking, Trying,
         Cleaning
    <3>5. ~CheckSlug(r) /\ ~CheckSchema(r) /\ ~InsertTenant(r) /\ ~CreateSchema(r)
      BY <1>1, <3>1 DEF CheckSlug, CheckSchema, InsertTenant, CreateSchema, Goto, Inv,
         TypeOK
    <3>6. ASSUME NEW d \in Conn, Raw(r, d) PROVE AdminReset(r, d)
      BY <1>1, <3>1, <3>6 DEF Raw, MigratePath, MigrateReset, AdminPath, SetPath,
         ResetPath, Migrate, NextTable, InsertRole, InsertUser, AssignRole, Goto, Inv,
         TypeOK
    <3> QED
      BY <1>3, <3>2, <3>3, <3>4, <3>5, <3>6 DEF Statement
  <2>2. pc[r] = "adminReset" /\ store' = store
    BY <2>1 DEF AdminReset, ResetPath
  <2>3. IsCreate(r)
    BY <1>1, <2>2 DEF Inv, ControlOK, Creating, Trying, CreateInput, IsCreate
  <2>4. FilledOK(r)
    BY DEF CompletionInv
  <2>5. store[s].granted = {r}
    BY <1>2, <2>2, <2>3, <2>4 DEF FilledOK
  <2> QED
    BY <2>2, <2>5
<1>4. CASE q # r
  <2>1. pc[r] = "created" /\ IsCreate(r) /\ pc[q] \in InFlight
    BY <1>1, <1>2, <1>4 DEF Moves, Inv, ControlOK, CreateInput, IsCreate
  <2>2. s \in Schema /\ r \in store[s].granted
    BY <1>1, <1>2, <2>1, OwnSchema DEF CompletionInv, HeldOK
  <2>3. ~(CleanSchema(q) \/ DropSchema(q)) \/ schemaName[q] # s
    BY <1>1, <1>2, <2>1, OthersManage DEF CleanSchema, DropSchema, Drop, Managing
  <2> QED
    BY <1>2, <2>2, <2>3, GrowsOrDropped DEF Grows
<1> QED
  BY <1>3, <1>4

----------------------------------------------------------------------------
(* Every step *)

LEMMA CompletionStatement ==
    ASSUME CompletionInv, NEW q \in Request, Statement(q) \/ StatementFails(q)
    PROVE  CompletionInv'
<1>1. Inv /\ Inv' /\ Moves(q) /\ VacantOK' /\ StartOK' /\ HomeOK'
  BY InvStatement, VacantStep, StartStep, HomeStep, StatementMoves DEF CompletionInv, Inv
<1>2. ASSUME NEW r \in Request PROVE FilledOK(r)'
  <2>1. SUFFICES ASSUME IsCreate(r), peers[r] = {}, Steady(r)' PROVE FilledOK(r)'
    BY <1>1 DEF Moves, IsCreate, FilledOK
  <2>2. CASE q = r
    BY <2>1, <2>2, OwnFilled
  <2>3. CASE q # r
    <3>1. pc'[r] = pc[r] /\ pc[r] \notin InFlight
      BY <1>1, <2>1, <2>3, Alone DEF Moves
    <3> QED
      BY <3>1 DEF FilledOK, OnPath, InFlight, Trying
  <2> QED
    BY <2>2, <2>3
<1>3. \A r \in Request : GrantedOK(r)' /\ HeldOK(r)'
  BY GrantedStatement, HeldStatement
<1> QED
  BY <1>1, <1>2, <1>3 DEF CompletionInv

LEMMA CompletionBegin ==
    ASSUME CompletionInv, NEW q \in Request, Begin(q)
    PROVE  CompletionInv'
<1>1. Inv /\ Inv'
  BY InvStep DEF CompletionInv, Next
<1>2. /\ pc[q] = "idle" /\ pc'[q] \in {"checkSlug", "find"}
      /\ \A p \in Request \ {q} : /\ pc'[p] = pc[p] /\ peers[p] \subseteq peers'[p]
                                  /\ pc[p] = "idle" => peers'[p] = peers[p]
      /\ UNCHANGED <<schemas, store, searchPath, at, input, schemaName, home, strayed>>
  BY <1>1 DEF Begin, Goto, Inv, TypeOK, Serving, InFlight, Checking, Trying,
              Cleaning, Managing
<1>3. VacantOK' /\ StartOK' /\ HomeOK'
  BY <1>1, <1>2 DEF CompletionInv, VacantOK, StartOK, HomeOK, OnPath, Trying
<1>4. ASSUME NEW r \in Request PROVE FilledOK(r)' /\ GrantedOK(r)' /\ HeldOK(r)'
  <2>1. Deleting(r) => Deleting(r)'
    BY <1>2 DEF Deleting
  <2>2. FilledOK(r) /\ GrantedOK(r) /\ HeldOK(r)
    BY DEF CompletionInv
  <2>3. CASE r = q
    <3>1. FilledOK(r)' /\ HeldOK(r)'
      BY <1>2, <2>3 DEF FilledOK, HeldOK, OnPath, Trying
    <3>2. Steady(r) => \A s \in Schema : r \notin store[s].granted
      BY <1>2, <2>2, <2>3 DEF CompletionInv, StartOK, GrantedOK, Cleaning, Answered
    <3> QED
      BY <1>2, <3>1, <3>2 DEF GrantedOK, Steady
  <2>4. CASE r # q
    <3>1. pc'[r] = pc[r] /\ (peers'[r] = {} => peers[r] = {})
      BY <1>2, <2>4
    <3>2. FilledOK(r)' /\ HeldOK(r)'
      BY <1>2, <2>1, <2>2, <3>1 DEF FilledOK, HeldOK, IsCreate, Steady
    <3>3. schemaName'[q] = None /\ pc'[q] \notin OnPath
      BY <1>1, <1>2 DEF Inv, ControlOK, OnPath, Trying
    <3>4. \A p \in Serving' \ {q} : p \in Serving /\ pc'[p] = pc[p]
      BY <1>2 DEF Serving
    <3>5. GrantedOK(r)'
      <4>1. SUFFICES ASSUME NEW s \in Schema, r \in store[s].granted, peers[r] = {},
                            Steady(r)
                     PROVE  /\ s = SchemaOf[input[r].slug] /\ Complete(r)'
                            /\ pc[r] \in {"adminReset", "lost"} \cup Cleaning \cup Answered
                            /\ \A p \in Serving' \ {r} :
                                /\ schemaName[p] = s =>
                                      pc'[p] \in Managing \cup {"checkSchema"}
                                /\ pc'[p] \in OnPath => searchPath[home[p]] # s
                            /\ strayed = {} => Unmixed(r)
        BY <1>2, <3>1 DEF GrantedOK, Steady, Unmixed
      <4>2. Complete(r)' <=> Complete(r)
        BY <1>2 DEF Complete
      <4> QED
        BY <1>2, <2>2, <3>3, <3>4, <4>1, <4>2, SchemaAssumption DEF GrantedOK
    <3> QED
      BY <3>2, <3>5
  <2> QED
    BY <2>3, <2>4
<1> QED
  BY <1>1, <1>3, <1>4 DEF CompletionInv

LEMMA CompletionCrash ==
    ASSUME CompletionInv, Crash
    PROVE  CompletionInv'
<1>1. Inv /\ Inv'
  BY InvStep DEF CompletionInv, Next
<1>2. /\ \A p \in Request : pc'[p] = pc[p] \/ pc'[p] = "lost"
      /\ \A p \in Request : pc'[p] \notin InFlight
      /\ Serving' = {}
      /\ UNCHANGED <<schemas, store, at, input, peers, strayed>>
  BY DEF Crash, Serving, InFlight, Checking, Trying, Cleaning, Managing
<1>3. VacantOK' /\ StartOK' /\ HomeOK'
  BY <1>2 DEF CompletionInv, VacantOK, StartOK, HomeOK, OnPath, InFlight
<1>4. ASSUME NEW r \in Request PROVE FilledOK(r)' /\ GrantedOK(r)' /\ HeldOK(r)'
  <2>1. Deleting(r) => Deleting(r)'
    BY <1>2 DEF Deleting
  <2>2. FilledOK(r)'
    BY <1>2 DEF FilledOK, OnPath, InFlight, Trying
  <2>3. (Complete(r)' <=> Complete(r)) /\ (Unmixed(r)' <=> Unmixed(r))
    BY <1>2 DEF Complete, Unmixed
  <2>4. GrantedOK(r)'
    BY <1>2, <2>3 DEF CompletionInv, GrantedOK, Steady
  <2>5. HeldOK(r)'
    BY <1>2, <2>1 DEF CompletionInv, HeldOK, Steady
  <2> QED
    BY <2>2, <2>4, <2>5
<1> QED
  BY <1>1, <1>3, <1>4 DEF CompletionInv

LEMMA CompletionUnchanged ==
    ASSUME CompletionInv, UNCHANGED vars
    PROVE  CompletionInv'
<1>1. Inv' /\ UNCHANGED <<schemas, store, searchPath, at, input, peers, pc, schemaName,
                          home, strayed>>
  BY InvStep DEF CompletionInv, vars
<1>2. VacantOK' /\ StartOK' /\ HomeOK'
  BY <1>1 DEF CompletionInv, VacantOK, StartOK, HomeOK
<1>3. ASSUME NEW r \in Request PROVE FilledOK(r)' /\ GrantedOK(r)' /\ HeldOK(r)'
  <2>1. /\ Complete(r)' = Complete(r) /\ Unmixed(r)' = Unmixed(r)
        /\ Deleting(r)' = Deleting(r) /\ Serving' = Serving
    BY <1>1 DEF Complete, Unmixed, Deleting, Serving
  <2>2. FilledOK(r) /\ GrantedOK(r) /\ HeldOK(r)
    BY DEF CompletionInv
  <2>3. FilledOK(r)' /\ HeldOK(r)'
    BY <1>1, <2>1, <2>2 DEF FilledOK, HeldOK, IsCreate, Steady
  <2>4. GrantedOK(r)'
    BY <1>1, <2>1, <2>2 DEF GrantedOK, Steady
  <2> QED
    BY <2>3, <2>4
<1> QED
  BY <1>1, <1>2, <1>3 DEF CompletionInv

LEMMA CompletionInit == Init => CompletionInv
<1> SUFFICES ASSUME Init PROVE CompletionInv
  OBVIOUS
<1>1. Inv /\ VacantOK /\ StartOK /\ HomeOK
  BY InvInit DEF Init, VacantOK, StartOK, HomeOK, OnPath, Trying
<1>2. \A r \in Request : FilledOK(r) /\ GrantedOK(r) /\ HeldOK(r)
  BY DEF Init, FilledOK, GrantedOK, HeldOK, EmptySchema, OnPath, Trying
<1> QED
  BY <1>1, <1>2 DEF CompletionInv

LEMMA CompletionStep ==
    ASSUME CompletionInv, [Next]_vars
    PROVE  CompletionInv'
BY CompletionBegin, CompletionStatement, CompletionCrash, CompletionUnchanged
   DEF Next, AllAnswered

\* What CompletionInv says of a creation that was answered.
LEMMA CompletionMeans == CompletionInv => CreatedIsComplete
<1> SUFFICES ASSUME CompletionInv, NEW r \in Request, pc[r] = "created", peers[r] = {},
                    Steady(r), ~Deleting(r)
             PROVE  Complete(r) /\ (strayed = {} => Unmixed(r))
  BY DEF CreatedIsComplete
<1>1. IsCreate(r)
  BY DEF CompletionInv, Inv, ControlOK, CreateInput, IsCreate
<1> QED
  BY <1>1, OwnSchema DEF CompletionInv, HeldOK, GrantedOK

\* Whatever the pool's size and however requests overlap, fail and are cut off:
\* a creation that nobody overlaps and whose statements the pool serves on the
\* connection of their SET has put into its schema exactly what its statements
\* so far are meant to put there, and no other request takes that away.
\* (create 15-91)
THEOREM CompletionInvariant == Spec => []CompletionInv
<1>1. Init => CompletionInv
  BY CompletionInit
<1>2. CompletionInv /\ [Next]_vars => CompletionInv'
  BY CompletionStep
<1> QED
  BY <1>1, <1>2, PTL DEF Spec

\* Whatever the pool's size and whatever other requests, failures and restarts
\* came before and come after: until it is hard deleted, the tenant of a
\* creation that no other request overlapped and that did not stray has every
\* table, its role and its admin; and nothing else, if no creation strayed.
\* (create 15-91)
THEOREM CreationComplete == Spec => []CreatedIsComplete
<1>1. CompletionInv => CreatedIsComplete
  BY CompletionMeans
<1> QED
  BY <1>1, CompletionInvariant, PTL
=============================================================================
