----------------------- MODULE TenantLifecycleProofs -----------------------
(***************************************************************************)
(* Theorems about TenantLifecycle, for every set of requests, slugs,       *)
(* connections and inputs and every bound.                                 *)
(***************************************************************************)
EXTENDS TenantLifecycle, TLAPS

USE DEF db, history

\* The migration creates seven tables, each of them a table of the schema.
LEMMA MigrationTables ==
    /\ Len(Migration) = 7
    /\ \A i \in 1..7 : Migration[i] \in Table
BY DEF Migration, Table

\* An input is of the kind its operation says.
LEMMA InputKinds ==
    ASSUME NEW i \in Input
    PROVE  /\ i.op = "create" => i \in CreateInput
           /\ i.op # "create" => i \in UpdateInput \cup TargetInput
           /\ i.op = "update" => i \in UpdateInput
           /\ i \in CreateInput => i.slug \in Slug /\ i.domain \in Domain \cup {None} /\ i.op = "create"
           /\ i \in UpdateInput => i.domain \in Domain \cup {None} /\ i.status \in Status \cup {None} /\ i.op = "update"
           /\ i \in UpdateInput \cup TargetInput => i.id \in Request /\ i.op \in {"update", "remove", "hardDelete"}
BY InputAssumption DEF CreateInput, UpdateInput, TargetInput

\* Writing the optional fields of an update keeps a row a row, and its keys.
LEMMA WrittenRow ==
    ASSUME NEW t \in Row, NEW i \in UpdateInput
    PROVE  /\ Written(t, i) \in Row
           /\ Written(t, i).id = t.id
           /\ Written(t, i).slug = t.slug
           /\ Written(t, i).schema = t.schema
BY DEF Row, UpdateInput, Written, Status

\* Each write of a raw statement keeps the store well typed.
LEMMA StoreWrites ==
    ASSUME store \in [Schema -> Content], NEW s \in Schema, NEW r \in Request
    PROVE  /\ \A t \in Table :
                [store EXCEPT ![s].tables = @ \cup {t}] \in [Schema -> Content]
           /\ [store EXCEPT ![s].superAdmin = TRUE] \in [Schema -> Content]
           /\ [store EXCEPT ![s].admins = @ \cup {r}] \in [Schema -> Content]
           /\ [store EXCEPT ![s].granted = @ \cup {r}] \in [Schema -> Content]
           /\ [store EXCEPT ![s] = EmptySchema] \in [Schema -> Content]
<1> DEFINE k == store[s]
<1>1. k \in Content
  OBVIOUS
<1>2. \A t \in Table : [k EXCEPT !.tables = @ \cup {t}] \in Content
  BY <1>1 DEF Content
<1>3. [k EXCEPT !.superAdmin = TRUE] \in Content
  BY <1>1 DEF Content
<1>4. [k EXCEPT !.admins = @ \cup {r}] \in Content
  BY <1>1 DEF Content
<1>5. [k EXCEPT !.granted = @ \cup {r}] \in Content
  BY <1>1 DEF Content
<1>6. EmptySchema \in Content
  BY DEF EmptySchema, Content
<1> QED
  BY <1>2, <1>3, <1>4, <1>5, <1>6

LEMMA DeactivatedRow ==
    ASSUME NEW t \in Row
    PROVE  /\ Deactivated(t) \in Row
           /\ Deactivated(t).id = t.id
           /\ Deactivated(t).slug = t.slug
           /\ Deactivated(t).schema = t.schema
BY DEF Row, Deactivated, Status

\* Both updates of a row, applied to the table.
LEMMA UpdatedRows ==
    ASSUME tenants \subseteq Row, NEW r \in Request
    PROVE  /\ {IF t.id = input[r].id THEN Deactivated(t) ELSE t : t \in tenants} \subseteq Row
           /\ input[r] \in UpdateInput =>
                 {IF t.id = input[r].id THEN Written(t, input[r]) ELSE t : t \in tenants}
                    \subseteq Row
<1>1. \A t \in tenants : Deactivated(t) \in Row
  BY DeactivatedRow
<1>2. input[r] \in UpdateInput => \A t \in tenants : Written(t, input[r]) \in Row
  BY WrittenRow
<1> QED
  BY <1>1, <1>2

----------------------------------------------------------------------------
(* Type correctness *)

LEMMA TypeInit == Init => TypeOK /\ ControlOK
<1> SUFFICES ASSUME Init PROVE TypeOK /\ ControlOK
  OBVIOUS
<1>1. 1 \in 1..Len(Migration)
  BY MigrationTables
<1>2. EmptySchema \in Content
  BY DEF EmptySchema, Content
<1>3. TypeOK
  BY <1>1, <1>2, BoundAssumption DEF Init, TypeOK
<1>4. ControlOK
  BY DEF Init, ControlOK, Creating, Checking, Trying, Cleaning, Managing, InFlight
<1> QED
  BY <1>3, <1>4

LEMMA TypeStep == TypeOK /\ ControlOK /\ [Next]_vars => TypeOK'
<1> SUFFICES ASSUME TypeOK, ControlOK, [Next]_vars PROVE TypeOK'
  OBVIOUS
<1> USE DEF TypeOK
<1> DEFINE Labels == InFlight \cup Answered \cup {"idle", "lost"}
<1>L. /\ InFlight \subseteq Labels /\ Answered \subseteq Labels
  OBVIOUS
<1>D. \A r \in Request :
         {IF t.id = input[r].id THEN Deactivated(t) ELSE t : t \in tenants} \subseteq Row
  BY UpdatedRows, Zenon
<1>W. \A r \in Request : input[r] \in UpdateInput =>
         {IF t.id = input[r].id THEN Written(t, input[r]) ELSE t : t \in tenants} \subseteq Row
  BY UpdatedRows, Zenon
<1>0. CASE UNCHANGED vars
  BY <1>0 DEF vars
<1>1. ASSUME NEW r \in Request, Begin(r) PROVE TypeOK'
  BY <1>1 DEF Begin, Goto, Serving, InFlight, Checking, Managing
<1>2. ASSUME NEW r \in Request, CheckSlug(r) PROVE TypeOK'
  <2>1. SchemaOf[input[r].slug] \in Schema
    BY <1>2, InputKinds, SchemaAssumption DEF CheckSlug, ControlOK, Creating, Checking
  <2>2. pc' \in [Request -> Labels]
    BY <1>2 DEF CheckSlug, Goto, InFlight, Checking, Answered
  <2>3. schemaName' \in [Request -> Schema \cup {None}]
    BY <1>2, <2>1 DEF CheckSlug
  <2> QED
    BY <1>2, <2>2, <2>3 DEF CheckSlug
<1>3. ASSUME NEW r \in Request, CheckSchema(r) PROVE TypeOK'
  BY <1>3 DEF CheckSchema, Goto, InFlight, Trying, Answered
<1>4. ASSUME NEW r \in Request, InsertTenant(r) PROVE TypeOK'
  <2>1. input[r].slug \in Slug /\ input[r].domain \in Domain \cup {None}
    BY <1>4, InputKinds DEF InsertTenant, ControlOK, Creating, Trying
  <2>2. schemaName[r] \in Schema
    BY <1>4 DEF InsertTenant, ControlOK, InFlight, Trying
  <2>3. tenants' \subseteq Row
    BY <1>4, <2>1, <2>2 DEF InsertTenant, Row, Status
  <2>4. pc' \in [Request -> Labels]
    BY <1>4 DEF InsertTenant, Goto, InFlight, Trying, Cleaning
  <2> QED
    BY <1>4, <2>3, <2>4 DEF InsertTenant
<1>5. ASSUME NEW r \in Request, CreateSchema(r) PROVE TypeOK'
  BY <1>5 DEF CreateSchema, Goto, InFlight, Trying, ControlOK
<1>6. ASSUME NEW r \in Request, NEW c \in Conn, MigratePath(r, c) PROVE TypeOK'
  BY <1>6 DEF MigratePath, SetPath, Goto, InFlight, Trying, ControlOK
<1>7. ASSUME NEW r \in Request, NEW c \in Conn, Migrate(r, c) PROVE TypeOK'
  <2>1. Migration[at[r]] \in Table
    BY MigrationTables
  <2>2. pc' \in [Request -> Labels]
    BY <1>7 DEF Migrate, NextTable, Goto, InFlight, Trying, Cleaning
  <2>3. at' \in [Request -> 1..Len(Migration)]
    BY <1>7, MigrationTables DEF Migrate, NextTable
  <2>4. store' \in [Schema -> Content]
    <3>1. CASE UNCHANGED store
      BY <3>1
    <3>2. CASE ~UNCHANGED store
      <4>1. searchPath[c] \in Schema
        BY <1>7, <3>2 DEF Migrate, CanCreate
      <4>2. store' = [store EXCEPT ![searchPath[c]].tables = @ \cup {Migration[at[r]]}]
        BY <1>7, <3>2 DEF Migrate
      <4> QED
        BY <4>1, <4>2, <2>1, StoreWrites
    <3> QED
      BY <3>1, <3>2
  <2> QED
    BY <1>7, <2>2, <2>3, <2>4 DEF Migrate, ServedBy
<1>8. ASSUME NEW r \in Request, NEW c \in Conn, MigrateReset(r, c) PROVE TypeOK'
  BY <1>8 DEF MigrateReset, ResetPath, ServedBy, Goto, InFlight, Trying
<1>9. ASSUME NEW r \in Request, NEW c \in Conn, AdminPath(r, c) PROVE TypeOK'
  BY <1>9 DEF AdminPath, SetPath, Goto, InFlight, Trying, ControlOK
<1>10. ASSUME NEW r \in Request, NEW c \in Conn, InsertRole(r, c) PROVE TypeOK'
  <2>1. pc' \in [Request -> Labels]
    BY <1>10 DEF InsertRole, Goto, InFlight, Trying, Cleaning
  <2>2. store' \in [Schema -> Content]
    <3>1. CASE UNCHANGED store
      BY <3>1
    <3>2. CASE ~UNCHANGED store
      <4>1. searchPath[c] \in Schema
        BY <1>10, <3>2 DEF InsertRole, Has
      <4>2. store' = [store EXCEPT ![searchPath[c]].superAdmin = TRUE]
        BY <1>10, <3>2 DEF InsertRole
      <4> QED
        BY <4>1, <4>2, StoreWrites
    <3> QED
      BY <3>1, <3>2
  <2> QED
    BY <1>10, <2>1, <2>2 DEF InsertRole, ServedBy
<1>11. ASSUME NEW r \in Request, NEW c \in Conn, InsertUser(r, c) PROVE TypeOK'
  <2>1. pc' \in [Request -> Labels]
    BY <1>11 DEF InsertUser, Goto, InFlight, Trying, Cleaning
  <2>2. store' \in [Schema -> Content]
    <3>1. CASE UNCHANGED store
      BY <3>1
    <3>2. CASE ~UNCHANGED store
      <4>1. searchPath[c] \in Schema
        BY <1>11, <3>2 DEF InsertUser, Has
      <4>2. store' = [store EXCEPT ![searchPath[c]].admins = @ \cup {r}]
        BY <1>11, <3>2 DEF InsertUser
      <4> QED
        BY <4>1, <4>2, StoreWrites
    <3> QED
      BY <3>1, <3>2
  <2> QED
    BY <1>11, <2>1, <2>2 DEF InsertUser, ServedBy
<1>12. ASSUME NEW r \in Request, NEW c \in Conn, AssignRole(r, c) PROVE TypeOK'
  <2>1. pc' \in [Request -> Labels]
    BY <1>12 DEF AssignRole, Goto, InFlight, Trying, Cleaning
  <2>2. store' \in [Schema -> Content]
    <3>1. CASE UNCHANGED store
      BY <3>1
    <3>2. CASE ~UNCHANGED store
      <4>1. searchPath[c] \in Schema
        BY <1>12, <3>2 DEF AssignRole, Has
      <4>2. store' = [store EXCEPT ![searchPath[c]].granted = @ \cup {r}]
        BY <1>12, <3>2 DEF AssignRole
      <4> QED
        BY <4>1, <4>2, StoreWrites
    <3> QED
      BY <3>1, <3>2
  <2> QED
    BY <1>12, <2>1, <2>2 DEF AssignRole, ServedBy
<1>13. ASSUME NEW r \in Request, NEW c \in Conn, AdminReset(r, c) PROVE TypeOK'
  BY <1>13 DEF AdminReset, ResetPath, ServedBy, Goto, InFlight, Trying, Answered
<1>14. ASSUME NEW r \in Request, CleanRecord(r) PROVE TypeOK'
  BY <1>14 DEF CleanRecord, Goto, InFlight, Cleaning
<1>15. ASSUME NEW r \in Request, CleanSchema(r) PROVE TypeOK'
  <2>1. schemaName[r] \in Schema
    BY <1>15 DEF CleanSchema, Drop, ControlOK, InFlight, Cleaning, Managing
  <2>2. pc' \in [Request -> Labels]
    BY <1>15 DEF CleanSchema, Drop, Goto, Answered, Cleaning
  <2>3. store' \in [Schema -> Content]
    BY <1>15, <2>1, StoreWrites DEF CleanSchema, Drop
  <2> QED
    BY <1>15, <2>2, <2>3 DEF CleanSchema, Drop
<1>16. ASSUME NEW r \in Request, Find(r) PROVE TypeOK'
  <2>1. input[r].op \in {"update", "remove", "hardDelete"}
    BY <1>16, InputKinds DEF Find, ControlOK, Managing
  <2>2. After(input[r].op) \in Labels /\ "notFound" \in Labels
    BY <2>1 DEF After, InFlight, Managing, Answered
  <2>3. pc' \in [Request -> Labels]
    BY <1>16, <2>2 DEF Find, Goto
  <2>4. \A t \in tenants : t.schema \in Schema
    BY DEF Row
  <2>5. schemaName' \in [Request -> Schema \cup {None}]
    BY <1>16, <2>4 DEF Find
  <2> QED
    BY <1>16, <2>3, <2>5 DEF Find
<1>17. ASSUME NEW r \in Request, UpdateRow(r) PROVE TypeOK'
  <2>1. input[r] \in UpdateInput
    BY <1>17 DEF UpdateRow, ControlOK
  <2>3. tenants' \subseteq Row
    BY <1>17, <2>1, <1>W DEF UpdateRow
  <2>4. pc' \in [Request -> Labels]
    BY <1>17 DEF UpdateRow, Goto, Answered
  <2> QED
    BY <1>17, <2>3, <2>4 DEF UpdateRow
<1>18. ASSUME NEW r \in Request, Deactivate(r) PROVE TypeOK'
  <2>2. tenants' \subseteq Row
    BY <1>18, <1>D DEF Deactivate
  <2>3. pc' \in [Request -> Labels]
    BY <1>18 DEF Deactivate, Goto, Answered
  <2> QED
    BY <1>18, <2>2, <2>3 DEF Deactivate
<1>19. ASSUME NEW r \in Request, DropSchema(r) PROVE TypeOK'
  <2>1. schemaName[r] \in Schema
    BY <1>19 DEF DropSchema, Drop, ControlOK, InFlight, Cleaning, Managing
  <2>2. pc' \in [Request -> Labels]
    BY <1>19 DEF DropSchema, Drop, Goto, InFlight, Managing
  <2>3. store' \in [Schema -> Content]
    BY <1>19, <2>1, StoreWrites DEF DropSchema, Drop
  <2> QED
    BY <1>19, <2>2, <2>3 DEF DropSchema, Drop
<1>20. ASSUME NEW r \in Request, DeleteRow(r) PROVE TypeOK'
  BY <1>20 DEF DeleteRow, Goto, Answered
<1>21. ASSUME NEW r \in Request, StatementFails(r) PROVE TypeOK'
  <2>1. faults' \in 0..MaxFaults
    BY <1>21, BoundAssumption DEF StatementFails
  <2>2. pc' \in [Request -> Labels]
    BY <1>21 DEF StatementFails, FailsWithoutEffect, ReplyLost, Goto, InFlight,
       Cleaning, Answered
  <2>3. tenants' \subseteq Row
    <3>1. CASE FailsWithoutEffect(r)
      BY <3>1 DEF FailsWithoutEffect
    <3>2. CASE ReplyLost(r)
      <4>1. pc[r] = "updateRow" => input[r] \in UpdateInput
        BY DEF ControlOK
      <4> QED
        BY <3>2, <4>1, <1>W, <1>D DEF ReplyLost
    <3> QED
      BY <1>21, <3>1, <3>2 DEF StatementFails
  <2>4. /\ schemas' = schemas /\ store' = store
        /\ searchPath' \in [Conn -> Schema \cup {Public}]
    BY <1>21 DEF StatementFails, FailsWithoutEffect, ReplyLost
  <2> QED
    BY <1>21, <2>1, <2>2, <2>3, <2>4 DEF StatementFails
<1>22. CASE Crash
  BY <1>22, BoundAssumption DEF Crash, Serving
<1>23. CASE AllAnswered
  BY <1>23 DEF AllAnswered, vars
<1> QED
  BY <1>0, <1>1, <1>2, <1>3, <1>4, <1>5, <1>6, <1>7, <1>8, <1>9, <1>10, <1>11,
     <1>12, <1>13, <1>14, <1>15, <1>16, <1>17, <1>18, <1>19, <1>20, <1>21,
     <1>22, <1>23 DEF Next, Statement, Raw

----------------------------------------------------------------------------
(* Control: where a request goes, and what it leaves alone *)

\* What any statement of r, failing or not, does to control states and locals:
\* those of other requests stay, its own local is set once, by its lookup.
Moves(r) ==
    /\ pc[r] \in InFlight
    /\ pc'[r] \notin {"idle", "checkSlug", "find"}
    /\ pc'[r] \in Creating \cup {"created"} => pc[r] \in Creating
    /\ pc'[r] \in Managing => pc[r] \in Managing
    /\ pc'[r] = "updateRow" => input[r].op = "update"
    /\ pc'[r] \in {"dropSchema", "deleteRow"} => input[r].op = "hardDelete"
    /\ pc'[r] = "notFound" => pc[r] = "find"
    /\ pc'[r] \in InFlight => schemaName'[r] \in Schema
    /\ input' = input /\ peers' = peers
    /\ strayed' = strayed \/ strayed' = strayed \cup {r}
    /\ \A q \in Request \ {r} : pc'[q] = pc[q] /\ schemaName'[q] = schemaName[q]
    /\ \/ schemaName'[r] = schemaName[r]
       \/ /\ pc[r] = "checkSlug"
          /\ schemaName'[r] = SchemaOf[input[r].slug]
       \/ /\ pc[r] = "find"
          /\ \E t \in tenants : t.id = input[r].id /\ schemaName'[r] = t.schema

LEMMA StatementMoves ==
    ASSUME TypeOK, ControlOK, NEW r \in Request, Statement(r) \/ StatementFails(r)
    PROVE  Moves(r)
<1> USE DEF TypeOK, Moves, Goto, InFlight, Creating, Checking, Trying, Cleaning, Managing
<1>1. ASSUME CheckSlug(r) PROVE Moves(r)
  <2>1. SchemaOf[input[r].slug] \in Schema
    BY <1>1, InputKinds, SchemaAssumption DEF CheckSlug, ControlOK
  <2> QED
    BY <1>1, <2>1 DEF CheckSlug
<1>2. ASSUME CheckSchema(r) PROVE Moves(r)
  BY <1>2 DEF CheckSchema, ControlOK, Answered
<1>3. ASSUME InsertTenant(r) PROVE Moves(r)
  BY <1>3 DEF InsertTenant, ControlOK, Answered
<1>4. ASSUME CreateSchema(r) PROVE Moves(r)
  BY <1>4 DEF CreateSchema, ControlOK, Answered
<1>5. ASSUME NEW c \in Conn, MigratePath(r, c) PROVE Moves(r)
  BY <1>5 DEF MigratePath, SetPath, ControlOK, Answered
<1>6. ASSUME NEW c \in Conn, Migrate(r, c) PROVE Moves(r)
  BY <1>6 DEF Migrate, NextTable, ServedBy, ControlOK, Answered
<1>7. ASSUME NEW c \in Conn, MigrateReset(r, c) PROVE Moves(r)
  BY <1>7 DEF MigrateReset, ResetPath, ServedBy, ControlOK, Answered
<1>8. ASSUME NEW c \in Conn, AdminPath(r, c) PROVE Moves(r)
  BY <1>8 DEF AdminPath, SetPath, ControlOK, Answered
<1>9. ASSUME NEW c \in Conn, InsertRole(r, c) PROVE Moves(r)
  BY <1>9 DEF InsertRole, ServedBy, ControlOK, Answered
<1>10. ASSUME NEW c \in Conn, InsertUser(r, c) PROVE Moves(r)
  BY <1>10 DEF InsertUser, ServedBy, ControlOK, Answered
<1>11. ASSUME NEW c \in Conn, AssignRole(r, c) PROVE Moves(r)
  BY <1>11 DEF AssignRole, ServedBy, ControlOK, Answered
<1>12. ASSUME NEW c \in Conn, AdminReset(r, c) PROVE Moves(r)
  BY <1>12 DEF AdminReset, ResetPath, ServedBy, ControlOK, Answered
<1>13. ASSUME CleanRecord(r) PROVE Moves(r)
  BY <1>13 DEF CleanRecord, ControlOK, Answered
<1>14. ASSUME CleanSchema(r) PROVE Moves(r)
  BY <1>14 DEF CleanSchema, Drop, ControlOK, Answered
<1>15. ASSUME Find(r) PROVE Moves(r)
  <2>1. input[r].op \in {"update", "remove", "hardDelete"}
    BY <1>15, InputKinds DEF Find, ControlOK
  <2>2. \A t \in tenants : t.schema \in Schema
    BY DEF Row
  <2> QED
    BY <1>15, <2>1, <2>2 DEF Find, After
<1>16. ASSUME UpdateRow(r) PROVE Moves(r)
  BY <1>16 DEF UpdateRow, ControlOK, Answered
<1>17. ASSUME Deactivate(r) PROVE Moves(r)
  BY <1>17 DEF Deactivate, ControlOK, Answered
<1>18. ASSUME DropSchema(r) PROVE Moves(r)
  BY <1>18 DEF DropSchema, Drop, ControlOK, Answered
<1>19. ASSUME DeleteRow(r) PROVE Moves(r)
  BY <1>19 DEF DeleteRow, ControlOK, Answered
<1>20. ASSUME StatementFails(r) PROVE Moves(r)
  <2>1. schemaName' = schemaName /\ input' = input /\ peers' = peers /\ strayed' = strayed
    BY <1>20 DEF StatementFails
  <2>2. CASE FailsWithoutEffect(r)
    BY <2>1, <2>2 DEF FailsWithoutEffect, ControlOK, Answered
  <2>3. CASE ReplyLost(r)
    BY <2>1, <2>3 DEF ReplyLost, ControlOK, Answered
  <2> QED
    BY <1>20, <2>2, <2>3 DEF StatementFails
<1> QED
  BY <1>1, <1>2, <1>3, <1>4, <1>5, <1>6, <1>7, <1>8, <1>9, <1>10, <1>11, <1>12, <1>13, <1>14, <1>15, <1>16, <1>17, <1>18, <1>19, <1>20 DEF Statement, Raw

LEMMA ControlStep == TypeOK /\ ControlOK /\ [Next]_vars => ControlOK'
<1> SUFFICES ASSUME TypeOK, ControlOK, [Next]_vars PROVE ControlOK'
  OBVIOUS
<1>1. ASSUME NEW r \in Request, Begin(r) PROVE ControlOK'
  BY <1>1, InputKinds DEF Begin, Goto, TypeOK, ControlOK, Creating, Checking,
     Trying, Cleaning, Managing, InFlight
<1>2. ASSUME NEW r \in Request, Statement(r) \/ StatementFails(r) PROVE ControlOK'
  <2>1. Moves(r)
    BY <1>2, StatementMoves
  <2>2. input[r].op = "update" => input[r] \in UpdateInput
    BY InputKinds DEF TypeOK
  <2> QED
    BY <2>1, <2>2 DEF Moves, ControlOK
<1>3. CASE Crash
  BY <1>3 DEF Crash, Serving, ControlOK, Creating, Checking, Trying, Cleaning,
     Managing, InFlight, TypeOK
<1>4. CASE UNCHANGED vars
  BY <1>4 DEF vars, ControlOK
<1> QED
  BY <1>1, <1>2, <1>3, <1>4 DEF Next, AllAnswered

LEMMA NamesStep ==
    TypeOK /\ ControlOK /\ NamesOK /\ RowsOK /\ [Next]_vars => NamesOK'
<1> SUFFICES ASSUME TypeOK, ControlOK, NamesOK, RowsOK, [Next]_vars PROVE NamesOK'
  OBVIOUS
<1> USE DEF NamesOK, Subject, IsCreate
<1>1. ASSUME NEW r \in Request, Begin(r) PROVE NamesOK'
  BY <1>1 DEF Begin
<1>2. ASSUME NEW r \in Request, Statement(r) \/ StatementFails(r) PROVE NamesOK'
  <2>1. Moves(r)
    BY <1>2, StatementMoves
  <2>2. CASE schemaName'[r] = schemaName[r]
    BY <2>1, <2>2 DEF Moves
  <2>3. CASE pc[r] = "checkSlug" /\ schemaName'[r] = SchemaOf[input[r].slug]
    <3>1. input[r].op = "create"
      BY <2>3, InputKinds DEF TypeOK, ControlOK, Creating, Checking
    <3> QED
      BY <2>1, <2>3, <3>1 DEF Moves
  <2>4. CASE /\ pc[r] = "find"
             /\ \E t \in tenants : t.id = input[r].id /\ schemaName'[r] = t.schema
    <3>1. input[r].op # "create"
      BY <2>4, InputKinds DEF TypeOK, ControlOK, Managing
    <3>2. schemaName'[r] = SchemaOf[input[input[r].id].slug]
      BY <2>4 DEF RowsOK
    <3> QED
      BY <2>1, <3>1, <3>2 DEF Moves
  <2> QED
    BY <2>1, <2>2, <2>3, <2>4 DEF Moves
<1>3. CASE Crash
  BY <1>3 DEF Crash
<1>4. CASE UNCHANGED vars
  BY <1>4 DEF vars
<1> QED
  BY <1>1, <1>2, <1>3, <1>4 DEF Next, AllAnswered

LEMMA PeersStep == TypeOK /\ ControlOK /\ PeersOK /\ [Next]_vars => PeersOK'
<1> SUFFICES ASSUME TypeOK, ControlOK, PeersOK, [Next]_vars PROVE PeersOK'
  OBVIOUS
<1> USE DEF PeersOK, Serving, TypeOK
<1>1. ASSUME NEW r \in Request, Begin(r) PROVE PeersOK'
  BY <1>1 DEF Begin, Goto
<1>2. ASSUME NEW r \in Request, Statement(r) \/ StatementFails(r) PROVE PeersOK'
  BY <1>2, StatementMoves DEF Moves
<1>3. CASE Crash
  BY <1>3 DEF Crash, InFlight, Checking, Trying, Cleaning, Managing
<1>4. CASE UNCHANGED vars
  BY <1>4 DEF vars
<1> QED
  BY <1>1, <1>2, <1>3, <1>4 DEF Next, AllAnswered

----------------------------------------------------------------------------
(* The registry: which rows and schemas a statement may touch *)

\* The steps that write public.tenants, and how.
LEMMA RowWrites ==
    ASSUME TypeOK, ControlOK, NEW r \in Request, Statement(r) \/ StatementFails(r)
    PROVE  \/ tenants' = tenants
           \/ InsertTenant(r) \/ CleanRecord(r) \/ UpdateRow(r)
           \/ Deactivate(r) \/ DeleteRow(r) \/ ReplyLost(r)
BY DEF Statement, Raw, StatementFails, FailsWithoutEffect, CheckSlug, CheckSchema, CreateSchema,
   MigratePath, AdminPath, SetPath, MigrateReset, AdminReset, ResetPath,
   Migrate, InsertRole, InsertUser, AssignRole, CleanSchema, DropSchema, Drop, Find

\* A deletion by id whose reply is lost, and another statement of that kind.
DeletionLost(r) == ReplyLost(r) /\ pc[r] = "deleteRow"
UpdateLost(r) == ReplyLost(r) /\ pc[r] # "deleteRow"

\* An update keeps the key columns of every row, and every row.
LEMMA UpdateKeeps ==
    ASSUME TypeOK, ControlOK, NEW r \in Request,
           UpdateRow(r) \/ Deactivate(r) \/ UpdateLost(r)
    PROVE  /\ \A t \in tenants' : \E u \in tenants :
                t.id = u.id /\ t.slug = u.slug /\ t.schema = u.schema
           /\ \A u \in tenants : \E t \in tenants' :
                t.id = u.id /\ t.slug = u.slug /\ t.schema = u.schema
<1>W. pc[r] = "updateRow" =>
         \A t \in tenants : /\ Written(t, input[r]).id = t.id
                            /\ Written(t, input[r]).slug = t.slug
                            /\ Written(t, input[r]).schema = t.schema
  BY WrittenRow DEF TypeOK, ControlOK
<1>D. \A t \in tenants : /\ Deactivated(t).id = t.id
                         /\ Deactivated(t).slug = t.slug
                         /\ Deactivated(t).schema = t.schema
  BY DeactivatedRow DEF TypeOK
<1>1. CASE UpdateRow(r)
  BY <1>1, <1>W DEF UpdateRow
<1>2. CASE Deactivate(r)
  BY <1>D, <1>2 DEF Deactivate
<1>3. CASE UpdateLost(r)
  <2>1. CASE pc[r] = "updateRow"
    BY <1>3, <1>W, <2>1 DEF UpdateLost, ReplyLost
  <2>2. CASE pc[r] = "deactivate"
    BY <1>3, <1>D, <2>2 DEF UpdateLost, ReplyLost
  <2> QED
    BY <1>3, <2>1, <2>2 DEF UpdateLost, ReplyLost
<1> QED
  BY <1>1, <1>2, <1>3

LEMMA RowsStep ==
    TypeOK /\ ControlOK /\ NamesOK /\ RowsOK /\ [Next]_vars => RowsOK'
<1> SUFFICES ASSUME TypeOK, ControlOK, NamesOK, RowsOK, [Next]_vars PROVE RowsOK'
  OBVIOUS
<1> USE DEF RowsOK
<1>1. ASSUME NEW r \in Request, Begin(r) PROVE RowsOK'
  BY <1>1 DEF Begin
<1>2. ASSUME NEW r \in Request, Statement(r) \/ StatementFails(r) PROVE RowsOK'
  <2>0. input' = input
    BY <1>2, StatementMoves DEF Moves
  <2>1. CASE tenants' = tenants
    BY <2>0, <2>1
  <2>2. CASE InsertTenant(r)
    <3> DEFINE row == [id |-> r, slug |-> input[r].slug, domain |-> input[r].domain,
                       schema |-> schemaName[r], status |-> "ACTIVE"]
    <3>1. input[r] \in CreateInput /\ input[r].op = "create"
      BY <2>2, InputKinds DEF InsertTenant, ControlOK, Creating, Trying, TypeOK
    <3>2. schemaName[r] \in Schema
      BY <2>2 DEF InsertTenant, ControlOK, InFlight, Trying
    <3>3. schemaName[r] = SchemaOf[input[r].slug]
      BY <3>1, <3>2, SchemaAssumption DEF NamesOK, Subject, IsCreate
    <3>4. tenants' = tenants \/ (tenants' = tenants \cup {row} /\ ~Clashes(row))
      BY <2>2 DEF InsertTenant
    <3>5. ~Clashes(row) => \A t \in tenants : t.schema # row.schema
      BY DEF Clashes
    <3> QED
      BY <2>0, <3>1, <3>3, <3>4, <3>5
  <2>3. CASE CleanRecord(r)
    BY <2>0, <2>3 DEF CleanRecord
  <2>4. CASE UpdateRow(r) \/ Deactivate(r) \/ UpdateLost(r)
    BY <2>0, <2>4, UpdateKeeps
  <2>5. CASE DeleteRow(r) \/ DeletionLost(r)
    BY <2>0, <2>5 DEF DeleteRow, DeletionLost, ReplyLost
  <2> QED
    BY <1>2, <2>1, <2>2, <2>3, <2>4, <2>5, RowWrites DEF UpdateLost, DeletionLost
<1>3. CASE Crash
  BY <1>3 DEF Crash
<1>4. CASE UNCHANGED vars
  BY <1>4 DEF vars
<1> QED
  BY <1>1, <1>2, <1>3, <1>4 DEF Next, AllAnswered

\* A statement touches the row and the schema of its own subject only.
LEMMA Elsewhere ==
    ASSUME TypeOK, ControlOK, NamesOK, RowsOK,
           NEW r \in Request, Statement(r) \/ StatementFails(r),
           NEW s \in Schema, s # schemaName'[r]
    PROVE  /\ Registered(s)' <=> Registered(s)
           /\ \A i \in Request : RegisteredAs(s, i)' <=> RegisteredAs(s, i)
           /\ s \in schemas' <=> s \in schemas
<1> USE DEF Registered, RegisteredAs
<1>0. Moves(r)
  BY StatementMoves
<1>1. s \in schemas' <=> s \in schemas
  <2>1. CASE schemas' = schemas
    BY <2>1
  <2>2. CASE CreateSchema(r)
    BY <2>2 DEF CreateSchema
  <2>3. CASE CleanSchema(r) \/ DropSchema(r)
    BY <2>3 DEF CleanSchema, DropSchema, Drop
  <2>4. schemas' = schemas \/ CreateSchema(r) \/ CleanSchema(r) \/ DropSchema(r)
    BY DEF Statement, Raw, StatementFails, FailsWithoutEffect, ReplyLost,
       CheckSlug, CheckSchema, InsertTenant, MigratePath, AdminPath, SetPath, MigrateReset, AdminReset, ResetPath,
       Migrate, InsertRole, InsertUser, AssignRole, CleanRecord, Find,
       UpdateRow, Deactivate, DeleteRow
  <2> QED
    BY <2>1, <2>2, <2>3, <2>4
<1>2. /\ Registered(s)' <=> Registered(s)
      /\ \A i \in Request : RegisteredAs(s, i)' <=> RegisteredAs(s, i)
  <2>1. CASE tenants' = tenants
    BY <2>1
  <2>2. CASE InsertTenant(r)
    <3>1. \A t \in tenants' : t \in tenants \/ t.schema = schemaName[r]
      BY <2>2 DEF InsertTenant
    <3>2. tenants \subseteq tenants'
      BY <2>2 DEF InsertTenant
    <3>3. schemaName'[r] = schemaName[r]
      BY <2>2 DEF InsertTenant
    <3> QED
      BY <3>1, <3>2, <3>3
  <2>3. CASE CleanRecord(r)
    <3>0. input[r].op = "create" /\ schemaName[r] \in Schema
      BY <2>3, InputKinds DEF CleanRecord, TypeOK, ControlOK, Creating, InFlight, Cleaning
    <3>1. schemaName[r] = SchemaOf[input[r].slug]
      BY <3>0, SchemaAssumption DEF NamesOK, Subject, IsCreate
    <3>2. \A t \in tenants : t.schema = s => t.slug # input[r].slug
      BY <2>3, <3>1 DEF RowsOK, CleanRecord
    <3> QED
      BY <2>3, <3>2 DEF CleanRecord
  <2>4. CASE UpdateRow(r) \/ Deactivate(r) \/ UpdateLost(r)
    BY <2>4, UpdateKeeps
  <2>5. CASE DeleteRow(r) \/ DeletionLost(r)
    <3>. /\ pc[r] = "deleteRow" /\ schemaName'[r] = schemaName[r]
         /\ tenants' = {t \in tenants : t.id # input[r].id}
      BY <1>0, <2>5 DEF DeleteRow, DeletionLost, ReplyLost, Moves
    <3>0. input[r].op # "create" /\ schemaName[r] \in Schema
      BY InputKinds DEF TypeOK, ControlOK, Managing, InFlight
    <3>1. schemaName[r] = SchemaOf[input[input[r].id].slug]
      BY <3>0, SchemaAssumption DEF NamesOK, Subject, IsCreate
    <3>2. \A t \in tenants : t.schema = s => t.id # input[r].id
      BY <3>1 DEF RowsOK
    <3> QED
      BY <3>2
  <2> QED
    BY <2>1, <2>2, <2>3, <2>4, <2>5, RowWrites DEF UpdateLost, DeletionLost
<1> QED
  BY <1>1, <1>2

\* What r leaves behind on its own schema, if it had it to itself: it keeps
\* making progress, or it ends with registry and catalog in agreement, or it
\* is one of the two outcomes that leave a job half done.
LEMMA Own ==
    ASSUME TypeOK, ControlOK, NamesOK, RowsOK,
           NEW r \in Request, Statement(r) \/ StatementFails(r),
           schemaName'[r] \in Schema,
           pc[r] \notin {"checkSlug", "find"} => Progress(r),
           pc[r] \in {"checkSlug", "find"} => Agree(schemaName'[r])
    PROVE  \/ pc'[r] \in InFlight /\ Progress(r)'
           \/ pc'[r] \notin InFlight /\ Agree(schemaName[r])'
           \/ pc'[r] \in {"cleanupFailed", "halfDeleted"}
<1> DEFINE Goal == \/ pc'[r] \in InFlight /\ Progress(r)'
                   \/ pc'[r] \notin InFlight /\ Agree(schemaName[r])'
                   \/ pc'[r] \in {"cleanupFailed", "halfDeleted"}
<1> USE DEF TypeOK, Progress, Agree, Registered, Goto, InFlight, Checking,
            Trying, Cleaning, Managing
<1>1. ASSUME CheckSlug(r) PROVE Goal
  <2>1. input[r].slug \in Slug
    BY <1>1, InputKinds DEF CheckSlug, ControlOK, Creating
  <2>2. schemaName[r] = None
    BY <1>1 DEF CheckSlug, ControlOK
  <2>3. schemaName'[r] = SchemaOf[input[r].slug] /\ pc'[r] = "checkSchema"
    BY <1>1, <2>2, SchemaAssumption DEF CheckSlug
  <2>4. \A t \in tenants : t.slug # input[r].slug
    BY <1>1, <2>2, SchemaAssumption DEF CheckSlug
  <2>5. ~Registered(SchemaOf[input[r].slug])
    BY <2>1, <2>4, SchemaAssumption DEF RowsOK, Row
  <2> QED
    BY <1>1, <2>3, <2>5 DEF CheckSlug
<1>2. ASSUME CheckSchema(r) PROVE Goal
  BY <1>2 DEF CheckSchema
<1>3. ASSUME InsertTenant(r) PROVE Goal
  BY <1>3 DEF InsertTenant
<1>4. ASSUME CreateSchema(r) PROVE Goal
  BY <1>4 DEF CreateSchema
<1>5. ASSUME NEW c \in Conn, MigratePath(r, c) PROVE Goal
  BY <1>5 DEF MigratePath, SetPath
<1>6. ASSUME NEW c \in Conn, Migrate(r, c) PROVE Goal
  BY <1>6 DEF Migrate, NextTable
<1>7. ASSUME NEW c \in Conn, MigrateReset(r, c) PROVE Goal
  BY <1>7 DEF MigrateReset, ResetPath
<1>8. ASSUME NEW c \in Conn, AdminPath(r, c) PROVE Goal
  BY <1>8 DEF AdminPath, SetPath
<1>9. ASSUME NEW c \in Conn, InsertRole(r, c) PROVE Goal
  BY <1>9 DEF InsertRole
<1>10. ASSUME NEW c \in Conn, InsertUser(r, c) PROVE Goal
  BY <1>10 DEF InsertUser
<1>11. ASSUME NEW c \in Conn, AssignRole(r, c) PROVE Goal
  BY <1>11 DEF AssignRole
<1>12. ASSUME NEW c \in Conn, AdminReset(r, c) PROVE Goal
  BY <1>12 DEF AdminReset, ResetPath
<1>13. ASSUME CleanRecord(r) PROVE Goal
  <2>1. input[r].op = "create" /\ input[r].slug \in Slug
    BY <1>13, InputKinds DEF CleanRecord, ControlOK, Creating
  <2>2. schemaName[r] = SchemaOf[input[r].slug] /\ schemaName' = schemaName
    BY <1>13, <2>1, SchemaAssumption DEF CleanRecord, NamesOK, Subject, IsCreate
  <2>3. ~Registered(schemaName[r])'
    BY <1>13, <2>1, <2>2, SchemaAssumption DEF CleanRecord, RowsOK, Row
  <2> QED
    BY <1>13, <2>2, <2>3 DEF CleanRecord
<1>14. ASSUME CleanSchema(r) PROVE Goal
  BY <1>14 DEF CleanSchema, Drop
<1>15. ASSUME Find(r) PROVE Goal
  <2>1. schemaName[r] = None
    BY <1>15 DEF Find, ControlOK
  <2>2. PICK t \in tenants : /\ t.id = input[r].id
                            /\ schemaName' = [schemaName EXCEPT ![r] = t.schema]
                            /\ Goto(r, After(input[r].op))
    BY <1>15, <2>1, SchemaAssumption DEF Find
  <2>3. RegisteredAs(t.schema, input[r].id) /\ Registered(t.schema)
    BY <2>2 DEF RegisteredAs
  <2>4. t.schema \in schemas /\ schemaName'[r] = t.schema
    BY <1>15, <2>2, <2>3 DEF Find
  <2>5. pc'[r] \in {"updateRow", "deactivate", "dropSchema"}
    BY <1>15, <2>2, InputKinds DEF Find, After, ControlOK
  <2> QED
    <3>1. tenants' = tenants /\ schemas' = schemas /\ input' = input
      BY <1>15 DEF Find
    <3>2. \E u \in tenants' : u.schema = schemaName'[r] /\ u.id = input'[r].id
      BY <2>3, <2>4, <3>1 DEF RegisteredAs
    <3>3. schemaName'[r] \in schemas'
      BY <2>4, <3>1
    <3>4. Progress(r)'
      BY <2>5, <3>2, <3>3 DEF RegisteredAs
    <3> QED
      BY <2>5, <3>4
<1>16. ASSUME UpdateRow(r) PROVE Goal
  <2>0. /\ \A t \in tenants' : \E u \in tenants : t.schema = u.schema
        /\ \A u \in tenants : \E t \in tenants' : t.schema = u.schema
    BY <1>16, UpdateKeeps
  <2>1. Registered(schemaName[r])' <=> Registered(schemaName[r])
    <3>1. schemaName' = schemaName
      BY <1>16 DEF UpdateRow
    <3> QED
      BY <2>0, <3>1
  <2> QED
    BY <1>16, <2>1 DEF UpdateRow
<1>17. ASSUME Deactivate(r) PROVE Goal
  <2>0. /\ \A t \in tenants' : \E u \in tenants : t.schema = u.schema
        /\ \A u \in tenants : \E t \in tenants' : t.schema = u.schema
    BY <1>17, UpdateKeeps
  <2>1. Registered(schemaName[r])' <=> Registered(schemaName[r])
    <3>1. schemaName' = schemaName
      BY <1>17 DEF Deactivate
    <3> QED
      BY <2>0, <3>1
  <2> QED
    BY <1>17, <2>1 DEF Deactivate
<1>18. ASSUME DropSchema(r) PROVE Goal
  BY <1>18 DEF DropSchema, Drop, RegisteredAs
<1>19. ASSUME DeleteRow(r) PROVE Goal
  <2>1. RegisteredAs(schemaName[r], input[r].id)
    BY <1>19 DEF DeleteRow
  <2>2. \A t \in tenants : t.schema = schemaName[r] => t.id = input[r].id
    BY <2>1 DEF RegisteredAs, RowsOK
  <2> QED
    BY <1>19, <2>2 DEF DeleteRow
<1>20. ASSUME StatementFails(r) PROVE Goal
  <2>1. schemas' = schemas /\ schemaName' = schemaName /\ input' = input
    BY <1>20 DEF StatementFails, FailsWithoutEffect, ReplyLost
  <2>2. CASE FailsWithoutEffect(r)
    BY <2>1, <2>2 DEF FailsWithoutEffect
  <2>3. CASE UpdateLost(r)
    <3>1. /\ \A t \in tenants' : \E u \in tenants : t.schema = u.schema
          /\ \A u \in tenants : \E t \in tenants' : t.schema = u.schema
      BY <2>3, UpdateKeeps
    <3>2. Registered(schemaName[r])' <=> Registered(schemaName[r])
      BY <2>1, <3>1
    <3> QED
      BY <2>1, <2>3, <3>2 DEF UpdateLost, ReplyLost
  <2>4. CASE DeletionLost(r)
    <3>1. \A t \in tenants : t.schema = schemaName[r] => t.id = input[r].id
      BY <2>4 DEF DeletionLost, RegisteredAs, RowsOK
    <3> QED
      BY <2>1, <2>4, <3>1 DEF DeletionLost, ReplyLost
  <2> QED
    BY <1>20, <2>2, <2>3, <2>4 DEF StatementFails, UpdateLost, DeletionLost
<1> QED
  BY <1>1, <1>2, <1>3, <1>4, <1>5, <1>6, <1>7, <1>8, <1>9, <1>10, <1>11, <1>12, <1>13, <1>14, <1>15, <1>16, <1>17, <1>18, <1>19, <1>20 DEF Statement, Raw

----------------------------------------------------------------------------
(* The invariant *)

\* Races and interruptions are never forgotten.
LEMMA Remembered ==
    ASSUME TypeOK, ControlOK, NEW r \in Request, Statement(r) \/ StatementFails(r),
           NEW s \in Schema
    PROVE  /\ Raced(s) => Raced(s)'
           /\ Interrupted(s) => Interrupted(s)'
<1> USE StatementMoves DEF Moves, TypeOK
<1>1. \A q \in Request : schemaName[q] = s => schemaName'[q] = s
  BY SchemaAssumption DEF ControlOK
<1>2. Raced(s) => Raced(s)'
  BY <1>1 DEF Raced
<1>3. Interrupted(s) => Interrupted(s)'
  BY <1>1 DEF Interrupted, InFlight, Checking, Trying, Cleaning, Managing
<1> QED
  BY <1>2, <1>3

\* A statement preserves the invariant of every schema.
LEMMA WorkStatement ==
    ASSUME TypeOK, ControlOK, NamesOK, RowsOK, PeersOK,
           NEW r \in Request, Statement(r) \/ StatementFails(r),
           NEW s \in Schema, WorkOK(s)
    PROVE  WorkOK(s)'
<1>1. Moves(r)
  BY StatementMoves
<1>2. SUFFICES ASSUME ~Raced(s)', ~Interrupted(s)' PROVE WorkOK(s)'
  BY DEF WorkOK
<1>3. ~Raced(s) /\ ~Interrupted(s)
  BY <1>2, Remembered
<1>4. /\ \A q \in Serving : schemaName[q] = s => Progress(q)
      /\ (\A q \in Serving : schemaName[q] # s) => Agree(s)
  BY <1>3 DEF WorkOK
<1>5. CASE schemaName'[r] # s
  <2>1. /\ Registered(s)' <=> Registered(s)
        /\ \A i \in Request : RegisteredAs(s, i)' <=> RegisteredAs(s, i)
        /\ s \in schemas' <=> s \in schemas
    BY <1>5, Elsewhere
  <2>2. schemaName[r] # s
    BY <1>1, <1>5, SchemaAssumption DEF Moves, ControlOK
  <2>3. \A q \in Request \ {r} : pc'[q] = pc[q] /\ schemaName'[q] = schemaName[q]
    BY <1>1 DEF Moves
  <2>4. ASSUME NEW q \in Serving', schemaName'[q] = s PROVE Progress(q)'
    <3>1. q \in Serving /\ q # r /\ schemaName[q] = s /\ pc'[q] = pc[q]
      BY <1>5, <2>3, <2>4 DEF Serving
    <3>2. Progress(q)
      BY <1>4, <3>1
    <3>3. input' = input
      BY <1>1 DEF Moves
    <3>4. pc[q] \in {"dropSchema", "deleteRow"} => input[q].id \in Request
      BY <3>1, InputKinds DEF Serving, TypeOK, ControlOK, Managing
    <3> QED
      <4>1. schemaName'[q] = s /\ schemaName[q] = s /\ pc'[q] = pc[q]
        BY <2>4, <3>1
      <4>2. pc[q] \in {"dropSchema", "deleteRow"}
              => (RegisteredAs(s, input[q].id) <=> \E t \in tenants' : t.schema = s /\ t.id = input'[q].id)
        BY <2>1, <3>3, <3>4 DEF RegisteredAs
      <4>3. Registered(s) <=> \E t \in tenants' : t.schema = s
        BY <2>1 DEF Registered
      <4>4. s \in schemas' <=> s \in schemas
        BY <2>1
      <4> QED
        BY <3>2, <4>1, <4>2, <4>3, <4>4 DEF Progress, Registered, RegisteredAs
  <2>5. (\A q \in Serving' : schemaName'[q] # s) => Agree(s)'
    BY <1>4, <2>1, <2>2, <2>3 DEF Agree, Serving
  <2> QED
    BY <2>4, <2>5 DEF WorkOK
<1>6. CASE schemaName'[r] = s
  <2>1. ASSUME NEW q \in Request \ {r}, q \in Serving, schemaName[q] = s PROVE FALSE
    <3>1. q \in peers[r]
      BY <1>1, <2>1 DEF PeersOK, Moves, Serving
    <3> QED
      BY <1>1, <1>2, <1>6, <2>1, <3>1 DEF Raced, Moves
  <2>2. \A q \in Request \ {r} : q \in Serving' => schemaName'[q] # s
    BY <1>1, <2>1 DEF Moves, Serving
  <2>3. pc[r] \notin {"checkSlug", "find"} => Progress(r)
    BY <1>1, <1>4, <1>6 DEF Moves, Serving
  <2>4. pc[r] \in {"checkSlug", "find"} => Agree(s)
    BY <1>1, <1>4, <2>1, SchemaAssumption DEF ControlOK, Serving
  <2>5. \/ pc'[r] \in InFlight /\ Progress(r)'
        \/ pc'[r] \notin InFlight /\ Agree(schemaName[r])'
        \/ pc'[r] \in {"cleanupFailed", "halfDeleted"}
    BY <1>6, <2>3, <2>4, Own
  <2>6. pc'[r] \notin {"cleanupFailed", "halfDeleted"}
    BY <1>2, <1>6 DEF Interrupted
  <2> QED
    BY <1>6, <2>2, <2>5, <2>6 DEF WorkOK, Serving
<1> QED
  BY <1>5, <1>6

\* What is promised to a creation cannot come back once it is disturbed.
LEMMA DisturbedStays ==
    ASSUME TypeOK, ControlOK, NEW q \in Request, Statement(q) \/ StatementFails(q),
           NEW r \in Request, Undisturbed(r)', SchemaOf[input[r].slug] \in Schema
    PROVE  Undisturbed(r)
<1>1. Moves(q)
  BY StatementMoves
<1>2. ~Deleting(r)
  <2>1. ASSUME NEW d \in Request, input[d].op = "hardDelete", input[d].id = r,
               pc[d] \notin {"idle", "find", "notFound"}
        PROVE  FALSE
    <3>1. pc'[d] \notin {"idle", "find", "notFound"}
      BY <1>1, <2>1 DEF Moves
    <3>2. input'[d].op = "hardDelete" /\ input'[d].id = r
      BY <1>1, <2>1 DEF Moves
    <3> QED
      BY <3>1, <3>2 DEF Undisturbed, Deleting
  <2> QED
    BY <2>1 DEF Deleting
<1>3. \A p \in peers[r] : schemaName[p] # SchemaOf[input[r].slug]
  <2>1. \A p \in peers[r] : schemaName'[p] # SchemaOf[input[r].slug]
    BY <1>1 DEF Moves, Undisturbed
  <2>2. peers[r] \subseteq Request
    BY DEF TypeOK
  <2>3. \A p \in Request : schemaName[p] \in Schema => schemaName'[p] = schemaName[p]
    BY <1>1, SchemaAssumption DEF Moves, ControlOK
  <2> QED
    BY <2>1, <2>2, <2>3
<1> QED
  BY <1>2, <1>3 DEF Undisturbed

\* A statement preserves what is promised to every creation.
LEMMA KeepStatement ==
    ASSUME TypeOK, ControlOK, NamesOK, RowsOK, PeersOK,
           NEW q \in Request, Statement(q) \/ StatementFails(q),
           NEW r \in Request, KeepOK(r)
    PROVE  KeepOK(r)'
<1> DEFINE s == SchemaOf[input[r].slug]
<1>1. Moves(q)
  BY StatementMoves
<1>2. input' = input /\ peers' = peers
  BY <1>1 DEF Moves
<1>3. SUFFICES ASSUME Undisturbed(r)', pc'[r] \in Provisioning \cup {"createSchema"}
               PROVE  KeepOK(r)'
  BY DEF KeepOK, Provisioning
<1>4. input[r] \in CreateInput /\ input[r].op = "create" /\ input[r].slug \in Slug
  <2>1. pc'[r] \in Creating \cup {"created"}
    BY <1>3 DEF Provisioning, Creating, Trying
  <2>2. pc[r] \in Creating \cup {"created"}
    BY <1>1, <2>1 DEF Moves
  <2> QED
    BY <2>2, InputKinds DEF ControlOK, TypeOK
<1>5. s \in Schema
  BY <1>4, SchemaAssumption
<1>6. Undisturbed(r)
  BY <1>3, <1>5, DisturbedStays
<1>7. \A p \in peers[r] : schemaName'[p] # s
  BY <1>2, <1>3 DEF Undisturbed
<1>8. CASE q = r
  <2>1. \/ InsertTenant(r) \/ CreateSchema(r)
        \/ \E c \in Conn : Raw(r, c)
    <3>1. pc'[r] \in {"createSchema", "migratePath", "migrate", "migrateReset",
                      "adminPath", "insertRole", "insertUser", "assignRole",
                      "adminReset", "created"}
      BY <1>3 DEF Provisioning, Trying
    <3>2. ~CheckSlug(r) /\ ~CheckSchema(r) /\ ~CleanRecord(r) /\ ~CleanSchema(r)
      BY <3>1 DEF CheckSlug, CheckSchema, CleanRecord, CleanSchema, Drop, Goto, TypeOK
    <3>3. ~Find(r)
      BY <1>1, <1>4, <1>8, <3>1, InputKinds DEF Find, After, Goto, TypeOK, ControlOK, Managing
    <3>4. ~UpdateRow(r) /\ ~Deactivate(r) /\ ~DropSchema(r) /\ ~DeleteRow(r)
      BY <3>1 DEF UpdateRow, Deactivate, DropSchema, Drop, DeleteRow, Goto, TypeOK
    <3>5. ~StatementFails(r)
      BY <3>1 DEF StatementFails, FailsWithoutEffect, ReplyLost, Goto, TypeOK
    <3> QED
      BY <1>8, <3>2, <3>3, <3>4, <3>5 DEF Statement
  <2>2. pc[r] \in Trying
    BY <2>1 DEF Trying, InsertTenant, CreateSchema, Raw, MigratePath, AdminPath,
       SetPath, MigrateReset, AdminReset, ResetPath, Migrate, InsertRole,
       InsertUser, AssignRole
  <2>3. schemaName[r] \in Schema
    BY <2>2 DEF ControlOK, InFlight, Trying
  <2>4. schemaName[r] = s
    BY <1>4, <2>3, SchemaAssumption DEF NamesOK, Subject, IsCreate
  <2>5. r \in Serving
    BY <2>2 DEF Serving, InFlight
  <2>6. \A p \in Serving' \ peers'[r] : p = r
    BY <1>1, <1>2, <1>8, <2>5 DEF PeersOK, Moves, Serving
  <2>7. pc'[r] = "created" => r \notin Serving'
    BY DEF Serving, InFlight, Checking, Trying, Cleaning, Managing
  <2>8. RegisteredAs(s, r)' /\ (pc'[r] \in Provisioning => s \in schemas')
    <3>1. CASE InsertTenant(r)
      <4> DEFINE row == [id |-> r, slug |-> input[r].slug, domain |-> input[r].domain,
                         schema |-> schemaName[r], status |-> "ACTIVE"]
      <4>1. pc'[r] # "cleanRecord"
        BY <1>3 DEF Provisioning, Trying
      <4>2. row \in tenants' /\ pc'[r] = "createSchema"
        BY <3>1, <4>1 DEF InsertTenant, Goto, TypeOK
      <4>3. row.schema = s /\ row.id = r
        BY <2>4
      <4> QED
        BY <1>2, <4>2, <4>3 DEF RegisteredAs, Provisioning, Trying
    <3>2. CASE CreateSchema(r)
      <4>1. RegisteredAs(s, r)
        BY <1>6, <3>2 DEF KeepOK, CreateSchema
      <4> QED
        BY <1>2, <2>4, <3>2, <4>1 DEF CreateSchema, RegisteredAs
    <3>3. ASSUME NEW c \in Conn, Raw(r, c)
          PROVE  RegisteredAs(s, r)' /\ s \in schemas'
      <4>1. tenants' = tenants /\ schemas' = schemas
        BY <3>3 DEF Raw, MigratePath, AdminPath, SetPath, MigrateReset,
           AdminReset, ResetPath, Migrate, InsertRole, InsertUser, AssignRole
      <4>2. pc[r] \in Provisioning
        BY <3>3 DEF Raw, MigratePath, AdminPath, SetPath, MigrateReset,
           AdminReset, ResetPath, Migrate, InsertRole, InsertUser, AssignRole,
           Provisioning, Trying
      <4>3. RegisteredAs(s, r) /\ s \in schemas
        BY <1>6, <4>2 DEF KeepOK
      <4> QED
        BY <1>2, <4>1, <4>3 DEF RegisteredAs
    <3> QED
      BY <2>1, <3>1, <3>2, <3>3
  <2> QED
    BY <1>2, <2>6, <2>7, <2>8 DEF KeepOK
<1>9. CASE q # r
  <2>1. pc'[r] = pc[r] /\ schemaName'[r] = schemaName[r]
    BY <1>1, <1>9 DEF Moves
  <2>2. RegisteredAs(s, r) /\ (pc[r] \in Provisioning => s \in schemas)
    BY <1>3, <1>6, <2>1 DEF KeepOK
  <2>3. pc[r] = "created" =>
          \A p \in Serving \ peers[r] :
              schemaName[p] = s => pc[p] \in Managing /\ input[p].id = r
    BY <1>6, <2>2 DEF KeepOK
  <2>4. \A p \in Request \ {q} : pc'[p] = pc[p] /\ schemaName'[p] = schemaName[p]
    BY <1>1 DEF Moves
  <2>5. CASE schemaName'[q] # s
    <3>1. RegisteredAs(s, r)' /\ (s \in schemas' <=> s \in schemas)
      BY <1>2, <1>5, <2>2, <2>5, Elsewhere DEF RegisteredAs
    <3>2. pc'[r] = "created" =>
            \A p \in Serving' \ peers'[r] :
                schemaName'[p] = s => pc'[p] \in Managing /\ input'[p].id = r
      BY <1>2, <2>1, <2>3, <2>4, <2>5 DEF Serving
    <3> QED
      BY <1>2, <2>1, <2>2, <3>1, <3>2 DEF KeepOK, RegisteredAs
  <2>6. CASE schemaName'[q] = s
    <3>1. q \in Serving /\ q \notin peers[r]
      BY <1>1, <1>7, <2>6 DEF Moves, Serving
    <3>2. r \notin Serving
      BY <1>9, <3>1 DEF PeersOK
    <3>3. pc[r] = "created"
      BY <1>3, <2>1, <3>2 DEF Serving, Provisioning, InFlight, Trying
    <3>4. PICK t \in tenants : t.schema = s /\ t.id = r
      BY <2>2 DEF RegisteredAs
    <3>5. pc[q] # "checkSlug"
      <4>1. SUFFICES ASSUME pc[q] = "checkSlug" PROVE FALSE
        OBVIOUS
      <4>2. schemaName[q] = None /\ None # s
        BY <1>5, <4>1, SchemaAssumption DEF ControlOK
      <4>3. s = SchemaOf[input[q].slug]
        BY <1>1, <2>6, <4>1, <4>2 DEF Moves
      <4>4. input[q].slug \in Slug
        BY <4>1, InputKinds DEF ControlOK, TypeOK, Creating, Checking
      <4>5. t.slug = input[q].slug
        BY <1>4, <3>4, <4>3, <4>4, SchemaAssumption DEF RowsOK
      <4>6. ~CheckSlug(q) \/ UNCHANGED schemaName
        BY <4>5 DEF CheckSlug
      <4>7. CheckSlug(q) \/ UNCHANGED schemaName
        BY <4>1 DEF Statement, Raw, StatementFails, CheckSchema, InsertTenant,
           CreateSchema, MigratePath, AdminPath, SetPath, MigrateReset,
           AdminReset, ResetPath, Migrate, InsertRole, InsertUser, AssignRole,
           CleanRecord, CleanSchema, Drop, Find, UpdateRow, Deactivate,
           DropSchema, DeleteRow
      <4> QED
        BY <2>6, <4>2, <4>6, <4>7
    <3>6. CASE pc[q] = "find"
      <4>1. schemaName[q] = None /\ None # s
        BY <1>5, <3>6, SchemaAssumption DEF ControlOK
      <4>2. PICK u \in tenants : u.id = input[q].id /\ s = u.schema
        BY <1>1, <2>6, <3>6, <4>1 DEF Moves
      <4>3. input[q].id = r
        BY <3>4, <4>2 DEF RowsOK
      <4>4. tenants' = tenants /\ schemas' = schemas
        BY <3>6 DEF Statement, Raw, StatementFails, FailsWithoutEffect,
           ReplyLost, CheckSlug, CheckSchema, InsertTenant, CreateSchema, MigratePath, AdminPath, SetPath,
           MigrateReset, AdminReset, ResetPath, Migrate, InsertRole, InsertUser,
           AssignRole, CleanRecord, CleanSchema, Drop, Find, UpdateRow,
           Deactivate, DropSchema, DeleteRow
      <4>5. q \in Serving' => pc'[q] \in Managing
        BY <1>1, <3>6, InputKinds DEF Serving, InFlight, Moves, Creating, Checking, Trying,
           Cleaning, Managing
      <4>6. \A p \in Serving' \ peers'[r] :
                schemaName'[p] = s => pc'[p] \in Managing /\ input'[p].id = r
        BY <1>2, <2>3, <2>4, <3>3, <4>3, <4>5 DEF Serving
      <4> QED
        BY <1>2, <2>2, <3>3, <4>4, <4>6 DEF KeepOK, RegisteredAs, Provisioning
    <3>7. CASE pc[q] # "find"
      <4>1. schemaName[q] = s
        BY <1>1, <2>6, <3>5, <3>7 DEF Moves
      <4>2. pc[q] \in Managing /\ input[q].id = r
        BY <2>3, <3>1, <3>3, <4>1
      <4>3. pc[q] \notin {"dropSchema", "deleteRow"}
        BY <1>6, <4>2 DEF Undisturbed, Deleting, ControlOK
      <4>4. \/ UpdateRow(q) \/ Deactivate(q)
            \/ StatementFails(q)
        BY <3>7, <4>2, <4>3 DEF Managing, Statement, Raw, CheckSlug, CheckSchema,
           InsertTenant, CreateSchema, MigratePath, AdminPath, SetPath,
           MigrateReset, AdminReset, ResetPath, Migrate, InsertRole, InsertUser,
           AssignRole, CleanRecord, CleanSchema, Drop, Find, DropSchema, DeleteRow
      <4>5. schemas' = schemas
        BY <4>4 DEF UpdateRow, Deactivate, StatementFails, FailsWithoutEffect, ReplyLost
      <4>6. RegisteredAs(s, r)'
        <5>1. CASE UpdateRow(q) \/ Deactivate(q) \/ UpdateLost(q)
          <6>1. \E v \in tenants' : t.id = v.id /\ t.slug = v.slug /\ t.schema = v.schema
            BY <3>4, <5>1, UpdateKeeps
          <6> QED
            BY <1>2, <3>4, <6>1 DEF RegisteredAs
        <5>2. CASE FailsWithoutEffect(q)
          BY <1>2, <2>2, <5>2 DEF FailsWithoutEffect, RegisteredAs
        <5> QED
          BY <4>3, <4>4, <5>1, <5>2 DEF StatementFails, UpdateLost
      <4>7. q \notin Serving'
        BY <3>7, <4>2, <4>3, <4>4 DEF UpdateRow, Deactivate, StatementFails,
           FailsWithoutEffect, ReplyLost, Goto, TypeOK, Serving, InFlight, Checking, Trying, Cleaning, Managing
      <4>8. \A p \in Serving' \ peers'[r] :
                schemaName'[p] = s => pc'[p] \in Managing /\ input'[p].id = r
        BY <1>2, <2>3, <2>4, <3>3, <4>7 DEF Serving
      <4> QED
        BY <1>2, <2>2, <3>3, <4>5, <4>6, <4>8 DEF KeepOK, RegisteredAs, Provisioning
    <3> QED
      BY <3>6, <3>7
  <2> QED
    BY <2>5, <2>6
<1> QED
  BY <1>8, <1>9

LEMMA InvInit == Init => Inv
<1> SUFFICES ASSUME Init PROVE Inv
  OBVIOUS
<1>1. Serving = {}
  BY DEF Init, Serving, InFlight, Checking, Trying, Cleaning, Managing
<1>2. NamesOK /\ RowsOK /\ PeersOK
  BY <1>1 DEF Init, NamesOK, RowsOK, PeersOK
<1>3. \A s \in Schema : WorkOK(s)
  BY <1>1 DEF Init, WorkOK, Agree, Registered
<1>4. \A r \in Request : KeepOK(r)
  BY DEF Init, KeepOK, Provisioning, Trying
<1> QED
  BY <1>2, <1>3, <1>4, TypeInit DEF Inv

LEMMA InvStep == Inv /\ [Next]_vars => Inv'
<1> SUFFICES ASSUME Inv, [Next]_vars PROVE Inv'
  OBVIOUS
<1> USE DEF Inv
<1>1. TypeOK' /\ ControlOK' /\ NamesOK' /\ RowsOK' /\ PeersOK'
  BY TypeStep, ControlStep, NamesStep, RowsStep, PeersStep
<1>2. ASSUME NEW s \in Schema PROVE WorkOK(s)'
  <2>1. ASSUME NEW r \in Request, Begin(r) PROVE WorkOK(s)'
    <3>1. schemaName[r] = None /\ schemaName[r] # s
      BY <2>1, SchemaAssumption DEF Begin, ControlOK
    <3>2. \A q \in Request \ {r} : pc'[q] = pc[q]
      BY <2>1 DEF Begin, Goto, TypeOK
    <3>3. Raced(s) => Raced(s)'
      <4>1. \A q \in Request : q # r => peers[q] \subseteq peers'[q]
        BY <2>1 DEF Begin
      <4> QED
        BY <2>1, <3>1, <4>1 DEF Begin, Raced
    <3>4. Interrupted(s) => Interrupted(s)'
      BY <2>1, <3>1, <3>2 DEF Begin, Interrupted
    <3>5. \A q \in Request \ {r} : Progress(q) => Progress(q)'
      BY <2>1, <3>2 DEF Begin, Progress, Registered, RegisteredAs
    <3>6. Agree(s) => Agree(s)'
      BY <2>1 DEF Begin, Agree, Registered
    <3>7. \A q \in Request \ {r} : q \in Serving' <=> q \in Serving
      BY <3>2 DEF Serving
    <3>8. r \notin Serving
      BY <2>1 DEF Begin, Serving, InFlight, Checking, Trying, Cleaning, Managing
    <3>9. schemaName' = schemaName
      BY <2>1 DEF Begin
    <3>10. Serving \subseteq Request /\ Serving' \subseteq Request
      BY DEF Serving
    <3> QED
      BY <3>1, <3>3, <3>4, <3>5, <3>6, <3>7, <3>8, <3>9, <3>10 DEF WorkOK
  <2>2. ASSUME NEW r \in Request, Statement(r) \/ StatementFails(r) PROVE WorkOK(s)'
    BY <2>2, WorkStatement
  <2>3. CASE Crash
    <3>1. Serving' = {}
      BY <2>3 DEF Crash, Serving, InFlight, Checking, Trying, Cleaning, Managing
    <3>2. Raced(s) => Raced(s)'
      BY <2>3 DEF Crash, Raced
    <3>3. Interrupted(s) => Interrupted(s)'
      BY <2>3 DEF Crash, Interrupted
    <3>4. (\E r \in Serving : schemaName[r] = s) => Interrupted(s)'
      BY <2>3 DEF Crash, Serving, Interrupted
    <3>5. Agree(s) => Agree(s)'
      BY <2>3 DEF Crash, Agree, Registered
    <3> QED
      BY <3>1, <3>2, <3>3, <3>4, <3>5 DEF WorkOK
  <2>4. CASE UNCHANGED vars
    BY <2>4 DEF vars, WorkOK, Raced, Interrupted, Serving, Progress, Agree,
       Registered, RegisteredAs
  <2> QED
    BY <2>1, <2>2, <2>3, <2>4 DEF Next, AllAnswered
<1>3. ASSUME NEW r \in Request PROVE KeepOK(r)'
  <2>0. KeepOK(r)
    OBVIOUS
  <2>1. ASSUME NEW q \in Request, Begin(q) PROVE KeepOK(r)'
    <3>1. tenants' = tenants /\ schemas' = schemas /\ input' = input /\ schemaName' = schemaName
      BY <2>1 DEF Begin
    <3>2. pc'[q] \in {"checkSlug", "find"} /\ \A p \in Request \ {q} : pc'[p] = pc[p]
      BY <2>1 DEF Begin, Goto, TypeOK
    <3>3. CASE q = r
      BY <3>2, <3>3 DEF KeepOK, Provisioning, Trying
    <3>4. CASE q # r
      <4>1. SUFFICES ASSUME Undisturbed(r)', pc[r] \in Provisioning \cup {"createSchema"}
                     PROVE  KeepOK(r)'
        BY <3>2, <3>4 DEF KeepOK, Provisioning
      <4>2. peers[r] \subseteq peers'[r]
        BY <2>1, <3>4 DEF Begin
      <4>3. ~Deleting(r)
        BY <2>1, <3>1, <3>2, <4>1 DEF Begin, Undisturbed, Deleting
      <4>4. Undisturbed(r)
        BY <3>1, <4>1, <4>2, <4>3 DEF Undisturbed
      <4>5. schemaName[q] = None /\ None # SchemaOf[input[r].slug]
        <5>1. input[r].slug \in Slug
          BY <4>1, InputKinds DEF ControlOK, TypeOK, Provisioning, Creating, Trying
        <5> QED
          BY <2>1, <5>1, SchemaAssumption DEF Begin, ControlOK
      <4>6. \A p \in Serving' \ {q} : p \in Serving /\ pc'[p] = pc[p]
        BY <3>2 DEF Serving
      <4>7. pc'[r] = pc[r]
        BY <3>2, <3>4
      <4> QED
        BY <2>0, <3>1, <4>2, <4>4, <4>5, <4>6, <4>7 DEF KeepOK, RegisteredAs
    <3> QED
      BY <3>3, <3>4
  <2>2. ASSUME NEW q \in Request, Statement(q) \/ StatementFails(q) PROVE KeepOK(r)'
    BY <2>0, <2>2, KeepStatement
  <2>3. CASE Crash
    <3>1. Serving' = {}
      BY <2>3 DEF Crash, Serving, InFlight, Checking, Trying, Cleaning, Managing
    <3>2. tenants' = tenants /\ schemas' = schemas /\ input' = input
          /\ schemaName' = schemaName /\ peers' = peers
      BY <2>3 DEF Crash
    <3>3. \A p \in Request : pc'[p] = pc[p] \/ pc'[p] = "lost"
      BY <2>3 DEF Crash
    <3>4. Deleting(r) => Deleting(r)'
      BY <3>2, <3>3 DEF Deleting
    <3>5. Undisturbed(r)' => Undisturbed(r)
      BY <3>2, <3>4 DEF Undisturbed
    <3> QED
      BY <2>0, <3>1, <3>2, <3>3, <3>5 DEF KeepOK, RegisteredAs, Provisioning, Trying
  <2>4. CASE UNCHANGED vars
    BY <2>0, <2>4 DEF vars, KeepOK, Undisturbed, Deleting, RegisteredAs, Serving
  <2> QED
    BY <2>1, <2>2, <2>3, <2>4 DEF Next, AllAnswered
<1> QED
  BY <1>1, <1>2, <1>3

\* What Inv says of registry and catalog, and of a creation that was answered.
LEMMA InvMeans == Inv => RegistryAgreement /\ CreatedSurvives
<1> SUFFICES ASSUME Inv PROVE RegistryAgreement /\ CreatedSurvives
  OBVIOUS
<1>1. RegistryAgreement
  BY DEF Inv, RegistryAgreement, WorkOK, Agree, Registered
<1>2. ASSUME NEW r \in Request, pc[r] = "created", Undisturbed(r)
      PROVE  /\ \E t \in tenants : t.id = r /\ t.slug = input[r].slug
             /\ SchemaOf[input[r].slug] \in schemas
  <2>1. KeepOK(r) /\ RowsOK
    BY DEF Inv
  <2>2. RegisteredAs(SchemaOf[input[r].slug], r) /\ SchemaOf[input[r].slug] \in schemas
    BY <1>2, <2>1 DEF KeepOK, Provisioning
  <2> QED
    BY <2>1, <2>2 DEF RegisteredAs, RowsOK
<1> QED
  BY <1>1, <1>2 DEF CreatedSurvives

\* Every reachable state is well typed.
THEOREM TypeCorrect == Spec => []TypeOK
<1>1. Inv => TypeOK
  BY DEF Inv
<1> QED
  BY <1>1, InvInit, InvStep, PTL DEF Spec

\* Whatever the number of requests, connections, failures and restarts, and in
\* every interleaving of their statements: a tenant schema without a row, or a
\* row without a schema, is being worked on, or the trace of an interrupted
\* request, or of two requests that raced for the same schema.
THEOREM RegistryAgrees == Spec => []RegistryAgreement
<1>1. Inv => RegistryAgreement
  BY InvMeans
<1> QED
  BY <1>1, InvInit, InvStep, PTL DEF Spec

\* Whatever else is requested, fails or crashes: a tenant reported as created
\* keeps its row and its schema until it is hard deleted, unless a request on
\* the same schema overlapped its creation.
THEOREM CreatedTenantSurvives == Spec => []CreatedSurvives
<1>1. Inv => CreatedSurvives
  BY InvMeans
<1> QED
  BY <1>1, InvInit, InvStep, PTL DEF Spec
=============================================================================
