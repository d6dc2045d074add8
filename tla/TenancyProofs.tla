--------------------------- MODULE TenancyProofs ---------------------------
(***************************************************************************)
(* The lifecycle of tenants, requests to the tenants and the migration     *)
(* script together: what the lifecycle guarantees by itself survives the   *)
(* other two, and what they promise follows from it, for every set of      *)
(* requests, clients and tenants.                                          *)
(***************************************************************************)
EXTENDS Tenancy, TenantCompletionProofs

USE DEF db, history

----------------------------------------------------------------------------
(* What one step does to the lifecycle: a step of its own, a statement of the *)
(* script, or nothing.                                                       *)

LEMMA LifecyclePart ==
    ASSUME [TenancyNext]_tenancyVars
    PROVE  [Next]_vars \/ CreateAuditLogs
<1>1. ASSUME NEW r \in Request, LifecycleStep(r) \/ LifecycleEvent(r) PROVE [Next]_vars
  BY <1>1 DEF LifecycleStep, LifecycleStatement, SendDrop, LifecycleEvent, Next
<1>2. ASSUME NEW d \in Client, ClientStep(d) \/ ClientExpiry(d) \/ ClientArrival(d)
      PROVE  UNCHANGED vars
  BY <1>2 DEF ClientStep, ClientStatement, Resolve, FirstStatement, SelectUser,
     WriteLogin, AuditLogin, CommitLogin, ReadUser, ReadRoles, ReadPermissions,
     EndCheck, ListUsers, ClientExpiry, ClientTimeout, ClientArrival, Ask
<1>3. CASE ScriptStep
  BY <1>3 DEF ScriptStep, Script, ReadTenants, SetScriptPath, ResetScriptPath
<1>4. CASE Restart
  BY <1>4 DEF Restart, Next
<1>5. CASE Rest \/ UNCHANGED tenancyVars
  BY <1>5 DEF Rest, tenancyVars
<1> QED
  BY <1>1, <1>2, <1>3, <1>4, <1>5 DEF TenancyNext

\* The script adds a table to a schema that has tables, and nothing else.
LEMMA AddsTable ==
    ASSUME TypeOK, CreateAuditLogs
    PROVE  /\ UNCHANGED lifecycleButStore
           /\ store' \in [Schema -> Content]
           /\ \A s \in Schema :
                \/ store'[s] = store[s]
                \/ /\ s \in schemas
                   /\ store'[s] = [store[s] EXCEPT !.tables = @ \cup {"audit_logs"}]
<1>1. UNCHANGED lifecycleButStore
  BY DEF CreateAuditLogs
<1>2. \/ store' = store
      \/ /\ scriptPath \in schemas /\ scriptPath \in Schema
         /\ store' = [store EXCEPT ![scriptPath].tables = @ \cup {"audit_logs"}]
  BY DEF CreateAuditLogs, TypeOK
<1>3. ASSUME NEW s \in Schema,
             store' = [store EXCEPT ![s].tables = @ \cup {"audit_logs"}]
      PROVE  /\ store'[s] = [store[s] EXCEPT !.tables = @ \cup {"audit_logs"}]
             /\ store'[s] \in Content
             /\ \A u \in Schema \ {s} : store'[u] = store[u]
             /\ DOMAIN store' = Schema /\ store' = [u \in Schema |-> store'[u]]
  <2>1. store[s] \in Content
    BY DEF TypeOK
  <2>2. [store[s] EXCEPT !.tables = @ \cup {"audit_logs"}] \in Content
    BY <2>1 DEF Content, Table
  <2> QED
    BY <1>3, <2>2 DEF TypeOK
<1>4. CASE store' = store
  BY <1>1, <1>4 DEF TypeOK
<1>5. CASE store' # store
  <2>1. store' \in [Schema -> Content]
    BY <1>2, <1>3, <1>5 DEF TypeOK
  <2> QED
    BY <1>1, <1>2, <1>3, <1>5, <2>1
<1> QED
  BY <1>4, <1>5

LEMMA InvScript ==
    ASSUME Inv, CreateAuditLogs
    PROVE  Inv'
<1>1. /\ TypeOK /\ store' \in [Schema -> Content]
      /\ UNCHANGED <<tenants, schemas, searchPath, pc, at, schemaName, input, peers,
                     home, strayed, faults, crashes>>
  BY AddsTable DEF Inv, lifecycleButStore
<1>2. TypeOK'
  BY <1>1 DEF TypeOK
<1>3. ControlOK' /\ NamesOK' /\ RowsOK'
  BY <1>1 DEF Inv, ControlOK, NamesOK, Subject, IsCreate, RowsOK
<1>4. PeersOK' /\ Serving' = Serving
  BY <1>1 DEF Inv, PeersOK, Serving
<1>5. ASSUME NEW s \in Schema PROVE WorkOK(s)'
  BY <1>1, <1>4 DEF Inv, WorkOK, Raced, Interrupted, Progress, Agree, Registered,
     RegisteredAs
<1>6. ASSUME NEW r \in Request PROVE KeepOK(r)'
  BY <1>1, <1>4 DEF Inv, KeepOK, Undisturbed, Deleting, RegisteredAs
<1> QED
  BY <1>2, <1>3, <1>4, <1>5, <1>6 DEF Inv

\* The lifecycle's own invariant holds beside the script and the clients.
LEMMA LifecycleInv ==
    ASSUME Inv, [TenancyNext]_tenancyVars
    PROVE  Inv'
BY LifecyclePart, InvStep, InvScript

LEMMA CompletionScript ==
    ASSUME CompletionInv, CreateAuditLogs
    PROVE  CompletionInv'
<1>1. /\ Inv' /\ TypeOK /\ store' \in [Schema -> Content]
      /\ UNCHANGED <<schemas, searchPath, at, input, peers, home, strayed, pc,
                     schemaName>>
      /\ \A s \in Schema :
            \/ store'[s] = store[s]
            \/ /\ s \in schemas
               /\ store'[s] = [store[s] EXCEPT !.tables = @ \cup {"audit_logs"}]
  BY InvScript, AddsTable DEF CompletionInv, Inv, lifecycleButStore
<1>2. VacantOK' /\ StartOK' /\ HomeOK'
  BY <1>1 DEF CompletionInv, VacantOK, StartOK, HomeOK
<1>3. \A s \in Schema : /\ store[s].tables \subseteq store'[s].tables
                        /\ store'[s].tables \subseteq store[s].tables \cup {"audit_logs"}
                        /\ store'[s].superAdmin <=> store[s].superAdmin
                        /\ store'[s].admins = store[s].admins
                        /\ store'[s].granted = store[s].granted
  <2> SUFFICES ASSUME NEW s \in Schema
               PROVE  /\ store[s].tables \subseteq store'[s].tables
                      /\ store'[s].tables \subseteq store[s].tables \cup {"audit_logs"}
                      /\ store'[s].superAdmin <=> store[s].superAdmin
                      /\ store'[s].admins = store[s].admins
                      /\ store'[s].granted = store[s].granted
    OBVIOUS
  <2>1. store[s] \in Content
    BY <1>1 DEF TypeOK
  <2>2. LET m == [store[s] EXCEPT !.tables = @ \cup {"audit_logs"}]
        IN m.tables = store[s].tables \cup {"audit_logs"}
           /\ (m.superAdmin <=> store[s].superAdmin)
           /\ m.admins = store[s].admins /\ m.granted = store[s].granted
    BY <2>1, Rewritten
  <2>3. CASE store'[s] = store[s]
    BY <2>3
  <2>4. CASE store'[s] = [store[s] EXCEPT !.tables = @ \cup {"audit_logs"}]
    BY <2>2, <2>4
  <2> QED
    BY <1>1, <2>3, <2>4
<1>4. ASSUME NEW r \in Request PROVE FilledOK(r)'
  <2>1. SUFFICES ASSUME IsCreate(r), peers[r] = {}, Steady(r) PROVE FilledOK(r)'
    BY <1>1 DEF FilledOK, IsCreate, Steady
  <2>2. SchemaOf[input[r].slug] \in Schema
    BY <2>1, OwnSchema DEF CompletionInv
  <2> DEFINE s == SchemaOf[input[r].slug]
  <2>3. /\ store[s].tables \subseteq store'[s].tables
        /\ store'[s].tables \subseteq store[s].tables \cup {"audit_logs"}
        /\ store'[s].superAdmin <=> store[s].superAdmin
        /\ store'[s].admins = store[s].admins /\ store'[s].granted = store[s].granted
    BY <1>3, <2>2
  <2>4. FilledOK(r)
    BY DEF CompletionInv
  <2> QED
    BY <1>1, <2>1, <2>3, <2>4 DEF FilledOK
<1>5. ASSUME NEW r \in Request PROVE GrantedOK(r)' /\ HeldOK(r)'
  <2>1. /\ Serving' = Serving /\ Deleting(r)' = Deleting(r) /\ Steady(r)' = Steady(r)
        /\ GrantedOK(r) /\ HeldOK(r)
    BY <1>1 DEF CompletionInv, Serving, Deleting, Steady
  <2>2. ASSUME NEW s \in Schema, store[s].tables = Table
        PROVE  store'[s] = store[s]
    <3>1. store[s] \in Content
      BY <1>1 DEF TypeOK
    <3>2. [store[s] EXCEPT !.tables = @ \cup {"audit_logs"}] = store[s]
      BY <2>2, <3>1 DEF Content, Table
    <3> QED
      BY <1>1, <3>2
  <2>3. ASSUME SchemaOf[input[r].slug] \in Schema, Complete(r) PROVE Complete(r)'
    BY <1>1, <2>2, <2>3 DEF Complete
  <2>4. GrantedOK(r)'
    <3>1. ASSUME SchemaOf[input[r].slug] \in Schema, Unmixed(r) PROVE Unmixed(r)'
      BY <1>1, <1>3, <3>1 DEF Unmixed
    <3> QED
      BY <1>1, <1>3, <2>1, <2>3, <3>1 DEF GrantedOK
  <2>5. HeldOK(r)'
    <3>1. SUFFICES ASSUME pc[r] = "created", peers[r] = {}, Steady(r), ~Deleting(r)
                   PROVE  HeldOK(r)'
      BY <1>1, <2>1 DEF HeldOK
    <3>2. IsCreate(r)
      BY <3>1 DEF CompletionInv, Inv, ControlOK, CreateInput, IsCreate
    <3>3. SchemaOf[input[r].slug] \in Schema
      BY <3>2, OwnSchema DEF CompletionInv
    <3> QED
      BY <1>1, <1>3, <2>1, <3>1, <3>3 DEF HeldOK
  <2> QED
    BY <2>4, <2>5
<1> QED
  BY <1>1, <1>2, <1>4, <1>5 DEF CompletionInv

LEMMA LifecycleCompletion ==
    ASSUME CompletionInv, [TenancyNext]_tenancyVars
    PROVE  CompletionInv'
BY LifecyclePart, CompletionStep, CompletionScript

----------------------------------------------------------------------------
(* The script *)

\* A creation that has inserted its row does not insert another, and one that
\* was answered stays so.
LEMMA Onward ==
    ASSUME Inv, [Next]_vars \/ CreateAuditLogs, NEW r \in Request
    PROVE  /\ input' = input
           /\ pc[r] \notin Unregistered => pc'[r] \notin Unregistered
           /\ pc[r] = "created" => pc'[r] = "created" /\ peers'[r] = peers[r]
           /\ pc[r] # "idle" => peers[r] \subseteq peers'[r]
           /\ Deleting(r) => Deleting(r)'
<1> USE DEF Inv
<1>1. ASSUME NEW q \in Request, Begin(q)
      PROVE  /\ pc[q] = "idle" /\ pc'[q] \in {"checkSlug", "find"}
             /\ \A p \in Request \ {q} : /\ pc'[p] = pc[p] /\ peers[p] \subseteq peers'[p]
                                         /\ p \notin Serving => peers'[p] = peers[p]
             /\ input' = input
  BY <1>1 DEF Begin, Goto, TypeOK
<1>2. ASSUME NEW q \in Request, Statement(q) \/ StatementFails(q)
      PROVE  Moves(q) /\ (pc[q] \notin Unregistered => pc'[q] \notin Unregistered)
  <2>1. Moves(q)
    BY <1>2, StatementMoves
  <2>2. ASSUME pc'[q] \in Unregistered PROVE pc[q] \in Creating
    BY <2>1, <2>2 DEF Moves, Unregistered, Creating, Trying, Checking
  <2> USE <2>1, <2>2 DEF Goto, TypeOK, Unregistered, Creating, Checking, Trying,
                          Cleaning, Managing
  <2>3. CASE CheckSlug(q) \/ CheckSchema(q) \/ InsertTenant(q) \/ CreateSchema(q)
    BY <2>3 DEF CheckSlug, CheckSchema, InsertTenant, CreateSchema
  <2>4. ASSUME NEW c \in Conn, Raw(q, c) PROVE pc'[q] \notin Unregistered
    BY <2>4 DEF Raw, MigratePath, AdminPath, SetPath, MigrateReset, AdminReset,
       ResetPath, Migrate, NextTable, InsertRole, InsertUser, AssignRole
  <2>5. CASE \/ CleanRecord(q) \/ CleanSchema(q) \/ Find(q) \/ UpdateRow(q)
             \/ Deactivate(q) \/ DropSchema(q) \/ DeleteRow(q)
    BY <2>5 DEF CleanRecord, CleanSchema, DropSchema, Drop, Find, UpdateRow,
       Deactivate, DeleteRow
  <2>6. CASE StatementFails(q)
    BY <2>6 DEF StatementFails, FailsWithoutEffect, ReplyLost
  <2> QED
    BY <1>2, <2>1, <2>3, <2>4, <2>5, <2>6 DEF Statement
<1>3. CASE UNCHANGED vars \/ CreateAuditLogs
  <2>1. UNCHANGED <<pc, input, peers>>
    BY <1>3 DEF vars, CreateAuditLogs, lifecycleButStore
  <2> QED
    BY <2>1 DEF Deleting
<1>4. CASE Crash
  <2>1. /\ UNCHANGED <<input, peers>>
        /\ \A p \in Request : pc'[p] = pc[p] \/ (pc[p] \in InFlight /\ pc'[p] = "lost")
    BY <1>4 DEF Crash, Serving
  <2> QED
    BY <2>1 DEF Deleting, Unregistered, InFlight, Checking, Trying, Cleaning, Managing
<1>5. ASSUME NEW q \in Request, Begin(q) PROVE Deleting(r) => Deleting(r)'
  BY <1>1, <1>5 DEF Deleting
<1>6. ASSUME NEW q \in Request, Begin(q)
      PROVE  /\ pc[r] \notin Unregistered => pc'[r] \notin Unregistered
             /\ pc[r] = "created" => pc'[r] = "created" /\ peers'[r] = peers[r]
             /\ pc[r] # "idle" => peers[r] \subseteq peers'[r]
  BY <1>1, <1>6
     DEF Unregistered, Serving, InFlight, Checking, Trying, Cleaning, Managing
<1>7. ASSUME NEW q \in Request, Statement(q) \/ StatementFails(q)
      PROVE  /\ input' = input
             /\ pc[r] \notin Unregistered => pc'[r] \notin Unregistered
             /\ pc[r] = "created" => pc'[r] = "created"
             /\ peers'[r] = peers[r]
             /\ Deleting(r) => Deleting(r)'
  <2>1. Deleting(r) => Deleting(r)'
    BY <1>7, DeletingStays
  <2>2. pc[r] = "created" => r # q
    BY <1>2, <1>7 DEF Moves, InFlight, Checking, Trying, Cleaning, Managing
  <2> QED
    BY <1>2, <1>7, <2>1, <2>2 DEF Moves
<1> QED
  BY <1>1, <1>3, <1>4, <1>5, <1>6, <1>7 DEF Next, AllAnswered

LEMMA UndisturbedBefore ==
    ASSUME Inv, [Next]_vars \/ CreateAuditLogs, NEW r \in Request, pc[r] # "idle",
           Undisturbed(r)', SchemaOf[input[r].slug] \in Schema
    PROVE  Undisturbed(r)
<1>1. input' = input /\ peers[r] \subseteq peers'[r] /\ ~Deleting(r)
  BY Onward DEF Undisturbed
<1>2. ASSUME NEW q \in Request, Statement(q) \/ StatementFails(q) PROVE Undisturbed(r)
  BY <1>2, DisturbedStays DEF Inv
<1>3. CASE schemaName' = schemaName
  BY <1>1, <1>3 DEF Undisturbed
<1> QED
  BY <1>2, <1>3 DEF Next, Begin, Crash, AllAnswered, vars, CreateAuditLogs,
     lifecycleButStore

\* Rows of the registry after a statement were there before, but for the one a
\* creation inserts.
LEMMA RowsAfter ==
    ASSUME Inv, NEW q \in Request, Statement(q) \/ StatementFails(q), NEW t \in tenants'
    PROVE  \/ /\ \E u \in tenants : u.id = t.id /\ u.schema = t.schema
              /\ t.id = q => pc'[q] # "cleanSchema" \/ pc[q] = "cleanSchema"
           \/ /\ InsertTenant(q)
              /\ t.id = q /\ pc'[q] = "createSchema"
<1> USE DEF Inv
<1>1. pc'[q] = "cleanSchema" /\ pc[q] # "cleanSchema" => CleanRecord(q)
  <2> SUFFICES ASSUME pc'[q] = "cleanSchema", pc[q] # "cleanSchema"
               PROVE  CleanRecord(q)
    OBVIOUS
  <2> USE DEF Goto, TypeOK
  <2>1. ~(CheckSlug(q) \/ CheckSchema(q) \/ InsertTenant(q) \/ CreateSchema(q))
    BY DEF CheckSlug, CheckSchema, InsertTenant, CreateSchema
  <2>2. ASSUME NEW c \in Conn PROVE ~Raw(q, c)
    BY DEF Raw, MigratePath, AdminPath, SetPath, MigrateReset, AdminReset, ResetPath,
       Migrate, NextTable, InsertRole, InsertUser, AssignRole
  <2>3. ~(CleanSchema(q) \/ DropSchema(q))
    BY DEF CleanSchema, DropSchema, Drop
  <2>4. ~(Find(q) \/ DeleteRow(q))
    <3>1. ~Find(q)
      <4>1. pc[q] \in Creating
        BY StatementMoves DEF Moves, Creating, Cleaning
      <4> QED
        BY <4>1 DEF Find, Creating, Checking, Trying, Cleaning
    <3>2. ~DeleteRow(q)
      BY DEF DeleteRow
    <3> QED
      BY <3>1, <3>2
  <2>5. ~(UpdateRow(q) \/ Deactivate(q))
    BY DEF UpdateRow, Deactivate
  <2>6. ~StatementFails(q)
    BY DEF StatementFails, FailsWithoutEffect, ReplyLost
  <2> QED
    BY <2>1, <2>2, <2>3, <2>4, <2>5, <2>6 DEF Statement
<1>2. CASE CleanRecord(q)
  BY <1>2 DEF CleanRecord, RowsOK
<1>3. CASE InsertTenant(q)
  BY <1>1, <1>3 DEF InsertTenant, Goto, TypeOK, CleanRecord
<1>4. CASE tenants' = tenants /\ ~CleanRecord(q)
  BY <1>1, <1>4
<1>5. CASE UpdateRow(q) \/ Deactivate(q) \/ UpdateLost(q)
  <2>1. ~CleanRecord(q)
    BY <1>5 DEF UpdateRow, Deactivate, UpdateLost, ReplyLost, CleanRecord
  <2> QED
    BY <1>1, <1>5, <2>1, UpdateKeeps
<1>6. CASE DeleteRow(q) \/ DeletionLost(q)
  BY <1>1, <1>6 DEF DeleteRow, DeletionLost, ReplyLost, CleanRecord
<1> QED
  BY <1>2, <1>3, <1>4, <1>5, <1>6, RowWrites DEF UpdateLost, DeletionLost

LEMMA RowStatement ==
    ASSUME Inv, \A u \in tenants : RowOK(u),
           NEW q \in Request, Statement(q) \/ StatementFails(q), NEW t \in tenants'
    PROVE  RowOK(t)'
<1>1. Inv' /\ Moves(q) /\ t.id \in Request /\ input' = input /\ peers' = peers
  BY InvStatement, StatementMoves DEF Inv, TypeOK, Row, Moves
<1>2. CASE InsertTenant(q) /\ t.id = q /\ pc'[q] = "createSchema"
  <2>1. \A p \in Serving' \ {q} : p \in peers'[q]
    BY <1>1, <1>2 DEF Inv, PeersOK, Serving, InFlight, Trying
  <2> QED
    BY <1>2, <2>1 DEF RowOK, Unregistered, Checking
<1>3. ASSUME NEW u \in tenants, u.id = t.id, u.schema = t.schema,
             t.id = q => pc'[q] # "cleanSchema" \/ pc[q] = "cleanSchema"
      PROVE  RowOK(t)'
  <2>1. RowOK(u)
    OBVIOUS
  <2>2. pc'[t.id] \notin Unregistered \cup {"cleanSchema"}
    <3>1. pc[t.id] \notin Unregistered \cup {"cleanSchema"}
      BY <1>3, <2>1 DEF RowOK
    <3>2. pc'[t.id] \notin Unregistered
      BY <1>1, <3>1, Onward DEF Next
    <3> QED
      BY <1>1, <1>3, <3>1, <3>2 DEF Moves
  <2>3. ASSUME Undisturbed(t.id)', NEW p \in Request, pc'[p] \in InFlight,
               p \notin peers[t.id] \cup {t.id}, schemaName'[p] = t.schema
        PROVE  pc'[p] \in Managing /\ input[p].id = t.id
    <3>1. Undisturbed(t.id)
      <4>1. pc[t.id] # "idle" /\ SchemaOf[input[t.id].slug] \in Schema
        BY <1>1, <1>3, <2>1, SchemaAssumption
           DEF RowOK, Unregistered, Inv, RowsOK, TypeOK, CreateInput
      <4> QED
        BY <1>1, <2>3, <4>1, UndisturbedBefore DEF Next
    <3>2. CASE p # q
      BY <1>1, <1>3, <2>1, <2>3, <3>1, <3>2 DEF RowOK, Moves, Serving
    <3>3. CASE p = q
      <4>1. CASE schemaName[q] = t.schema
        <5>1. pc[q] \in Managing /\ input[q].id = t.id
          BY <1>1, <1>3, <2>1, <2>3, <3>1, <3>3, <4>1 DEF RowOK, Moves, Serving
        <5> QED
          BY <1>1, <2>3, <3>3, <5>1
             DEF Moves, Managing, Creating, Checking, Trying, Cleaning, InFlight
      <4>2. CASE schemaName[q] # t.schema
        <5>1. u.slug \in Slug /\ u.schema = SchemaOf[u.slug]
          BY DEF Inv, RowsOK, TypeOK, Row
        <5>2. CASE pc[q] = "checkSlug"
          <6>1. CheckSlug(q) /\ schemaName'[q] = SchemaOf[input[q].slug]
            BY <1>1, <2>3, <3>3, <4>2, <5>2
               DEF Moves, Statement, Raw, StatementFails, FailsWithoutEffect,
                   ReplyLost, CheckSlug, CheckSchema,
                   InsertTenant, CreateSchema, MigratePath, AdminPath, SetPath,
                   MigrateReset, AdminReset, ResetPath, Migrate, InsertRole,
                   InsertUser, AssignRole, CleanRecord, CleanSchema, DropSchema,
                   Drop, Find, UpdateRow, Deactivate, DeleteRow
          <6>2. input[q].slug \in Slug
            BY <5>2, InputKinds DEF Inv, ControlOK, TypeOK, Creating, Checking
          <6>3. u.slug = input[q].slug
            BY <1>3, <2>3, <3>3, <5>1, <6>1, <6>2, SchemaAssumption
          <6> QED
            BY <4>2, <2>3, <3>3, <6>1, <6>3 DEF CheckSlug
        <5>3. CASE pc[q] = "find"
          <6>1. PICK v \in tenants : v.id = input[q].id /\ schemaName'[q] = v.schema
            BY <1>1, <2>3, <3>3, <4>2, <5>3 DEF Moves
          <6>2. v.id = t.id
            BY <1>3, <2>3, <3>3, <6>1 DEF Inv, RowsOK
          <6> QED
            BY <1>1, <2>3, <3>3, <5>3, <6>1, <6>2
               DEF Moves, Managing, Creating, Checking, Trying, Cleaning, InFlight
        <5> QED
          BY <1>1, <2>3, <3>3, <4>2, <5>2, <5>3 DEF Moves
      <4> QED
        BY <4>1, <4>2
    <3> QED
      BY <3>2, <3>3
  <2> QED
    BY <1>1, <2>2, <2>3 DEF RowOK, Serving
<1> QED
  BY <1>2, <1>3, RowsAfter

LEMMA RowStep ==
    ASSUME Inv, \A u \in tenants : RowOK(u), [Next]_vars \/ CreateAuditLogs,
           NEW t \in tenants'
    PROVE  RowOK(t)'
<1>1. ASSUME NEW q \in Request, Statement(q) \/ StatementFails(q) PROVE RowOK(t)'
  BY <1>1, RowStatement
<1>2. SUFFICES ASSUME UNCHANGED <<tenants, schemaName, input>> PROVE RowOK(t)'
  BY <1>1 DEF Next, Begin, Crash, AllAnswered, vars, CreateAuditLogs,
     lifecycleButStore
<1>3. /\ RowOK(t) /\ t.id \in Request /\ pc[t.id] # "idle"
      /\ SchemaOf[input[t.id].slug] \in Schema /\ t.schema \in Schema
  BY <1>2, SchemaAssumption
     DEF RowOK, Unregistered, Inv, RowsOK, TypeOK, Row, CreateInput
<1>4. /\ peers[t.id] \subseteq peers'[t.id]
      /\ Undisturbed(t.id)' => Undisturbed(t.id)
      /\ pc'[t.id] \notin Unregistered
  BY <1>3, Onward, UndisturbedBefore DEF RowOK
<1>5. ASSUME NEW q \in Request, Begin(q) PROVE RowOK(t)'
  <2>1. /\ schemaName[q] = None /\ pc[q] = "idle"
        /\ \A p \in Request \ {q} : pc'[p] = pc[p]
    BY <1>5 DEF Begin, Goto, Inv, TypeOK, ControlOK
  <2>2. t.id # q
    BY <1>3, <2>1
  <2> QED
    BY <1>2, <1>3, <1>4, <2>1, <2>2, SchemaAssumption DEF RowOK, Serving
<1>6. CASE Crash
  <2>1. Serving' = {} /\ (pc'[t.id] = pc[t.id] \/ pc'[t.id] = "lost")
    BY <1>3, <1>6 DEF Crash, Serving, InFlight, Checking, Trying, Cleaning, Managing
  <2> QED
    BY <1>3, <1>4, <2>1 DEF RowOK
<1>7. CASE UNCHANGED <<pc, peers>>
  <2>1. Serving' = Serving
    BY <1>7 DEF Serving
  <2> QED
    BY <1>2, <1>3, <1>4, <1>7, <2>1 DEF RowOK
<1> QED
  BY <1>1, <1>5, <1>6, <1>7 DEF Next, AllAnswered, vars, CreateAuditLogs,
     lifecycleButStore

LEMMA ScriptTypes ==
    ASSUME Inv, ScriptTypeOK, ScriptOK, Script
    PROVE  ScriptTypeOK'
<1> USE DEF ScriptTypeOK
<1>1. CASE ReadTenants
  BY <1>1 DEF ReadTenants, Inv, TypeOK
<1>2. CASE SetScriptPath
  <2>1. target' \in Row
    BY <1>2 DEF SetScriptPath
  <2>2. target'.schema \in Schema
    BY <2>1 DEF Row
  <2> QED
    BY <1>2, <2>1, <2>2 DEF SetScriptPath
<1>3. CASE CreateAuditLogs
  <2>1. target.id \in Request
    BY <1>3 DEF CreateAuditLogs, ScriptOK, Row
  <2> QED
    BY <1>3, <2>1 DEF CreateAuditLogs
<1>4. CASE ResetScriptPath
  BY <1>4 DEF ResetScriptPath
<1> QED
  BY <1>1, <1>2, <1>3, <1>4 DEF Script

LEMMA ScriptControl ==
    ASSUME Inv, ScriptTypeOK, ScriptOK, \A u \in tenants : RowOK(u),
           [Next]_vars \/ CreateAuditLogs, Script \/ UNCHANGED scriptVars
    PROVE  ScriptOK'
<1>1. \A r \in Request : /\ pc[r] \notin Unregistered => pc'[r] \notin Unregistered
                         /\ input' = input
  BY Onward
<1>2. ASSUME NEW t \in Row, Recorded(t) PROVE Recorded(t)'
  BY <1>1, <1>2 DEF Recorded, Row
<1>3. /\ \A t \in todo : Recorded(t)'
      /\ \A r \in migrated : pc'[r] \notin Unregistered
  BY <1>1, <1>2 DEF ScriptOK, ScriptTypeOK
<1>4. CASE ReadTenants
  <2>1. ASSUME NEW t \in tenants PROVE Recorded(t)'
    BY <1>2 DEF Inv, TypeOK, RowsOK, RowOK, Recorded
  <2> QED
    BY <1>3, <1>4, <2>1 DEF ReadTenants, ScriptOK
<1>5. CASE SetScriptPath
  BY <1>3, <1>5 DEF SetScriptPath, ScriptOK
<1>6. CASE CreateAuditLogs
  <2>1. target \in todo /\ target.id \in Request /\ pc'[target.id] \notin Unregistered
    BY <1>1, <1>6 DEF CreateAuditLogs, ScriptOK, ScriptTypeOK, Recorded, Row
  <2> QED
    BY <1>3, <1>6, <2>1 DEF CreateAuditLogs, ScriptOK
<1>7. CASE ResetScriptPath
  BY <1>3, <1>7 DEF ResetScriptPath, ScriptOK
<1>8. CASE UNCHANGED scriptVars
  BY <1>3, <1>8 DEF scriptVars, ScriptOK
<1> QED
  BY <1>4, <1>5, <1>6, <1>7, <1>8 DEF Script

\* No write takes a table away.
LEMMA WritesAdd ==
    ASSUME Inv, NEW q \in Request, NEW c \in Conn, Writes(q, c), NEW s \in Schema
    PROVE  store[s].tables \subseteq store'[s].tables
<1>1. store \in [Schema -> Content] /\ store[s] \in Content
  BY DEF Inv, TypeOK
<1>2. CASE s # searchPath[c]
  BY <1>2, WritesThere
<1>3. CASE s = searchPath[c] /\ Migrate(q, c)
  <2>1. \/ store' = store
        \/ store' = [store EXCEPT ![s].tables = @ \cup {Migration[at[q]]}]
    BY <1>3 DEF Migrate
  <2>2. [store[s] EXCEPT !.tables = @ \cup {Migration[at[q]]}].tables
           = store[s].tables \cup {Migration[at[q]]}
    BY <1>1, Rewritten
  <2> QED
    BY <1>1, <2>1, <2>2
<1>4. CASE s = searchPath[c] /\ ~Migrate(q, c)
  <2>1. \/ store' = store
        \/ store' = [store EXCEPT ![s].superAdmin = TRUE]
        \/ store' = [store EXCEPT ![s].admins = @ \cup {q}]
        \/ store' = [store EXCEPT ![s].granted = @ \cup {q}]
    BY <1>4 DEF Writes, InsertRole, InsertUser, AssignRole
  <2>2. CASE store' = [store EXCEPT ![s].superAdmin = TRUE]
    BY <1>1, <2>2, Rewritten
  <2>3. CASE store' = [store EXCEPT ![s].admins = @ \cup {q}]
    BY <1>1, <2>3, Rewritten
  <2>4. CASE store' = [store EXCEPT ![s].granted = @ \cup {q}]
    BY <1>1, <2>4, Rewritten
  <2> QED
    BY <2>1, <2>2, <2>3, <2>4
<1> QED
  BY <1>2, <1>3, <1>4

\* Nobody drops the schema of an undisturbed tenant whose row stands.
LEMMA SchemaStays ==
    ASSUME Inv, NEW q \in Request, Statement(q) \/ StatementFails(q),
           NEW t \in tenants, tenants' = tenants, RowOK(t), Undisturbed(t.id)',
           NEW x \in store[t.schema].tables, t.schema \in schemas
    PROVE  t.schema \in schemas' /\ x \in store'[t.schema].tables
<1> DEFINE s == t.schema
<1>1. /\ t.id \in Request /\ s \in Schema /\ store[s] \in Content
      /\ s = SchemaOf[input[t.id].slug] /\ Moves(q) /\ Undisturbed(t.id)
  <2>1. /\ t.id \in Request /\ s \in Schema /\ store[s] \in Content
        /\ s = SchemaOf[input[t.id].slug] /\ Moves(q)
    BY StatementMoves DEF Inv, TypeOK, Row, RowsOK
  <2> QED
    BY <2>1, UndisturbedBefore DEF Next, RowOK, Unregistered
<1>2. CASE UNCHANGED <<schemas, store>>
  BY <1>2
<1>3. CASE CreateSchema(q)
  BY <1>3 DEF CreateSchema
<1>4. CASE (CleanSchema(q) \/ DropSchema(q)) /\ schemaName[q] # s
  BY <1>1, <1>4 DEF CleanSchema, DropSchema, Drop, Inv, TypeOK
<1>5. CASE (CleanSchema(q) \/ DropSchema(q)) /\ schemaName[q] = s
  <2>1. q \notin peers[t.id] /\ q \in Serving
    BY <1>1, <1>5 DEF Undisturbed, Moves, Serving
  <2>2. CASE q = t.id
    BY <1>5, <2>2
       DEF RowOK, CleanSchema, DropSchema, Drop, Inv, ControlOK, RowsOK, CreateInput
  <2>3. CASE q # t.id
    <3>1. pc[q] \in Managing /\ input[q].id = t.id
      BY <1>1, <1>5, <2>1, <2>3 DEF RowOK
    <3>2. pc[q] = "dropSchema" /\ input[q].op = "hardDelete"
      BY <1>5, <3>1 DEF CleanSchema, DropSchema, Drop, Managing, Inv, ControlOK
    <3> QED
      BY <1>1, <3>1, <3>2 DEF Undisturbed, Deleting
  <2> QED
    BY <2>2, <2>3
<1>6. ASSUME NEW c \in Conn, Writes(q, c) PROVE s \in schemas' /\ x \in store'[s].tables
  BY <1>1, <1>6, WritesThere, WritesAdd
<1> QED
  BY <1>2, <1>3, <1>4, <1>5, <1>6, Kinds

LEMMA MigratedStep ==
    ASSUME MigrationInv,
           \/ UNCHANGED scriptVars /\ [Next]_vars
           \/ Script /\ UNCHANGED vars
           \/ CreateAuditLogs
    PROVE  MigratedHasAuditLog'
<1> SUFFICES ASSUME NEW t \in tenants', t.id \in migrated', Undisturbed(t.id)'
             PROVE  t.schema \in schemas' /\ "audit_logs" \in store'[t.schema].tables
  BY DEF MigratedHasAuditLog
<1>1. Inv' /\ RowOK(t)'
  BY InvStep, InvScript, RowStep DEF MigrationInv
<1>2. t.id \in Request /\ input' = input /\ SchemaOf[input[t.id].slug] \in Schema
      /\ t.schema = SchemaOf[input[t.id].slug]
  <2>1. /\ t.id \in Request /\ t.schema \in Schema
        /\ t.schema = SchemaOf[input'[t.id].slug]
    BY <1>1 DEF Inv, TypeOK, Row, RowsOK
  <2> QED
    BY <2>1, Onward DEF MigrationInv
<1>3. ASSUME NEW u \in tenants, u.id = t.id, u.schema = t.schema, u.id \in migrated
      PROVE  /\ Undisturbed(u.id) /\ RowOK(u)
             /\ u.schema \in schemas /\ "audit_logs" \in store[u.schema].tables
  <2>1. RowOK(u)
    BY DEF MigrationInv
  <2>2. Undisturbed(u.id)
    BY <1>2, <1>3, <2>1, UndisturbedBefore DEF MigrationInv, RowOK, Unregistered
  <2> QED
    BY <1>3, <2>1, <2>2 DEF MigrationInv, MigratedHasAuditLog
<1>4. ASSUME UNCHANGED scriptVars, NEW q \in Request, Statement(q) \/ StatementFails(q)
      PROVE  t.schema \in schemas' /\ "audit_logs" \in store'[t.schema].tables
  <2>1. migrated' = migrated
    BY <1>4 DEF scriptVars
  <2>2. CASE InsertTenant(q) /\ t.id = q
    <3>1. q \notin migrated
      BY <2>2 DEF InsertTenant, MigrationInv, ScriptOK, Unregistered
    <3> QED
      BY <2>1, <2>2, <3>1
  <2>3. ASSUME NEW u \in tenants, u.id = t.id, u.schema = t.schema
        PROVE  t.schema \in schemas' /\ "audit_logs" \in store'[t.schema].tables
    <3>1. /\ Undisturbed(u.id) /\ RowOK(u)
          /\ u.schema \in schemas /\ "audit_logs" \in store[u.schema].tables
      BY <1>3, <2>1, <2>3
    <3>2. CASE tenants' = tenants
      BY <1>4, <2>3, <3>1, <3>2, SchemaStays DEF MigrationInv
    <3>3. CASE tenants' # tenants
      <4>1. UNCHANGED <<schemas, store>>
        BY <1>4, <3>3, RowWrites
           DEF MigrationInv, Inv, InsertTenant, CleanRecord, UpdateRow, Deactivate,
               DeleteRow, ReplyLost
      <4> QED
        BY <2>3, <3>1, <4>1
    <3> QED
      BY <3>2, <3>3
  <2> QED
    BY <1>4, <2>2, <2>3, RowsAfter DEF MigrationInv
<1>5. CASE CreateAuditLogs
  <2>1. /\ UNCHANGED <<tenants, schemas>> /\ Inv
        /\ store[t.schema].tables \subseteq store'[t.schema].tables
    <3>1. store[t.schema] \in Content /\ Inv /\ TypeOK /\ t.schema \in Schema
      BY <1>2 DEF MigrationInv, Inv, TypeOK
    <3>2. /\ UNCHANGED lifecycleButStore
          /\ \/ store'[t.schema] = store[t.schema]
             \/ store'[t.schema] = [store[t.schema] EXCEPT !.tables = @ \cup {"audit_logs"}]
      BY <1>5, <3>1, AddsTable
    <3>3. [store[t.schema] EXCEPT !.tables = @ \cup {"audit_logs"}].tables
             = store[t.schema].tables \cup {"audit_logs"}
      BY <3>1, Rewritten
    <3> QED
      BY <3>1, <3>2, <3>3 DEF lifecycleButStore
  <2>2. CASE t.id \in migrated
    BY <1>3, <2>1, <2>2
  <2>3. CASE t.id \notin migrated
    <3>1. /\ t.id = target.id /\ target \in todo /\ scriptPath = target.schema
          /\ scriptPath \in schemas \/ scriptPath = Public
      BY <1>5, <2>3 DEF CreateAuditLogs, MigrationInv, ScriptOK
    <3>2. target.schema = t.schema /\ scriptPath # Public
      BY <1>2, <3>1, SchemaAssumption DEF MigrationInv, ScriptOK, Recorded
    <3>3. store' = [store EXCEPT ![scriptPath].tables = @ \cup {"audit_logs"}]
          /\ scriptPath \in schemas
      BY <1>5, <2>3, <3>2 DEF CreateAuditLogs
    <3>4. store[t.schema] \in Content /\ store \in [Schema -> Content]
      BY <1>2 DEF MigrationInv, Inv, TypeOK
    <3>5. store'[t.schema] = [store[t.schema] EXCEPT !.tables = @ \cup {"audit_logs"}]
      BY <3>1, <3>2, <3>3, <3>4, <1>2 DEF MigrationInv, Inv, TypeOK
    <3>6. store'[t.schema].tables = store[t.schema].tables \cup {"audit_logs"}
      BY <3>4, <3>5, Rewritten
    <3> QED
      BY <1>2, <2>1, <3>1, <3>2, <3>3, <3>6
  <2> QED
    BY <2>2, <2>3
<1>6. CASE UNCHANGED <<tenants, schemas, store, migrated>>
  BY <1>3, <1>6
<1>7. CASE Script /\ UNCHANGED vars /\ ~CreateAuditLogs
  BY <1>6, <1>7 DEF Script, ReadTenants, SetScriptPath, ResetScriptPath, vars
<1>8. CASE UNCHANGED scriptVars /\ [Next]_vars
  BY <1>4, <1>6, <1>8 DEF Next, Begin, Crash, AllAnswered, vars, scriptVars
<1> QED
  BY <1>5, <1>7, <1>8

\* What a step of the composition is to the script.
LEMMA ScriptPart ==
    ASSUME [TenancyNext]_tenancyVars
    PROVE  /\ Script \/ UNCHANGED scriptVars
           /\ \/ UNCHANGED scriptVars /\ [Next]_vars
              \/ Script /\ UNCHANGED vars
              \/ CreateAuditLogs
<1>1. ASSUME NEW r \in Request, LifecycleStep(r) \/ LifecycleEvent(r)
      PROVE  UNCHANGED scriptVars /\ [Next]_vars
  BY <1>1 DEF LifecycleStep, LifecycleStatement, SendDrop, LifecycleEvent, Next
<1>2. ASSUME NEW d \in Client, ClientStep(d) \/ ClientExpiry(d) \/ ClientArrival(d)
      PROVE  UNCHANGED scriptVars /\ UNCHANGED vars
  BY <1>2 DEF ClientStep, ClientStatement, Resolve, FirstStatement, SelectUser,
     WriteLogin, AuditLogin, CommitLogin, ReadUser, ReadRoles, ReadPermissions,
     EndCheck, ListUsers, ClientExpiry, ClientTimeout, ClientArrival, Ask
<1>3. CASE ScriptStep
  BY <1>3 DEF ScriptStep, Script, ReadTenants, SetScriptPath, ResetScriptPath
<1>4. CASE Restart
  BY <1>4 DEF Restart, Next
<1>5. CASE Rest \/ UNCHANGED tenancyVars
  BY <1>5 DEF Rest, tenancyVars
<1> QED
  BY <1>1, <1>2, <1>3, <1>4, <1>5 DEF TenancyNext

LEMMA MigrationStep ==
    ASSUME MigrationInv, [TenancyNext]_tenancyVars
    PROVE  MigrationInv'
<1>1. /\ Script \/ UNCHANGED scriptVars
      /\ \/ UNCHANGED scriptVars /\ [Next]_vars
         \/ Script /\ UNCHANGED vars
         \/ CreateAuditLogs
      /\ [Next]_vars \/ CreateAuditLogs
  BY ScriptPart
<1>2. Inv'
  BY LifecycleInv DEF MigrationInv
<1>3. ScriptTypeOK'
  <2>1. CASE UNCHANGED scriptVars
    BY <2>1 DEF MigrationInv, ScriptTypeOK, scriptVars
  <2> QED
    BY <1>1, <2>1, ScriptTypes DEF MigrationInv
<1>4. ScriptOK'
  BY <1>1, ScriptControl DEF MigrationInv
<1>5. \A t \in tenants' : RowOK(t)'
  BY <1>1, RowStep DEF MigrationInv
<1>6. MigratedHasAuditLog'
  BY <1>1, MigratedStep
<1> QED
  BY <1>2, <1>3, <1>4, <1>5, <1>6 DEF MigrationInv

----------------------------------------------------------------------------
(* The clients *)

LEMMA ClientMoves ==
    ASSUME Inv, ClientTypeOK, NEW d \in Client, ClientOK(d),
           ClientStep(d) \/ ClientExpiry(d) \/ ClientArrival(d)
    PROVE  /\ UNCHANGED <<vars, scriptVars, waiting, tokens>>
           /\ ClientTypeOK' /\ ClientOK(d)'
           /\ \A e \in Client \ {d} : /\ cpc'[e] = cpc[e] /\ asked'[e] = asked[e]
                                      /\ context'[e] = context[e] /\ listed'[e] = listed[e]
<1> DEFINE Others == \A e \in Client \ {d} :
               /\ cpc'[e] = cpc[e] /\ asked'[e] = asked[e]
               /\ context'[e] = context[e] /\ listed'[e] = listed[e]
<1> USE DEF ClientGoto, Starting, Holding, ClientInFlight, ClientAnswered, Logging,
            Listing
<1>1. UNCHANGED <<vars, scriptVars, waiting, tokens>>
  BY DEF ClientStep, ClientStatement, Resolve, FirstStatement, SelectUser, WriteLogin,
     AuditLogin, CommitLogin, ReadUser, ReadRoles, ReadPermissions, EndCheck, ListUsers,
     ClientExpiry, ClientTimeout, ClientArrival, Ask
<1>2. pc' = pc /\ waiting' = waiting /\ tokens' = tokens
  BY <1>1 DEF vars
<1> DEFINE Goes(from, to) ==
               /\ UNCHANGED <<asked, context, listed>>
               /\ cpc[d] \in from /\ cpc'[d] \in to
               /\ \A e \in Client \ {d} : cpc'[e] = cpc[e]
               /\ cpc' \in [Client -> ClientInFlight \cup ClientAnswered
                                         \cup {"idle", "lost"}]
<1>3. ASSUME \/ Goes(Logging \ {"loggedIn"}, Logging)
             \/ Goes(Listing \ {"listed", "forbidden"}, Listing)
             \/ Goes({"resolve"} \cup Starting \cup Holding,
                    {"error", "unauthorized", "notFound"})
      PROVE  ClientTypeOK' /\ ClientOK(d)' /\ Others
  BY <1>2, <1>3 DEF ClientTypeOK, ClientOK
<1>4. CASE Ask(d)
  <2>1. PICK i \in Asks[d] : asked' = [asked EXCEPT ![d] = i]
    BY <1>4 DEF Ask
  <2>2. i \in ClientInput
    BY <2>1, AsksAssumption
  <2>3. /\ cpc' \in [Client -> ClientInFlight \cup ClientAnswered \cup {"idle", "lost"}]
        /\ asked' \in [Client -> ClientInput \cup {None}]
        /\ asked'[d] = i /\ cpc'[d] = "resolve" /\ Others
        /\ UNCHANGED <<context, listed>>
    BY <1>4, <2>1, <2>2 DEF Ask, ClientTypeOK
  <2>4. ClientTypeOK'
    BY <1>2, <2>3 DEF ClientTypeOK
  <2>5. ClientOK(d)'
    BY <1>2, <2>1, <2>2, <2>3 DEF ClientOK
  <2> QED
    BY <1>1, <2>3, <2>4, <2>5
<1>5. CASE Resolve(d)
  <2>1. CASE cpc' = [cpc EXCEPT ![d] = "notFound"] /\ UNCHANGED context
    <3>1. Goes({"resolve"} \cup Starting \cup Holding, {"error", "unauthorized", "notFound"})
      BY <1>5, <2>1 DEF Resolve, ClientTypeOK
    <3> QED
      BY <1>1, <1>3, <3>1
  <2>2. CASE ~(cpc' = [cpc EXCEPT ![d] = "notFound"] /\ UNCHANGED context)
    <3>1. PICK t \in tenants :
              /\ context' = [context EXCEPT ![d] = t.schema]
              /\ cpc' = [cpc EXCEPT ![d] = IF asked[d].op = "login" THEN "select"
                                           ELSE "readUser"]
      BY <1>5, <2>2 DEF Resolve
    <3>2. t.schema \in Schema
      BY DEF Inv, TypeOK, Row
    <3>3. asked[d].op \in {"login", "list"} /\ cpc[d] = "resolve"
      BY <1>5 DEF Resolve, ClientOK, ClientInput
    <3>4. /\ cpc' \in [Client -> ClientInFlight \cup ClientAnswered \cup {"idle", "lost"}]
          /\ context' \in [Client -> Schema \cup {None}]
          /\ context'[d] \in Schema /\ Others /\ UNCHANGED <<asked, listed>>
          /\ cpc'[d] = IF asked[d].op = "login" THEN "select" ELSE "readUser"
      BY <1>5, <3>1, <3>2 DEF Resolve, ClientTypeOK
    <3>5. ClientTypeOK'
      BY <1>2, <3>4 DEF ClientTypeOK
    <3>6. ClientOK(d)'
      BY <1>2, <3>3, <3>4 DEF ClientOK
    <3> QED
      BY <1>1, <3>4, <3>5, <3>6
  <2> QED
    BY <2>1, <2>2
<1>6. CASE SelectUser(d)
  <2>1. \/ Goes(Logging \ {"loggedIn"}, Logging)
        \/ Goes({"resolve"} \cup Starting \cup Holding,
                {"error", "unauthorized", "notFound"})
    BY <1>6 DEF SelectUser, FirstStatement, ClientTypeOK
  <2> QED
    BY <1>1, <1>3, <2>1
<1>7. CASE WriteLogin(d) \/ AuditLogin(d) \/ CommitLogin(d)
  <2>1. \/ Goes(Logging \ {"loggedIn"}, Logging)
        \/ Goes({"resolve"} \cup Starting \cup Holding,
                {"error", "unauthorized", "notFound"})
    BY <1>7 DEF WriteLogin, AuditLogin, CommitLogin, ClientTypeOK
  <2> QED
    BY <1>1, <1>3, <2>1
<1>8. CASE ReadUser(d)
  <2>1. \/ Goes(Listing \ {"listed", "forbidden"}, Listing)
        \/ Goes({"resolve"} \cup Starting \cup Holding,
                {"error", "unauthorized", "notFound"})
    BY <1>8 DEF ReadUser, FirstStatement, ClientTypeOK
  <2> QED
    BY <1>1, <1>3, <2>1
<1>9. CASE ReadRoles(d) \/ ReadPermissions(d) \/ EndCheck(d)
  <2>1. \/ Goes(Listing \ {"listed", "forbidden"}, Listing)
        \/ Goes({"resolve"} \cup Starting \cup Holding,
                {"error", "unauthorized", "notFound"})
    BY <1>9 DEF ReadRoles, ReadPermissions, EndCheck, ClientTypeOK
  <2> QED
    BY <1>1, <1>3, <2>1
<1>10. CASE ListUsers(d)
  <2>1. Users(d) \subseteq Request
    BY <1>10 DEF ListUsers, FirstStatement, ClientOK, Users, Inv, TypeOK, Content
  <2>2. /\ cpc' \in [Client -> ClientInFlight \cup ClientAnswered \cup {"idle", "lost"}]
        /\ listed' \in [Client -> SUBSET Request]
        /\ cpc[d] = "handle" /\ cpc'[d] \in {"listed", "error"} /\ Others
        /\ UNCHANGED <<asked, context>>
    BY <1>10, <2>1 DEF ListUsers, FirstStatement, ClientTypeOK
  <2>3. ClientTypeOK'
    BY <1>2, <2>2 DEF ClientTypeOK
  <2>4. ClientOK(d)'
    BY <1>2, <2>2 DEF ClientOK
  <2> QED
    BY <1>1, <2>2, <2>3, <2>4
<1>11. CASE ClientTimeout(d)
  <2>1. \/ Goes(Logging \ {"loggedIn"}, Logging)
        \/ Goes({"resolve"} \cup Starting \cup Holding,
                {"error", "unauthorized", "notFound"})
    BY <1>11 DEF ClientTimeout, ClientTypeOK
  <2> QED
    BY <1>1, <1>3, <2>1
<1> QED
  BY <1>1, <1>4, <1>5, <1>6, <1>7, <1>8, <1>9, <1>10, <1>11
     DEF ClientStep, ClientStatement, ClientExpiry, ClientArrival

LEMMA WaitingStep ==
    ASSUME Inv, ClientTypeOK, TenancyNext,
           \A d \in Client : ~(ClientStep(d) \/ ClientExpiry(d) \/ ClientArrival(d))
    PROVE  /\ waiting' \subseteq {r \in Request : pc'[r] \in {"dropSchema", "cleanSchema"}}
           /\ tokens' \subseteq Request
<1> USE DEF ClientTypeOK
<1>T. tokens' \subseteq Request
  <2>1. Findable' \subseteq Request
    BY DEF Findable
  <2>2. tokens' \in {tokens, tokens \cup Findable'}
    BY DEF TenancyNext, LifecycleStep, LifecycleStatement, SendDrop, LifecycleEvent,
       ScriptStep, Restart, Rest, tenancyVars
  <2> QED
    BY <2>1, <2>2
<1>1. ASSUME NEW r \in Request, Begin(r) \/ Statement(r) \/ StatementFails(r)
      PROVE  \A q \in Request \ {r} : pc'[q] = pc[q]
  BY <1>1, StatementMoves DEF Begin, Goto, Inv, TypeOK, Moves
<1>2. ASSUME NEW r \in Request, LifecycleStatement(r) \/ LifecycleEvent(r)
      PROVE  waiting' \subseteq {q \in Request : pc'[q] \in {"dropSchema", "cleanSchema"}}
  BY <1>1, <1>2 DEF LifecycleStatement, LifecycleEvent
<1>3. ASSUME NEW r \in Request, SendDrop(r)
      PROVE  waiting' \subseteq {q \in Request : pc'[q] \in {"dropSchema", "cleanSchema"}}
  BY <1>3 DEF SendDrop, vars
<1>4. CASE ScriptStep
  BY <1>4 DEF ScriptStep, Script, ReadTenants, SetScriptPath, CreateAuditLogs,
     ResetScriptPath, vars, lifecycleButStore
<1>5. CASE Restart
  BY <1>5 DEF Restart
<1>6. CASE Rest
  BY <1>6 DEF Rest, tenancyVars, vars
<1> QED
  BY <1>T, <1>2, <1>3, <1>4, <1>5, <1>6 DEF TenancyNext, LifecycleStep

\* Whatever is not a client's step leaves every request of a client where it is,
\* or cuts it off.
LEMMA ClientRests ==
    ASSUME TenancyNext,
           \A d \in Client : ~(ClientStep(d) \/ ClientExpiry(d) \/ ClientArrival(d))
    PROVE  /\ UNCHANGED <<asked, context, listed>>
           /\ \/ cpc' = cpc
              \/ cpc' = [d \in Client |-> IF cpc[d] \in ClientInFlight THEN "lost"
                                          ELSE cpc[d]]
BY DEF TenancyNext, LifecycleStep, LifecycleStatement, SendDrop, LifecycleEvent,
   ScriptStep, Restart, Rest, tenancyVars, clientVars

LEMMA TenancyStep ==
    ASSUME TenancyInv, [TenancyNext]_tenancyVars
    PROVE  TenancyInv'
<1>1. MigrationInv' /\ Inv
  BY MigrationStep DEF TenancyInv, MigrationInv
<1>2. ASSUME NEW e \in Client, asked'[e] = asked[e], context'[e] = context[e],
             cpc'[e] = cpc[e] \/ (cpc'[e] = "lost" /\ cpc[e] # "idle")
      PROVE  ClientOK(e)'
  <2>1. ClientOK(e)
    BY DEF TenancyInv
  <2> QED
    BY <1>2, <2>1 DEF ClientOK, Logging, Listing, Starting, Holding
<1>3. ASSUME NEW d \in Client, ClientStep(d) \/ ClientExpiry(d) \/ ClientArrival(d)
      PROVE  ClientTypeOK' /\ \A e \in Client : ClientOK(e)'
  BY <1>1, <1>2, <1>3, ClientMoves DEF TenancyInv
<1>4. CASE TenancyNext /\ \A d \in Client : ~(ClientStep(d) \/ ClientExpiry(d)
                                               \/ ClientArrival(d))
  <2>1. /\ UNCHANGED <<asked, context, listed>>
        /\ \/ cpc' = cpc
           \/ cpc' = [d \in Client |-> IF cpc[d] \in ClientInFlight THEN "lost" ELSE cpc[d]]
        /\ waiting' \subseteq {r \in Request : pc'[r] \in {"dropSchema", "cleanSchema"}}
        /\ tokens' \subseteq Request
    BY <1>1, <1>4, ClientRests, WaitingStep DEF TenancyInv
  <2>2. ClientTypeOK'
    BY <2>1 DEF TenancyInv, ClientTypeOK
  <2>3. \A e \in Client : cpc'[e] = cpc[e] \/ (cpc'[e] = "lost" /\ cpc[e] # "idle")
    BY <2>1 DEF ClientInFlight, Starting, Holding
  <2>4. \A e \in Client : ClientOK(e)'
    BY <1>2, <2>1, <2>3
  <2> QED
    BY <1>1, <2>2, <2>4 DEF TenancyInv
<1>5. CASE UNCHANGED tenancyVars
  <2>1. UNCHANGED <<pc, cpc, asked, context, listed, waiting, tokens>>
    BY <1>5 DEF tenancyVars, clientVars, vars
  <2>2. ClientTypeOK'
    BY <2>1 DEF TenancyInv, ClientTypeOK
  <2>3. \A e \in Client : ClientOK(e)'
    BY <1>2, <2>1
  <2> QED
    BY <1>1, <2>2, <2>3 DEF TenancyInv
<1> QED
  BY <1>1, <1>3, <1>4, <1>5 DEF TenancyInv

LEMMA TenancyStart == TenancyInit => TenancyInv
<1> SUFFICES ASSUME TenancyInit PROVE TenancyInv
  OBVIOUS
<1>1. Inv
  BY InvInit DEF TenancyInit
<1>2. ScriptTypeOK /\ ScriptOK
  BY DEF TenancyInit, ScriptInit, ScriptTypeOK, ScriptOK
<1>3. tenants = {}
  BY DEF TenancyInit, Init
<1>4. ClientTypeOK
  BY DEF TenancyInit, ClientInit, ClientTypeOK
<1>5. \A d \in Client : ClientOK(d)
  BY DEF TenancyInit, ClientInit, ClientOK, Logging, Listing, Starting, Holding
<1> QED
  BY <1>1, <1>2, <1>3, <1>4, <1>5 DEF TenancyInv, MigrationInv, MigratedHasAuditLog

----------------------------------------------------------------------------
(* What clients are shown *)

\* Labels of a creation from its last statement on.
Late == {"adminReset", "lost"} \cup Cleaning \cup Answered

LEMMA LateOnward ==
    ASSUME CompletionInv, [Next]_vars \/ CreateAuditLogs, NEW r \in Request,
           pc[r] \in Late
    PROVE  /\ pc'[r] \in Late
           /\ pc'[r] \in {"adminReset", "created"} => pc[r] \in {"adminReset", "created"}
<1>1. Inv /\ TypeOK
  BY DEF CompletionInv, Inv
<1>2. CASE pc'[r] = pc[r]
  BY <1>2
<1>3. ASSUME NEW q \in Request, Begin(q) PROVE pc'[r] = pc[r]
  BY <1>1, <1>3 DEF Begin, Goto, TypeOK, Late, Cleaning, Answered
<1>4. CASE Crash
  BY <1>1, <1>4 DEF Crash, TypeOK, Late
<1>5. CASE UNCHANGED vars \/ CreateAuditLogs
  BY <1>5 DEF vars, CreateAuditLogs, lifecycleButStore
<1>6. ASSUME NEW q \in Request, Statement(q) \/ StatementFails(q), q # r
      PROVE  pc'[r] = pc[r]
  BY <1>1, <1>6, StatementMoves DEF Inv, Moves
<1>7. CASE Statement(r) \/ StatementFails(r)
  <2>1. pc[r] \in {"adminReset"} \cup Cleaning
    BY <1>1, <1>7, StatementMoves
       DEF Inv, Moves, Late, InFlight, Checking, Trying, Managing, Answered
  <2> USE <2>1 DEF Late, Cleaning, Answered, Goto, TypeOK
  <2>2. ASSUME NEW c \in Conn, Raw(r, c)
        PROVE  pc'[r] = "created" /\ pc[r] = "adminReset"
    BY <1>1, <2>2 DEF Raw, MigratePath, AdminPath, SetPath, MigrateReset, AdminReset,
       ResetPath, Migrate, InsertRole, InsertUser, AssignRole
  <2>3. CASE CleanRecord(r) \/ CleanSchema(r)
    BY <1>1, <2>3 DEF CleanRecord, CleanSchema, Drop
  <2>4. CASE StatementFails(r)
    BY <1>1, <2>4 DEF StatementFails, FailsWithoutEffect, ReplyLost, Trying, Checking,
       Managing
  <2>5. ~(CheckSlug(r) \/ CheckSchema(r) \/ InsertTenant(r) \/ CreateSchema(r)
          \/ Find(r) \/ UpdateRow(r) \/ Deactivate(r) \/ DropSchema(r) \/ DeleteRow(r))
    BY DEF CheckSlug, CheckSchema, InsertTenant, CreateSchema, Find, UpdateRow,
       Deactivate, DropSchema, Drop, DeleteRow
  <2> QED
    BY <1>7, <2>2, <2>3, <2>4, <2>5 DEF Statement
<1> QED
  BY <1>2, <1>3, <1>4, <1>5, <1>6, <1>7 DEF Next, AllAnswered

\* Overlapping, straying and deleting are never undone.
LEMMA HistoryOnward ==
    ASSUME CompletionInv, [Next]_vars \/ CreateAuditLogs, NEW r \in Request
    PROVE  /\ peers'[r] = {} => peers[r] = {}
           /\ Steady(r)' => Steady(r)
           /\ strayed' = {} => strayed = {}
           /\ Deleting(r) => Deleting(r)'
           /\ input' = input
<1>1. Inv
  BY DEF CompletionInv
<1>2. strayed \subseteq strayed'
  <2>1. ASSUME NEW q \in Request, Statement(q) \/ StatementFails(q)
        PROVE  strayed \subseteq strayed'
    BY <1>1, <2>1, StatementMoves DEF Inv, Moves
  <2> QED
    BY <2>1 DEF Next, Begin, Crash, AllAnswered, vars, CreateAuditLogs,
       lifecycleButStore
<1>3. peers'[r] = {} => peers[r] = {}
  BY <1>1, Onward DEF CompletionInv, StartOK
<1> QED
  BY <1>1, <1>2, <1>3, Onward DEF Steady

\* How a request of a client gets past the check of its roles, or to its answer.
LEMMA Passes ==
    ASSUME TenancyInv, [TenancyNext]_tenancyVars, NEW d \in Client,
           cpc'[d] \in {"readPermissions", "pass", "handle", "listed"}
    PROVE  \/ ReadRoles(d) /\ cpc'[d] = "readPermissions" /\ UNCHANGED vars
           \/ ReadPermissions(d) /\ cpc'[d] = "pass" /\ UNCHANGED vars
           \/ EndCheck(d) /\ cpc[d] = "pass" /\ cpc'[d] = "handle" /\ UNCHANGED vars
           \/ ListUsers(d) /\ cpc'[d] = "listed" /\ UNCHANGED vars
           \/ /\ cpc'[d] = cpc[d] /\ asked'[d] = asked[d]
              /\ context'[d] = context[d] /\ listed'[d] = listed[d]
<1> USE DEF ClientTypeOK, ClientGoto
<1>1. Inv /\ ClientTypeOK /\ \A e \in Client : ClientOK(e)
  BY DEF TenancyInv, MigrationInv
<1>2. CASE ClientStep(d) \/ ClientExpiry(d) \/ ClientArrival(d)
  <2>0. UNCHANGED vars
    BY <1>1, <1>2, ClientMoves
  <2>1. CASE Ask(d) \/ Resolve(d)
    BY <1>1, <2>1 DEF Ask, Resolve
  <2>2. CASE SelectUser(d) \/ WriteLogin(d) \/ AuditLogin(d) \/ CommitLogin(d)
    BY <1>1, <2>2 DEF SelectUser, FirstStatement, WriteLogin, AuditLogin, CommitLogin
  <2>3. CASE ReadUser(d) \/ ClientTimeout(d)
    BY <1>1, <2>3 DEF ReadUser, FirstStatement, ClientTimeout
  <2>4. CASE ReadRoles(d) \/ ReadPermissions(d) \/ EndCheck(d)
    BY <1>1, <2>0, <2>4 DEF ReadRoles, ReadPermissions, EndCheck
  <2>5. CASE ListUsers(d)
    BY <1>1, <2>0, <2>5 DEF ListUsers, FirstStatement
  <2> QED
    BY <1>2, <2>1, <2>2, <2>3, <2>4, <2>5
       DEF ClientStep, ClientStatement, ClientExpiry, ClientArrival
<1>3. ASSUME NEW e \in Client \ {d}, ClientStep(e) \/ ClientExpiry(e) \/ ClientArrival(e)
      PROVE  /\ cpc'[d] = cpc[d] /\ asked'[d] = asked[d]
             /\ context'[d] = context[d] /\ listed'[d] = listed[d]
  BY <1>1, <1>3, ClientMoves
<1>4. CASE TenancyNext /\ \A e \in Client : ~(ClientStep(e) \/ ClientExpiry(e)
                                               \/ ClientArrival(e))
  <2>1. /\ UNCHANGED <<asked, context, listed>>
        /\ \/ cpc' = cpc
           \/ cpc' = [e \in Client |-> IF cpc[e] \in ClientInFlight THEN "lost" ELSE cpc[e]]
    BY <1>4, ClientRests
  <2> QED
    BY <2>1
<1>5. CASE UNCHANGED tenancyVars
  BY <1>5 DEF tenancyVars, clientVars
<1> QED
  BY <1>2, <1>3, <1>4, <1>5

\* No schema that a client's transaction holds is dropped.
LEMMA HeldSchema ==
    ASSUME TenancyInv, [TenancyNext]_tenancyVars, NEW d \in Client, cpc[d] \in Holding,
           NEW u \in store[context[d]].granted
    PROVE  u \in store'[context[d]].granted
<1> DEFINE s == context[d]
<1>1. Inv /\ TypeOK /\ s \in Schema /\ store[s] \in Content
  BY DEF TenancyInv, MigrationInv, Inv, TypeOK, ClientOK
<1>2. CASE store' = store
  BY <1>2
<1>3. CASE CreateAuditLogs
  <2>1. \/ store'[s] = store[s]
        \/ store'[s] = [store[s] EXCEPT !.tables = @ \cup {"audit_logs"}]
    BY <1>1, <1>3, AddsTable
  <2>2. [store[s] EXCEPT !.tables = @ \cup {"audit_logs"}].granted = store[s].granted
    BY <1>1, Rewritten
  <2> QED
    BY <2>1, <2>2
<1>4. ASSUME NEW r \in Request, LifecycleStatement(r) PROVE u \in store'[s].granted
  <2>1. Statement(r)
    BY <1>4 DEF LifecycleStatement
  <2>2. CASE UNCHANGED <<schemas, store>> \/ CreateSchema(r)
    BY <2>2 DEF CreateSchema
  <2>3. CASE CleanSchema(r) \/ DropSchema(r)
    <3>1. schemaName[r] # s
      BY <1>4, <2>3 DEF LifecycleStatement, Touched, CleanSchema, DropSchema, Drop
    <3> QED
      BY <1>1, <2>3, <3>1 DEF CleanSchema, DropSchema, Drop, TypeOK
  <2>4. ASSUME NEW c \in Conn, Writes(r, c) PROVE u \in store'[s].granted
    BY <1>1, <2>4, WritesGrow DEF Grows
  <2> QED
    BY <2>1, <2>2, <2>3, <2>4, Kinds
<1>5. ASSUME NEW r \in Request, Begin(r) \/ StatementFails(r) PROVE store' = store
  BY <1>5 DEF Begin, StatementFails, FailsWithoutEffect, ReplyLost
<1>6. ASSUME NEW e \in Client, ClientStep(e) \/ ClientExpiry(e) \/ ClientArrival(e)
      PROVE  store' = store
  BY <1>1, <1>6, ClientMoves DEF TenancyInv, vars
<1>7. CASE ScriptStep
  BY <1>2, <1>3, <1>7 DEF ScriptStep, Script, ReadTenants, SetScriptPath, ResetScriptPath,
     vars
<1>8. CASE Restart \/ Rest \/ UNCHANGED tenancyVars
  BY <1>2, <1>8 DEF Restart, Crash, Rest, tenancyVars, vars
<1>9. ASSUME NEW r \in Request, SendDrop(r) PROVE store' = store
  BY <1>9 DEF SendDrop, vars
<1> QED
  BY <1>2, <1>4, <1>5, <1>6, <1>7, <1>8, <1>9
     DEF TenancyNext, LifecycleStep, LifecycleEvent

LEMMA RoleStep ==
    ASSUME TenancyInv, [TenancyNext]_tenancyVars, NEW d \in Client, RoleOK(d)
    PROVE  RoleOK(d)'
<1> SUFFICES ASSUME cpc'[d] \in {"readPermissions", "pass"}
             PROVE  asked'[d].sub \in store'[context'[d]].granted
  BY DEF RoleOK
<1>1. CASE ReadRoles(d) /\ cpc'[d] = "readPermissions" /\ UNCHANGED vars
  BY <1>1 DEF ReadRoles, ClientGoto, TenancyInv, ClientTypeOK, vars
<1>2. CASE ReadPermissions(d) /\ cpc'[d] = "pass" /\ UNCHANGED vars
  BY <1>2 DEF ReadPermissions, RoleOK, vars
<1>3. CASE /\ cpc'[d] = cpc[d] /\ asked'[d] = asked[d]
           /\ context'[d] = context[d] /\ listed'[d] = listed[d]
  BY <1>3, HeldSchema DEF RoleOK, Holding
<1> QED
  BY <1>1, <1>2, <1>3, Passes

\* Whoever is found to hold the role is in its own, complete tenant.
LEMMA RoleFound ==
    ASSUME TenancyInv, CompletionInv, NEW d \in Client,
           asked[d].sub \in store[context[d]].granted,
           cpc[d] \in {"readRoles", "readPermissions", "pass"},
           peers[asked[d].sub] = {}, Steady(asked[d].sub)
    PROVE  /\ Complete(asked[d].sub) /\ pc[asked[d].sub] \in Late
           /\ context[d] = SchemaOf[input[asked[d].sub].slug]
<1>1. asked[d].sub \in Request /\ context[d] \in Schema
  BY DEF TenancyInv, ClientOK, Listing, Holding, ClientInput
<1> QED
  BY <1>1 DEF CompletionInv, GrantedOK, Late

LEMMA RightsStep == ServiceInv /\ [TenancyNext]_tenancyVars => EntersComplete
<1> SUFFICES ASSUME ServiceInv, NEW d \in Client, cpc[d] = "readPermissions",
                    peers[asked[d].sub] = {}, Steady(asked[d].sub)
             PROVE  /\ context[d] = SchemaOf[input[asked[d].sub].slug]
                    /\ Complete(asked[d].sub)
  BY DEF EntersComplete
<1> QED
  BY RoleFound DEF ServiceInv, RoleOK

LEMMA HandledStep ==
    ASSUME ServiceInv, [TenancyNext]_tenancyVars, NEW d \in Client
    PROVE  HandledOK(d)'
<1> DEFINE Shown == {"readPermissions", "pass", "handle", "listed"}
<1>1. TenancyInv /\ CompletionInv /\ ([Next]_vars \/ CreateAuditLogs)
  BY LifecyclePart DEF ServiceInv
<1> SUFFICES ASSUME cpc'[d] \in Shown, peers'[asked'[d].sub] = {},
                    asked'[d].sub \notin strayed'
             PROVE  /\ context'[d] = SchemaOf[input'[asked'[d].sub].slug]
                    /\ pc'[asked'[d].sub] \in Late
  BY DEF HandledOK, Steady, Late
<1>2. CASE ReadRoles(d) /\ cpc'[d] = "readPermissions" /\ UNCHANGED vars
  <2>1. /\ cpc[d] = "readRoles" /\ UNCHANGED <<asked, context, pc, input, peers, strayed>>
        /\ asked[d].sub \in store[context[d]].granted
    BY <1>1, <1>2 DEF ReadRoles, ClientGoto, TenancyInv, ClientTypeOK, vars
  <2> QED
    BY <1>1, <2>1, RoleFound DEF Steady
<1>3. CASE ~(ReadRoles(d) /\ cpc'[d] = "readPermissions" /\ UNCHANGED vars)
  <2>1. /\ cpc[d] \in Shown
        /\ asked'[d] = asked[d] /\ context'[d] = context[d]
    BY <1>1, <1>3, Passes DEF ReadPermissions, EndCheck, ListUsers, FirstStatement
  <2>2. asked[d].sub \in Request
    BY <1>1, <2>1 DEF TenancyInv, ClientOK, Listing, ClientInput
  <2>3. peers[asked[d].sub] = {} /\ Steady(asked[d].sub) /\ input' = input
    <3>1. \A r \in Request : /\ peers'[r] = {} => peers[r] = {}
                             /\ Steady(r)' => Steady(r)
                             /\ input' = input
      BY <1>1, HistoryOnward
    <3> QED
      BY <2>1, <2>2, <3>1 DEF Steady
  <2>4. context[d] = SchemaOf[input[asked[d].sub].slug] /\ pc[asked[d].sub] \in Late
    BY <2>1, <2>3 DEF ServiceInv, HandledOK, Late
  <2>5. pc'[asked[d].sub] \in Late
    BY <1>1, <2>2, <2>4, LateOnward
  <2> QED
    BY <2>1, <2>3, <2>4, <2>5
<1> QED
  BY <1>2, <1>3

\* An administrator whose creation has come to its last statement, or is
\* answered, is the only user of its tenant.
LEMMA OnlyUser ==
    ASSUME CompletionInv, NEW r \in Request, pc[r] \in {"adminReset", "created"},
           peers[r] = {}, strayed = {}, ~Deleting(r)
    PROVE  store[SchemaOf[input[r].slug]].admins = {r}
<1>1. Steady(r) /\ IsCreate(r)
  BY DEF Steady, CompletionInv, Inv, ControlOK, Creating, Trying, CreateInput, IsCreate
<1>2. CASE pc[r] = "adminReset"
  BY <1>1, <1>2 DEF CompletionInv, FilledOK
<1>3. CASE pc[r] = "created"
  <2>1. SchemaOf[input[r].slug] \in Schema
    BY <1>1, OwnSchema DEF CompletionInv
  <2> QED
    BY <1>1, <1>3, <2>1 DEF CompletionInv, HeldOK, GrantedOK, Unmixed
<1> QED
  BY <1>2, <1>3

LEMMA ListedStep ==
    ASSUME ServiceInv, [TenancyNext]_tenancyVars, NEW d \in Client
    PROVE  ListedOK(d)'
<1> DEFINE Erased(q) == \E e \in Request : /\ input'[e].op = "hardDelete"
                                         /\ input'[e].id = q
                                         /\ pc'[e] \notin {"idle", "find", "notFound"}
<1>1. TenancyInv /\ CompletionInv /\ ([Next]_vars \/ CreateAuditLogs)
  BY LifecyclePart DEF ServiceInv
<1> SUFFICES ASSUME cpc'[d] = "listed",
                    pc'[asked'[d].sub] \in {"adminReset", "created"},
                    ~Erased(asked'[d].sub), peers'[asked'[d].sub] = {}, strayed' = {}
             PROVE  listed'[d] = {asked'[d].sub}
  BY DEF ListedOK, Deleting
<1>2. CASE ListUsers(d) /\ UNCHANGED vars
  <2> DEFINE r == asked[d].sub
  <2>1. /\ cpc[d] = "handle" /\ context[d] \in schemas /\ listed'[d] = Users(d)
        /\ asked' = asked
    BY <1>1, <1>2
       DEF ListUsers, FirstStatement, ClientGoto, Present, TenancyInv, ClientTypeOK
  <2>2. /\ r \in Request /\ pc[r] \in {"adminReset", "created"} /\ peers[r] = {}
        /\ strayed = {} /\ ~Deleting(r)
    BY <1>1, <1>2, <2>1
       DEF vars, Deleting, TenancyInv, ClientOK, Listing, ClientInput
  <2>3. context[d] = SchemaOf[input[r].slug]
    BY <2>1, <2>2 DEF ServiceInv, HandledOK, Steady
  <2> QED
    BY <1>1, <2>1, <2>2, <2>3, OnlyUser DEF Users
<1>3. CASE ~(ListUsers(d) /\ UNCHANGED vars)
  <2>1. cpc[d] = "listed" /\ asked'[d] = asked[d] /\ listed'[d] = listed[d]
    BY <1>1, <1>3, Passes
  <2> DEFINE r == asked[d].sub
  <2>2. r \in Request
    BY <1>1, <2>1 DEF TenancyInv, ClientOK, Listing, ClientInput
  <2>3. peers[r] = {} /\ strayed = {} /\ ~Deleting(r)
    <3>1. \A q \in Request : /\ peers'[q] = {} => peers[q] = {}
                             /\ strayed' = {} => strayed = {}
                             /\ Deleting(q) => Erased(q)
      BY <1>1, HistoryOnward DEF Deleting
    <3> QED
      BY <2>1, <2>2, <3>1
  <2>4. pc[r] \in Late
    BY <2>1, <2>3 DEF ServiceInv, HandledOK, Steady, Late
  <2>5. pc[r] \in {"adminReset", "created"}
    BY <1>1, <2>1, <2>2, <2>4, LateOnward
  <2> QED
    BY <2>1, <2>3, <2>5 DEF ServiceInv, ListedOK
<1> QED
  BY <1>2, <1>3

LEMMA ServiceStep == ServiceInv /\ [TenancyNext]_tenancyVars => ServiceInv'
<1> SUFFICES ASSUME ServiceInv, [TenancyNext]_tenancyVars PROVE ServiceInv'
  OBVIOUS
<1>1. TenancyInv' /\ CompletionInv'
  BY TenancyStep, LifecycleCompletion DEF ServiceInv
<1>2. \A d \in Client : HandledOK(d)' /\ RoleOK(d)' /\ ListedOK(d)'
  BY HandledStep, RoleStep, ListedStep DEF ServiceInv
<1> QED
  BY <1>1, <1>2 DEF ServiceInv

LEMMA ServiceStart == TenancyInit => ServiceInv
<1> SUFFICES ASSUME TenancyInit PROVE ServiceInv
  OBVIOUS
<1>1. TenancyInv /\ CompletionInv
  BY TenancyStart, CompletionInit DEF TenancyInit
<1>2. \A d \in Client : cpc[d] = "idle"
  BY DEF TenancyInit, ClientInit
<1> QED
  BY <1>1, <1>2 DEF ServiceInv, HandledOK, RoleOK, ListedOK

----------------------------------------------------------------------------
(* Theorems *)

LEMMA TenancyInvariance == TenancySpec => []TenancyInv
<1>1. TenancyInv /\ [TenancyNext]_tenancyVars => TenancyInv'
  BY TenancyStep
<1> QED
  BY <1>1, TenancyStart, PTL DEF TenancySpec

\* Every reachable state of the lifecycle, the script and the clients together
\* is well typed: in particular only a request at its DROP SCHEMA waits for
\* locks, whatever failed or timed out meanwhile.
THEOREM TenancyTypes == TenancySpec => []TenancyTypeOK
<1>1. TenancyInv => TenancyTypeOK
  BY DEF TenancyInv, MigrationInv, Inv, TenancyTypeOK
<1> QED
  BY <1>1, TenancyInvariance, PTL

\* However requests overlap and on a pool of any size: what the script reports
\* as migrated has its audit_logs while its row stands, unless a hard delete got
\* past its lookup or the creation was overlapped on its schema.
\* (migrate-tenants.ts main 6-47 beside create and hardDelete)
THEOREM MigrationReported == TenancySpec => []MigratedHasAuditLog
<1>1. TenancyInv => MigratedHasAuditLog
  BY DEF TenancyInv, MigrationInv
<1> QED
  BY <1>1, TenancyInvariance, PTL

\* Neither the script nor the waits for locks disturb the agreement of registry
\* and catalog, or the tenants that were created.
THEOREM TenancyKeeps == TenancySpec => [](RegistryAgreement /\ CreatedSurvives)
<1>1. TenancyInv => RegistryAgreement /\ CreatedSurvives
  BY InvMeans DEF TenancyInv, MigrationInv
<1> QED
  BY <1>1, TenancyInvariance, PTL

\* On a pool of any size, whatever the lifecycle, the script and the clients do,
\* and from the moment an admin can log in: a request that was found to hold the
\* role is in the schema of the tenant that issued its token, unless that
\* tenant's creation was overlapped or strayed.
\* (middleware 14-38, JwtStrategy.validate 28-74)
THEOREM ServiceInvariance == TenancySpec => []ServiceInv
<1>1. TenancyInit => ServiceInv
  BY ServiceStart
<1>2. ServiceInv /\ [TenancyNext]_tenancyVars => ServiceInv'
  BY ServiceStep
<1> QED
  BY <1>1, <1>2, PTL DEF TenancySpec

\* A listing of a created tenant shows the administrator who asked and nobody
\* else, whatever clients, restarts, timeouts, the script and later requests to
\* the lifecycle do, unless the tenant is being hard deleted, its creation was
\* overlapped, or some creation strayed.
\* (runWithTenant 9-11, run 41-51, findAll 10-48)
THEOREM ServedByOwn == TenancySpec => []ServedByOwnTenant
<1>1. ServiceInv => ServedByOwnTenant
  <2> SUFFICES ASSUME ServiceInv, NEW d \in Client, cpc[d] = "listed",
                      pc[asked[d].sub] = "created", ~Deleting(asked[d].sub),
                      peers[asked[d].sub] = {}, strayed = {}
               PROVE  listed[d] = {asked[d].sub}
    BY DEF ServedByOwnTenant
  <2> QED
    BY DEF ServiceInv, ListedOK
<1> QED
  BY <1>1, ServiceInvariance, PTL

\* Nobody is let through as SUPER_ADMIN before the tenant has every table, its
\* role and its administrator, although tokens are signed as soon as the
\* administrator is inserted; unless another request overlapped the creation of
\* the tenant or the pool scattered its statements.
\* (middleware 14-38, create 36-75, login 82-127, JwtStrategy.validate 28-74)
THEOREM RightsComplete == TenancySpec => RightsMeanComplete
<1>1. TenancySpec => []ServiceInv
  BY ServiceInvariance
<1> QED
  BY <1>1, RightsStep, PTL DEF TenancySpec, RightsMeanComplete
=============================================================================
