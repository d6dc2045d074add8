------------------------ MODULE TenantRegistryProofs ------------------------
(***************************************************************************)
(* As long as no two requests have overlapped and no creation has strayed  *)
(* to another connection, the service implements the registry of tenants.  *)
(* Afterwards this is false, as CreatedHasTenant and                       *)
(* CreatedAloneIsComplete show.                                            *)
(***************************************************************************)
EXTENDS TenantCompletionProofs, FiniteSetTheorems

USE DEF db, history

----------------------------------------------------------------------------
(* The inductive invariant *)

\* SerialInv in a state in which no two requests have overlapped or strayed.
SerialNow ==
    /\ CompletionInv
    /\ \A r, q \in Serving : r = q
    /\ \A r \in Request : peers[r] = {} /\ Steady(r) /\ AloneOK(r)

LEMMA Serial == SerialInv /\ Quiet => SerialNow
BY DEF SerialInv, Quiet, SerialNow

LEMMA OneInFlight ==
    ASSUME SerialNow, NEW r \in Request, pc[r] \in InFlight,
           NEW q \in Request, pc[q] \in InFlight
    PROVE  q = r
BY DEF SerialNow, Serving

LEMMA Labels ==
    /\ Creating \cup Managing = InFlight
    /\ Trying \cup Cleaning \subseteq Creating
    /\ InFlight \cap (Answered \cup {"idle", "lost"}) = {}
    /\ Creating \cap Managing = {}
BY DEF Creating, InFlight, Checking, Trying, Cleaning, Managing, Answered

\* A creation addresses the schema of its slug.
LEMMA CreationSchema ==
    ASSUME Inv, NEW r \in Request, pc[r] \in Creating
    PROVE  /\ IsCreate(r) /\ input[r] \in CreateInput /\ input[r].slug \in Slug
           /\ SchemaOf[input[r].slug] \in Schema
           /\ pc[r] # "checkSlug" => schemaName[r] = SchemaOf[input[r].slug]
<1>1. input[r] \in CreateInput /\ IsCreate(r)
  BY InputKinds DEF Inv, ControlOK, TypeOK, IsCreate
<1>2. input[r].slug \in Slug
  BY <1>1, InputKinds DEF Inv, TypeOK
<1> QED
  BY <1>1, <1>2, OwnSchema DEF Creating, Checking

\* The rows of a schema are those of its slug, and of one tenant.
LEMMA OneRow ==
    ASSUME Inv
    PROVE  /\ \A g \in Slug : \A t \in tenants :
                  t.schema = SchemaOf[g] <=> t.slug = g
           /\ \A s, i, j : RegisteredAs(s, i) /\ RegisteredAs(s, j) => i = j
           /\ \A s, i : RegisteredAs(s, i) => i \in Request
<1>1. \A t \in tenants : t.slug \in Slug /\ t.id \in Request /\ t.schema = SchemaOf[t.slug]
  BY DEF Inv, TypeOK, RowsOK, Row
<1> QED
  BY <1>1, SchemaAssumption DEF Inv, RowsOK, RegisteredAs

LEMMA RawMoves ==
    ASSUME Inv, NEW r \in Request, NEW c \in Conn, Raw(r, c)
    PROVE  /\ pc[r] \in Trying \ {"insertTenant", "createSchema"}
           /\ pc'[r] \in (Trying \ {"insertTenant"}) \cup {"cleanRecord", "created"}
           /\ pc'[r] = "created" => pc[r] = "adminReset" /\ AdminReset(r, c)
           /\ tenants' = tenants /\ schemas' = schemas
<1>1. CASE MigratePath(r, c) \/ AdminPath(r, c)
  BY <1>1 DEF MigratePath, AdminPath, SetPath, Goto, Inv, TypeOK, Trying
<1>2. CASE MigrateReset(r, c) \/ AdminReset(r, c)
  BY <1>2 DEF MigrateReset, AdminReset, ResetPath, Goto, Inv, TypeOK, Trying
<1>3. CASE Migrate(r, c)
  BY <1>3 DEF Migrate, NextTable, Goto, Inv, TypeOK, Trying
<1>4. CASE InsertRole(r, c) \/ InsertUser(r, c)
  BY <1>4 DEF InsertRole, InsertUser, Goto, Inv, TypeOK, Trying
<1>5. CASE AssignRole(r, c)
  BY <1>5 DEF AssignRole, Goto, Inv, TypeOK, Trying
<1> QED
  BY <1>1, <1>2, <1>3, <1>4, <1>5 DEF Raw

LEMMA AloneStatement ==
    ASSUME SerialNow, NEW r \in Request, Statement(r) \/ StatementFails(r)
    PROVE  AloneOK(r)'
<1> DEFINE s == SchemaOf[input[r].slug]
<1>1. Inv /\ AloneOK(r) /\ Moves(r)
  BY StatementMoves DEF SerialNow, CompletionInv, Inv
<1>2. input' = input
  BY <1>1 DEF Moves
<1>3. ASSUME pc'[r] \in Answered PROVE AloneOK(r)'
  BY <1>2, <1>3 DEF AloneOK, Answered, Trying, Managing
<1>4. ASSUME tenants' = tenants, pc[r] \in Trying, pc'[r] = "cleanRecord"
      PROVE  AloneOK(r)'
  BY <1>1, <1>2, <1>4, OneRow
     DEF AloneOK, Registered, RegisteredAs, Trying, Managing
<1>5. CASE CheckSlug(r)
  <2>1. \/ pc'[r] = "conflict"
        \/ pc'[r] = "checkSchema" /\ \A t \in tenants : t.slug # input[r].slug
    BY <1>1, <1>5 DEF CheckSlug, Goto, Inv, TypeOK
  <2>2. input[r].slug \in Slug /\ tenants' = tenants
    BY <1>1, <1>5, CreationSchema DEF CheckSlug, Creating, Checking
  <2> QED
    BY <1>1, <1>2, <1>3, <2>1, <2>2, OneRow
       DEF AloneOK, Registered, Answered, Trying, Managing
<1>6. CASE CheckSchema(r)
  <2>1. /\ pc[r] = "checkSchema" /\ pc'[r] \in {"conflict", "insertTenant"}
        /\ tenants' = tenants
    BY <1>1, <1>6 DEF CheckSchema, Goto, Inv, TypeOK
  <2> QED
    BY <1>1, <1>2, <1>3, <2>1 DEF AloneOK, Registered, Answered, Trying, Managing
<1>7. CASE InsertTenant(r)
  <2>1. schemaName[r] = s
    BY <1>1, <1>7, CreationSchema DEF InsertTenant, Creating, Trying
  <2>2. \/ pc'[r] = "cleanRecord" /\ tenants' = tenants /\ pc[r] \in Trying
        \/ pc'[r] = "createSchema" /\ RegisteredAs(s, r)'
    BY <1>1, <1>2, <1>7, <2>1
       DEF InsertTenant, Goto, Inv, TypeOK, RegisteredAs, Trying
  <2> QED
    BY <1>2, <1>4, <2>2 DEF AloneOK, Trying, Managing
<1>8. CASE CreateSchema(r)
  <2>1. pc[r] = "createSchema" /\ pc'[r] = "migratePath" /\ tenants' = tenants
    BY <1>1, <1>8 DEF CreateSchema, Goto, Inv, TypeOK
  <2> QED
    BY <1>1, <1>2, <2>1 DEF AloneOK, RegisteredAs, Trying, Managing
<1>9. ASSUME NEW c \in Conn, Raw(r, c) PROVE AloneOK(r)'
  <2>1. /\ pc[r] \in Trying \ {"insertTenant", "createSchema"}
        /\ pc'[r] \in (Trying \ {"insertTenant"}) \cup {"cleanRecord", "created"}
        /\ tenants' = tenants
    BY <1>1, <1>9, RawMoves
  <2>2. CASE pc'[r] \in Trying \ {"insertTenant"}
    BY <1>1, <1>2, <2>1, <2>2 DEF AloneOK, RegisteredAs, Trying, Managing
  <2> QED
    BY <1>3, <1>4, <2>1, <2>2 DEF Answered
<1>10. CASE CleanRecord(r)
  <2>1. /\ pc[r] = "cleanRecord" /\ pc'[r] = "cleanSchema"
        /\ tenants' = {t \in tenants : t.slug # input[r].slug}
    BY <1>1, <1>10 DEF CleanRecord, Goto, Inv, TypeOK
  <2>2. input[r].slug \in Slug
    BY <1>1, <2>1, CreationSchema DEF Creating, Cleaning
  <2> QED
    BY <1>1, <1>2, <2>1, <2>2, OneRow DEF AloneOK, Registered, Trying, Managing
<1>11. CASE CleanSchema(r) \/ UpdateRow(r) \/ Deactivate(r) \/ DeleteRow(r)
  BY <1>1, <1>3, <1>11 DEF CleanSchema, Drop, UpdateRow, Deactivate, DeleteRow, Goto,
     Inv, TypeOK, Answered
<1>12. CASE Find(r)
  <2>1. CASE pc'[r] = "notFound"
    BY <1>3, <2>1 DEF Answered
  <2>2. CASE pc'[r] # "notFound"
    <3>1. PICK t \in tenants : /\ t.id = input[r].id
                               /\ schemaName' = [schemaName EXCEPT ![r] = t.schema]
                               /\ Goto(r, After(input[r].op))
      BY <1>1, <1>12, <2>2 DEF Find, Goto, Inv, TypeOK
    <3>2. input[r].op \in {"update", "remove", "hardDelete"}
      BY <1>1, <1>12, InputKinds DEF Find, Inv, ControlOK, TypeOK, Managing
    <3>3. /\ pc'[r] \in {"updateRow", "deactivate", "dropSchema"}
          /\ pc'[r] = "deactivate" => input[r].op = "remove"
      BY <1>1, <3>1, <3>2 DEF Goto, After, Inv, TypeOK
    <3>4. RegisteredAs(schemaName'[r], input[r].id)
      BY <1>1, <3>1 DEF RegisteredAs, Inv, TypeOK
    <3>5. tenants' = tenants
      BY <1>12 DEF Find
    <3> QED
      BY <1>2, <3>3, <3>4, <3>5 DEF AloneOK, RegisteredAs, Trying, Managing
  <2> QED
    BY <2>1, <2>2
<1>13. CASE DropSchema(r)
  <2>1. /\ pc[r] = "dropSchema" /\ pc'[r] = "deleteRow" /\ tenants' = tenants
        /\ schemaName'[r] \notin schemas' /\ schemaName'[r] = schemaName[r]
    BY <1>1, <1>13 DEF DropSchema, Drop, Goto, Inv, TypeOK
  <2> QED
    BY <1>1, <1>2, <2>1 DEF AloneOK, RegisteredAs, Trying, Managing
<1>14. CASE StatementFails(r)
  <2>1. CASE ReplyLost(r)
    <3>1. pc'[r] = "error"
      BY <1>1, <2>1 DEF ReplyLost, Goto, Inv, TypeOK
    <3> QED
      BY <1>3, <3>1 DEF Answered
  <2>2. CASE FailsWithoutEffect(r)
    <3>1. tenants' = tenants
      BY <2>2 DEF FailsWithoutEffect
    <3>2. CASE pc[r] \in Trying
      <4>1. pc'[r] = "cleanRecord"
        BY <1>1, <2>2, <3>2 DEF FailsWithoutEffect, Goto, Inv, TypeOK, Trying,
           Cleaning, Checking, Managing
      <4> QED
        BY <1>4, <3>1, <3>2, <4>1
    <3>3. CASE pc[r] \notin Trying
      <4>1. pc'[r] \in Answered
        BY <1>1, <2>2, <3>3 DEF FailsWithoutEffect, Goto, Inv, TypeOK, Answered
      <4> QED
        BY <1>3, <4>1
    <3> QED
      BY <3>2, <3>3
  <2> QED
    BY <1>14, <2>1, <2>2 DEF StatementFails
<1> QED
  BY <1>5, <1>6, <1>7, <1>8, <1>9, <1>10, <1>11, <1>12, <1>13, <1>14 DEF Statement

LEMMA SerialInit == Init => SerialInv
<1> SUFFICES ASSUME Init PROVE SerialInv
  OBVIOUS
<1>1. CompletionInv /\ Serving = {}
  BY CompletionInit DEF Init, Serving, InFlight, Checking, Trying, Cleaning, Managing
<1>2. \A r \in Request : AloneOK(r)
  BY DEF Init, AloneOK, Trying, Managing
<1> QED
  BY <1>1, <1>2 DEF SerialInv

\* A request that overlaps another or strays does so for good.
LEMMA QuietBefore ==
    ASSUME CompletionInv, [Next]_vars, Quiet'
    PROVE  Quiet
<1>1. CASE \E q \in Request : Begin(q)
  <2>1. PICK q \in Request : Begin(q)
    BY <1>1
  <2>2. /\ pc[q] = "idle" /\ strayed' = strayed
        /\ \A r \in Request \ {q} : peers[r] \subseteq peers'[r]
    BY <2>1 DEF Begin, CompletionInv, Inv, TypeOK
  <2>3. \A r \in Request \ {q} : peers[r] = {}
    BY <2>2 DEF Quiet
  <2> QED
    BY <2>2, <2>3 DEF Quiet, Steady, CompletionInv, StartOK
<1>2. CASE \E q \in Request : Statement(q) \/ StatementFails(q)
  BY <1>2, StatementMoves DEF CompletionInv, Inv, Moves, Quiet, Steady
<1>3. CASE Crash \/ UNCHANGED vars
  BY <1>3 DEF Crash, vars, Quiet, Steady
<1> QED
  BY <1>1, <1>2, <1>3 DEF Next, AllAnswered

LEMMA SerialStep ==
    ASSUME SerialInv, [Next]_vars
    PROVE  SerialInv'
<1>1. CompletionInv' /\ CompletionInv /\ Inv
  BY CompletionStep DEF SerialInv, CompletionInv
<1> SUFFICES ASSUME Quiet'
             PROVE  /\ \A q, p \in Serving' : q = p
                    /\ \A q \in Request : AloneOK(q)'
  BY <1>1 DEF SerialInv
<1>S. SerialNow
  BY <1>1, QuietBefore, Serial
<1>2. ASSUME NEW r \in Request, Begin(r)
      PROVE  /\ \A q, p \in Serving' : q = p
             /\ \A q \in Request : AloneOK(q)'
  <2>1. Serving = {}
    BY <1>1, <1>2 DEF Begin, Inv, TypeOK, Quiet
  <2>2. /\ \A q \in Request \ {r} : pc'[q] = pc[q]
        /\ pc'[r] \in {"checkSlug", "find"}
        /\ tenants' = tenants /\ schemas' = schemas /\ input' = input
        /\ schemaName' = schemaName
    BY <1>1, <1>2 DEF Begin, Goto, Inv, TypeOK
  <2>3. \A q, p \in Serving' : q = p
    BY <2>1, <2>2 DEF Serving
  <2>4. ASSUME NEW q \in Request PROVE AloneOK(q)'
    <3>1. AloneOK(q)
      BY <1>S DEF SerialNow
    <3>2. CASE q = r
      BY <2>2, <3>2 DEF AloneOK, Trying, Managing
    <3>3. CASE q # r
      BY <2>2, <3>1, <3>3 DEF AloneOK, Registered, RegisteredAs
    <3> QED
      BY <3>2, <3>3
  <2> QED
    BY <2>3, <2>4
<1>3. ASSUME NEW r \in Request, Statement(r) \/ StatementFails(r)
      PROVE  /\ \A q, p \in Serving' : q = p
             /\ \A q \in Request : AloneOK(q)'
  <2>1. Moves(r)
    BY <1>1, <1>3, StatementMoves DEF Inv
  <2>2. \A q \in Request \ {r} : pc[q] \notin InFlight
    BY <1>S, <2>1, OneInFlight DEF Moves
  <2>3. \A q, p \in Serving' : q = p
    BY <2>1, <2>2 DEF Moves, Serving
  <2>4. ASSUME NEW q \in Request \ {r} PROVE AloneOK(q)'
    <3>1. pc'[q] = pc[q] /\ pc[q] \notin InFlight
      BY <2>1, <2>2 DEF Moves
    <3> QED
      BY <3>1 DEF AloneOK, InFlight, Checking, Trying, Cleaning, Managing
  <2>5. AloneOK(r)'
    BY <1>S, <1>3, AloneStatement
  <2> QED
    BY <2>3, <2>4, <2>5
<1>4. CASE Crash
  <2>1. \A q \in Request : pc'[q] \notin InFlight
    BY <1>4 DEF Crash, Serving, InFlight, Checking, Trying, Cleaning, Managing
  <2>2. \A q \in Request : AloneOK(q)'
    BY <2>1 DEF AloneOK, InFlight, Checking, Trying, Cleaning, Managing
  <2> QED
    BY <2>1, <2>2 DEF Serving
<1>5. CASE UNCHANGED vars
  <2>1. \A q \in Request : AloneOK(q)' <=> AloneOK(q)
    BY <1>5 DEF vars, AloneOK, Registered, RegisteredAs
  <2> QED
    BY <1>S, <1>5, <2>1 DEF SerialNow, Serving, vars
<1> QED
  BY <1>2, <1>3, <1>4, <1>5 DEF Next, AllAnswered

----------------------------------------------------------------------------
(* What the mapping makes of each slug *)

LEMMA Outcomes ==
    /\ Outcome("idle") = "none"
    /\ \A l \in InFlight : Outcome(l) = "pending"
    /\ \A l \in {"created", "updated", "deactivated", "deleted"} : Outcome(l) = "ok"
    /\ \A l \in {"conflict", "notFound"} : Outcome(l) = l
    /\ \A l \in {"failed", "cleanupFailed", "halfDeleted", "error", "lost"} :
          Outcome(l) = "failed"
BY DEF Outcome, InFlight, Checking, Trying, Cleaning, Managing

LEMMA AnswerMoves ==
    ASSUME NEW r \in Request, Moves(r)
    PROVE  /\ Answer[r] = "pending" /\ input' = input
           /\ Answer' = [Answer EXCEPT ![r] = Outcome(pc'[r])]
           /\ pc'[r] \in InFlight => Answer' = Answer
<1>1. /\ Answer[r] = "pending" /\ input' = input
      /\ Answer' = [Answer EXCEPT ![r] = Outcome(pc'[r])]
  BY Outcomes DEF Moves, Answer
<1>2. ASSUME pc'[r] \in InFlight PROVE Answer' = Answer
  <2>1. Outcome(pc'[r]) = Answer[r]
    BY <1>1, <1>2, Outcomes
  <2> QED
    BY <1>1, <2>1 DEF Answer
<1> QED
  BY <1>1, <1>2

\* The phase and the owner of a slug, by its schema, its row and its creation.
Mapped(g) ==
    LET s == SchemaOf[g]
    IN /\ InCreation(g) => PhaseOf(g) = "free" /\ OwnerOf(g) = None
       /\ ~InCreation(g) /\ ~Registered(s) =>
             /\ OwnerOf(g) = None
             /\ PhaseOf(g) = IF s \in schemas THEN "stuck" ELSE "free"
       /\ \A i \in Request : ~InCreation(g) /\ RegisteredAs(s, i) =>
             /\ OwnerOf(g) = i
             /\ PhaseOf(g) = IF Complete(i) THEN "served" ELSE "stuck"

LEMMA Mapping == Inv => \A g \in Slug : Mapped(g)
<1> SUFFICES ASSUME Inv, NEW g \in Slug PROVE Mapped(g)
  OBVIOUS
<1> DEFINE s == SchemaOf[g]
<1>1. RowOf(g) = {t \in tenants : t.schema = s}
  BY OneRow DEF RowOf
<1>2. CASE InCreation(g)
  BY <1>2 DEF Mapped, PhaseOf, OwnerOf
<1>3. CASE ~InCreation(g) /\ ~Registered(s)
  <2>1. RowOf(g) = {}
    BY <1>1, <1>3 DEF Registered
  <2> QED
    BY <1>3, <2>1 DEF Mapped, PhaseOf, OwnerOf, Registered, RegisteredAs
<1>4. ASSUME ~InCreation(g), NEW i \in Request, RegisteredAs(s, i)
      PROVE  /\ OwnerOf(g) = i
             /\ PhaseOf(g) = IF Complete(i) THEN "served" ELSE "stuck"
  <2>1. RowOf(g) # {} /\ \A t \in RowOf(g) : t.id = i
    BY <1>1, <1>4, OneRow DEF RegisteredAs
  <2>2. OwnerOf(g) = i
    BY <1>4, <2>1 DEF OwnerOf
  <2>3. (\E t \in RowOf(g) : Complete(t.id)) <=> Complete(i)
    BY <2>1
  <2> QED
    BY <1>4, <2>1, <2>2, <2>3 DEF PhaseOf
<1> QED
  BY <1>2, <1>3, <1>4 DEF Mapped, Registered, RegisteredAs

LEMMA MappingNext == Inv' => \A g \in Slug : Mapped(g)'
<1>1. (Inv => \A g \in Slug : Mapped(g))'
  BY Mapping, PTL
<1> QED
  BY <1>1

\* A request writes to the schema it addresses and to no other.
LEMMA StoreElsewhere ==
    ASSUME SerialNow, SerialNow',
           NEW r \in Request, Statement(r) \/ StatementFails(r),
           NEW s \in Schema, s # schemaName'[r]
    PROVE  store'[s] = store[s]
<1>1. Inv /\ Moves(r) /\ FilledOK(r) /\ peers[r] = {} /\ Steady(r) /\ Steady(r)'
  BY StatementMoves DEF SerialNow, CompletionInv, Inv
<1>2. CASE CreateSchema(r)
  BY <1>2 DEF CreateSchema
<1>3. CASE CleanSchema(r) \/ DropSchema(r)
  BY <1>1, <1>3 DEF CleanSchema, DropSchema, Drop, Inv, TypeOK
<1>4. ASSUME NEW c \in Conn, Writes(r, c) PROVE store'[s] = store[s]
  <2>1. /\ pc[r] \in {"migrate", "insertRole", "insertUser", "assignRole"}
        /\ schemaName' = schemaName
    BY <1>4 DEF Writes, Migrate, InsertRole, InsertUser, AssignRole
  <2>2. schemaName[r] = SchemaOf[input[r].slug] /\ IsCreate(r)
    BY <1>1, <2>1, CreationSchema DEF Creating, Trying
  <2>3. searchPath[c] = schemaName[r]
    <3>1. c = home[r]
      BY <1>1, <1>4, WritesThere, SteadyHome
    <3> QED
      BY <1>1, <2>1, <2>2, <3>1 DEF FilledOK
  <2> QED
    BY <1>1, <1>4, <2>1, <2>3, WritesThere
<1> QED
  BY <1>2, <1>3, <1>4, Kinds

\* A row is that of the creation of its slug.
LEMMA RowSubject ==
    ASSUME Inv, NEW g \in Slug, NEW i, RegisteredAs(SchemaOf[g], i)
    PROVE  i \in Request /\ input[i].slug = g
BY OneRow DEF RegisteredAs, Inv, RowsOK

\* A statement leaves slugs alone whose schema its request does not address.
LEMMA SlugElsewhere ==
    ASSUME SerialNow, SerialNow',
           NEW r \in Request, Statement(r) \/ StatementFails(r),
           NEW g \in Slug, SchemaOf[g] # schemaName'[r]
    PROVE  PhaseOf(g)' = PhaseOf(g) /\ OwnerOf(g)' = OwnerOf(g)
<1> DEFINE s == SchemaOf[g]
<1>1. Inv /\ Inv' /\ Moves(r) /\ s \in Schema
  BY StatementMoves, SchemaAssumption DEF SerialNow, CompletionInv, Inv
<1>2. Mapped(g) /\ Mapped(g)'
  BY <1>1, Mapping, MappingNext
<1>3. /\ Registered(s)' <=> Registered(s)
      /\ \A i \in Request : RegisteredAs(s, i)' <=> RegisteredAs(s, i)
      /\ s \in schemas' <=> s \in schemas
  BY <1>1, Elsewhere DEF Inv
<1>4. InCreation(g)' <=> InCreation(g)
  <2>1. ~(pc[r] \in Trying \cup Cleaning /\ input[r].slug = g)
    BY <1>1, CreationSchema DEF Moves, Creating, Trying, Cleaning
  <2>2. ~(pc'[r] \in Trying \cup Cleaning /\ input[r].slug = g)
    <3> SUFFICES ASSUME pc'[r] \in Trying \cup Cleaning, input[r].slug = g
                 PROVE  FALSE
      OBVIOUS
    <3>1. pc[r] \in Creating /\ pc[r] # "find"
      BY <1>1 DEF Moves, Creating, Checking, Trying, Cleaning
    <3>2. schemaName'[r] \in Schema /\ schemaName'[r] # None
      BY <1>1, SchemaAssumption DEF Moves, InFlight
    <3>3. schemaName'[r] = SchemaOf[Subject(r)]
      BY <1>1, <3>2 DEF Inv, NamesOK, Moves, Subject, IsCreate
    <3> QED
      BY <1>1, <3>1, <3>3, CreationSchema DEF Subject
  <2> QED
    BY <1>1, <2>1, <2>2 DEF InCreation, Moves
<1>5. CASE Registered(s)
  <2>1. PICK i \in Request : RegisteredAs(s, i)
    BY <1>1, <1>5, OneRow DEF Registered, RegisteredAs
  <2>2. input[i].slug = g
    BY <1>1, <2>1, RowSubject
  <2>3. Complete(i)' <=> Complete(i)
    BY <1>1, <1>3, <2>2, StoreElsewhere DEF Complete, Moves
  <2> QED
    BY <1>2, <1>3, <1>4, <2>1, <2>3 DEF Mapped
<1>6. CASE ~Registered(s)
  BY <1>2, <1>3, <1>4, <1>6 DEF Mapped
<1> QED
  BY <1>5, <1>6

\* So a statement that leaves the slug of its request alone changes nothing,
\* and any other changes that slug only.
LEMMA NothingMoves ==
    ASSUME SerialNow, SerialNow',
           NEW r \in Request, Statement(r) \/ StatementFails(r),
           \A g \in Slug : SchemaOf[g] = schemaName'[r] =>
               PhaseOf(g)' = PhaseOf(g) /\ OwnerOf(g)' = OwnerOf(g)
    PROVE  UNCHANGED <<Phase, Owner>>
BY SlugElsewhere DEF Phase, Owner

LEMMA OneSlugMoves ==
    ASSUME SerialNow, SerialNow',
           NEW r \in Request, Statement(r) \/ StatementFails(r),
           NEW g \in Slug, SchemaOf[g] = schemaName'[r]
    PROVE  /\ Phase' = [Phase EXCEPT ![g] = PhaseOf(g)']
           /\ Owner' = [Owner EXCEPT ![g] = OwnerOf(g)']
<1>1. \A h \in Slug \ {g} : SchemaOf[h] # schemaName'[r]
  BY SchemaAssumption
<1>2. \A h \in Slug \ {g} : PhaseOf(h)' = PhaseOf(h) /\ OwnerOf(h)' = OwnerOf(h)
  BY <1>1, SlugElsewhere
<1> QED
  BY <1>2 DEF Phase, Owner

\* A step of a request that touches no data and is no step into, within or out
\* of the part of a creation behind its checks.
LEMMA QuietStep ==
    ASSUME Inv, Inv', UNCHANGED <<tenants, schemas, store, input>>,
           \A r \in Request : \/ pc'[r] = pc[r]
                              \/ /\ pc[r] \notin Trying \cup Cleaning
                                 /\ pc'[r] \notin Trying \cup Cleaning
    PROVE  UNCHANGED <<Phase, Owner>>
<1>1. \A g \in Slug : InCreation(g)' <=> InCreation(g)
  BY DEF InCreation
<1>2. /\ \A s : Registered(s)' <=> Registered(s)
      /\ \A s, i : RegisteredAs(s, i)' <=> RegisteredAs(s, i)
      /\ \A i : Complete(i)' <=> Complete(i)
  BY DEF Registered, RegisteredAs, Complete
<1>3. ASSUME NEW g \in Slug PROVE PhaseOf(g)' = PhaseOf(g) /\ OwnerOf(g)' = OwnerOf(g)
  <2>1. Mapped(g) /\ Mapped(g)'
    BY Mapping, MappingNext
  <2>2. Registered(SchemaOf[g]) => \E i \in Request : RegisteredAs(SchemaOf[g], i)
    BY OneRow DEF Registered, RegisteredAs
  <2> QED
    BY <1>1, <1>2, <2>1, <2>2 DEF Mapped
<1> QED
  BY <1>3 DEF Phase, Owner

----------------------------------------------------------------------------
(* Every step is a step of the registry, or changes nothing of it. *)

LEMMA BeginRefines ==
    ASSUME Inv, Inv', NEW r \in Request, Begin(r)
    PROVE  Registry!Arrive(r)
<1>1. /\ UNCHANGED <<tenants, schemas, store, input>>
      /\ pc' = [pc EXCEPT ![r] = pc'[r]] /\ pc[r] = "idle"
      /\ pc'[r] \in {"checkSlug", "find"}
  BY DEF Begin, Goto, Inv, TypeOK
<1>2. UNCHANGED <<Phase, Owner>>
  <2>1. \A q \in Request : \/ pc'[q] = pc[q]
                           \/ /\ pc[q] \notin Trying \cup Cleaning
                              /\ pc'[q] \notin Trying \cup Cleaning
    BY <1>1 DEF Inv, TypeOK, Trying, Cleaning
  <2> QED
    BY <1>1, <2>1, QuietStep
<1>3. Answer[r] = "none" /\ Answer' = [Answer EXCEPT ![r] = "pending"]
  <2>1. Outcome(pc[r]) = "none" /\ Outcome(pc'[r]) = "pending"
    BY <1>1, Outcomes DEF InFlight, Checking, Managing
  <2> QED
    BY <1>1, <2>1 DEF Answer, Inv, TypeOK
<1> QED
  BY <1>1, <1>2, <1>3 DEF Registry!Arrive, Registry!Answer

\* A statement that stays ahead of, or behind, what a creation does to its slug.
LEMMA QuietStatement ==
    ASSUME Inv, Inv', NEW r \in Request, Statement(r) \/ StatementFails(r),
           UNCHANGED <<tenants, schemas, store>>,
           pc[r] \notin Trying \cup Cleaning, pc'[r] \notin Trying \cup Cleaning
    PROVE  UNCHANGED <<Phase, Owner>>
BY StatementMoves, QuietStep DEF Inv, Moves

LEMMA CheckSlugRefines ==
    ASSUME SerialNow, SerialNow', NEW r \in Request, CheckSlug(r)
    PROVE  Registry!Conflict(r) \/ UNCHANGED Registry!vars
<1> DEFINE g == input[r].slug
<1>1. Inv /\ Inv' /\ Moves(r) /\ Statement(r)
  BY StatementMoves DEF SerialNow, CompletionInv, Inv, Statement
<1>2. /\ UNCHANGED <<tenants, schemas, store>> /\ pc[r] = "checkSlug"
      /\ \/ pc'[r] = "checkSchema"
         \/ pc'[r] = "conflict" /\ \E t \in tenants : t.slug = g
  BY <1>1 DEF CheckSlug, Goto, Inv, TypeOK
<1>3. UNCHANGED <<Phase, Owner>>
  BY <1>1, <1>2, QuietStatement DEF Trying, Cleaning
<1>4. CASE pc'[r] = "checkSchema"
  BY <1>1, <1>3, <1>4, AnswerMoves DEF Registry!vars, InFlight, Checking
<1>5. CASE pc'[r] = "conflict"
  <2>1. g \in Slug /\ input[r].op = "create"
    BY <1>1, <1>2, CreationSchema DEF Creating, Checking, IsCreate
  <2>2. ~InCreation(g)
    BY <1>1, <1>2, OneInFlight DEF InCreation, InFlight, Trying, Cleaning, Checking
  <2>3. PICK i \in Request : RegisteredAs(SchemaOf[g], i)
    BY <1>1, <1>2, <1>5, <2>1, OneRow DEF RegisteredAs
  <2>4. Phase[g] # "free"
    BY <1>1, <2>1, <2>2, <2>3, Mapping DEF Mapped, Phase
  <2>5. Answer[r] = "pending" /\ Answer' = [Answer EXCEPT ![r] = "conflict"]
    BY <1>1, <1>5, AnswerMoves, Outcomes
  <2> QED
    BY <1>1, <1>3, <2>1, <2>4, <2>5, AnswerMoves
       DEF Registry!Conflict, Registry!Answer
<1> QED
  BY <1>2, <1>4, <1>5

\* Behind the checks, a creation's slug is free until the creation ends.
LEMMA InnerRefines ==
    ASSUME SerialNow, SerialNow',
           NEW r \in Request, Statement(r) \/ StatementFails(r),
           pc[r] \in Trying \cup Cleaning, pc'[r] \in Trying \cup Cleaning
    PROVE  UNCHANGED Registry!vars
<1> DEFINE g == input[r].slug
<1>1. Inv /\ Inv' /\ Moves(r)
  BY StatementMoves DEF SerialNow, CompletionInv, Inv
<1>2. g \in Slug /\ input' = input /\ pc[r] # "checkSlug"
      /\ schemaName'[r] = SchemaOf[g]
  BY <1>1, CreationSchema DEF Moves, Creating, Trying, Cleaning
<1>3. InCreation(g) /\ InCreation(g)'
  BY <1>2 DEF InCreation
<1>4. PhaseOf(g)' = PhaseOf(g) /\ OwnerOf(g)' = OwnerOf(g)
  BY <1>1, <1>2, <1>3, Mapping, MappingNext DEF Mapped
<1>5. UNCHANGED <<Phase, Owner>>
  BY <1>2, <1>4, NothingMoves, SchemaAssumption
<1> QED
  BY <1>1, <1>5, AnswerMoves DEF Registry!vars, InFlight, Trying, Cleaning

LEMMA CheckSchemaRefines ==
    ASSUME SerialNow, SerialNow', NEW r \in Request, CheckSchema(r)
    PROVE  Registry!Conflict(r) \/ UNCHANGED Registry!vars
<1> DEFINE g == input[r].slug
<1>1. Inv /\ Inv' /\ Moves(r) /\ Statement(r) /\ AloneOK(r)
  BY StatementMoves DEF SerialNow, CompletionInv, Inv, Statement
<1>2. /\ UNCHANGED <<tenants, schemas, store, schemaName, input>>
      /\ pc[r] = "checkSchema"
      /\ \/ pc'[r] = "conflict" /\ schemaName[r] \in schemas
         \/ pc'[r] = "insertTenant" /\ schemaName[r] \notin schemas
  BY <1>1 DEF CheckSchema, Goto, Inv, TypeOK
<1>3. g \in Slug /\ input[r].op = "create" /\ schemaName[r] = SchemaOf[g]
  BY <1>1, <1>2, CreationSchema DEF Creating, Checking, IsCreate
<1>4. ~InCreation(g)
  BY <1>1, <1>2, OneInFlight DEF InCreation, InFlight, Trying, Cleaning, Checking
<1>5. ~Registered(SchemaOf[g]) /\ OwnerOf(g) = None
      /\ PhaseOf(g) = IF SchemaOf[g] \in schemas THEN "stuck" ELSE "free"
  BY <1>1, <1>2, <1>3, <1>4, Mapping DEF AloneOK, Mapped
<1>6. CASE pc'[r] = "conflict"
  <2>1. UNCHANGED <<Phase, Owner>>
    BY <1>1, <1>2, <1>6, QuietStatement DEF Trying, Cleaning
  <2>2. Phase[g] # "free"
    BY <1>2, <1>3, <1>5, <1>6 DEF Phase
  <2>3. Answer[r] = "pending" /\ Answer' = [Answer EXCEPT ![r] = "conflict"]
    BY <1>1, <1>6, AnswerMoves, Outcomes
  <2> QED
    BY <1>1, <1>3, <2>1, <2>2, <2>3, AnswerMoves
       DEF Registry!Conflict, Registry!Answer
<1>7. CASE pc'[r] = "insertTenant"
  <2>1. InCreation(g)'
    BY <1>1, <1>7 DEF InCreation, Moves, Trying
  <2>2. PhaseOf(g)' = PhaseOf(g) /\ OwnerOf(g)' = OwnerOf(g)
    BY <1>1, <1>2, <1>3, <1>5, <1>7, <2>1, MappingNext DEF Mapped
  <2>3. UNCHANGED <<Phase, Owner>>
    BY <1>1, <1>2, <1>3, <2>2, NothingMoves, SchemaAssumption
  <2> QED
    BY <1>1, <1>7, <2>3, AnswerMoves DEF Registry!vars, InFlight, Trying
<1> QED
  BY <1>2, <1>6, <1>7

----------------------------------------------------------------------------
(* The end of a creation *)

\* What a creation that ends leaves behind: its row or none, its schema or none.
LEMMA Leaves ==
    ASSUME SerialNow, SerialNow', NEW r \in Request,
           pc[r] \in Trying \cup Cleaning, pc'[r] \notin InFlight,
           \A q \in Request \ {r} : pc'[q] \in InFlight => pc[q] \in InFlight,
           UNCHANGED <<tenants, input>>
    PROVE  LET g == input[r].slug
           IN /\ input[r].op = "create" /\ g \in Slug
              /\ PhaseOf(g) = "free" /\ OwnerOf(g) = None
              /\ ~InCreation(g)'
              /\ \A i \in Request : RegisteredAs(SchemaOf[g], i)' => i = r
              /\ \/ PhaseOf(g)' = "free" /\ OwnerOf(g)' = None
                 \/ PhaseOf(g)' = "stuck" /\ OwnerOf(g)' \in {r, None}
                 \/ PhaseOf(g)' = "served" /\ OwnerOf(g)' = r
<1> DEFINE g == input[r].slug
           s == SchemaOf[g]
<1>1. Inv /\ Inv' /\ AloneOK(r) /\ pc[r] \in InFlight /\ pc[r] \in Creating
  BY DEF SerialNow, CompletionInv, InFlight, Creating
<1>2. g \in Slug /\ input[r].op = "create"
  BY <1>1, CreationSchema DEF IsCreate
<1>3. InCreation(g)
  BY DEF InCreation
<1>4. \A q \in Request : pc'[q] \notin InFlight
  BY <1>1, OneInFlight
<1>5. ~InCreation(g)'
  BY <1>4 DEF InCreation, InFlight
<1>6. \A i \in Request : RegisteredAs(s, i)' <=> RegisteredAs(s, i)
  BY DEF RegisteredAs
<1>7. \A i \in Request : RegisteredAs(s, i) => i = r
  BY <1>1, OneRow DEF AloneOK, Registered, RegisteredAs, Trying, Cleaning
<1>8. PhaseOf(g) = "free" /\ OwnerOf(g) = None
  BY <1>1, <1>2, <1>3, Mapping DEF Mapped
<1>9. Mapped(g)'
  BY <1>1, <1>2, MappingNext
<1>10. CASE Registered(s)'
  <2>1. RegisteredAs(s, r)'
    BY <1>1, <1>6, <1>7, <1>10, OneRow DEF Registered, RegisteredAs
  <2>2. OwnerOf(g)' = r /\ PhaseOf(g)' \in {"served", "stuck"}
    BY <1>5, <1>9, <2>1 DEF Mapped
  <2> QED
    BY <1>2, <1>5, <1>6, <1>7, <1>8, <2>2
<1>11. CASE ~Registered(s)'
  <2>1. OwnerOf(g)' = None /\ PhaseOf(g)' \in {"free", "stuck"}
    BY <1>5, <1>9, <1>11 DEF Mapped
  <2> QED
    BY <1>2, <1>5, <1>6, <1>7, <1>8, <2>1
<1> QED
  BY <1>10, <1>11

\* A creation that ends without success, by a statement or by a restart.
LEMMA FailureRefines ==
    ASSUME SerialNow, SerialNow', NEW r \in Request,
           pc[r] \in Trying \cup Cleaning, pc'[r] \notin InFlight,
           \A q \in Request \ {r} : pc'[q] \in InFlight => pc[q] \in InFlight,
           UNCHANGED <<tenants, input>>,
           Answer[r] = "pending", Answer' = [Answer EXCEPT ![r] = "failed"],
           Phase' = [Phase EXCEPT ![input[r].slug] = PhaseOf(input[r].slug)'],
           Owner' = [Owner EXCEPT ![input[r].slug] = OwnerOf(input[r].slug)']
    PROVE  Registry!FailToCreate(r)
<1> DEFINE g == input[r].slug
<1>1. /\ g \in Slug /\ Phase[g] = "free" /\ Owner[g] = None
      /\ Phase = [Phase EXCEPT ![g] = Phase[g]]
      /\ Owner = [Owner EXCEPT ![g] = Owner[g]]
  BY Leaves DEF Phase, Owner
<1>2. CASE PhaseOf(g)' = "free" /\ OwnerOf(g)' = None
  <2>1. UNCHANGED <<Phase, Owner>>
    BY <1>1, <1>2
  <2> QED
    BY <2>1, Leaves DEF Registry!FailToCreate, Registry!Answer
<1>3. CASE PhaseOf(g)' = "stuck" /\ OwnerOf(g)' \in {r, None}
  BY <1>1, <1>3, Leaves
     DEF Registry!FailToCreate, Registry!Answer, Registry!Become
<1>4. CASE PhaseOf(g)' = "served" /\ OwnerOf(g)' = r
  BY <1>1, <1>4, Leaves
     DEF Registry!FailToCreate, Registry!Answer, Registry!Become
<1> QED
  BY <1>2, <1>3, <1>4, Leaves

\* Its slug is the one that a statement of a creation moves.
LEMMA OwnSlugMoves ==
    ASSUME SerialNow, SerialNow',
           NEW r \in Request, Statement(r) \/ StatementFails(r),
           pc[r] \in Trying \cup Cleaning
    PROVE  /\ Phase' = [Phase EXCEPT ![input[r].slug] = PhaseOf(input[r].slug)']
           /\ Owner' = [Owner EXCEPT ![input[r].slug] = OwnerOf(input[r].slug)']
           /\ Moves(r)
<1>1. Inv /\ Inv' /\ Moves(r)
  BY StatementMoves DEF SerialNow, CompletionInv, Inv
<1>2. input[r].slug \in Slug /\ input' = input
      /\ schemaName'[r] = SchemaOf[input[r].slug]
  BY <1>1, CreationSchema DEF Moves, Creating, Trying, Cleaning
<1> QED
  BY <1>1, <1>2, OneSlugMoves

LEMMA StatementFailure ==
    ASSUME SerialNow, SerialNow',
           NEW r \in Request, CleanSchema(r) \/ StatementFails(r),
           pc[r] \in Trying \cup Cleaning, pc'[r] \in {"failed", "cleanupFailed"}
    PROVE  Registry!FailToCreate(r)
<1>1. (Statement(r) \/ StatementFails(r)) /\ UNCHANGED <<tenants, input>>
  BY DEF Statement, CleanSchema, Drop, StatementFails, FailsWithoutEffect, ReplyLost,
     Trying, Cleaning
<1>2. /\ Phase' = [Phase EXCEPT ![input[r].slug] = PhaseOf(input[r].slug)']
      /\ Owner' = [Owner EXCEPT ![input[r].slug] = OwnerOf(input[r].slug)']
      /\ Moves(r)
  BY <1>1, OwnSlugMoves
<1>3. Answer[r] = "pending" /\ Answer' = [Answer EXCEPT ![r] = "failed"]
  BY <1>2, AnswerMoves, Outcomes
<1>4. /\ \A q \in Request \ {r} : pc'[q] \in InFlight => pc[q] \in InFlight
      /\ pc'[r] \notin InFlight
  BY <1>2 DEF Moves, InFlight, Checking, Trying, Cleaning, Managing
<1> QED
  BY <1>1, <1>2, <1>3, <1>4, FailureRefines

\* A creation that is answered with success has filled its schema.
LEMMA SuccessRefines ==
    ASSUME SerialNow, SerialNow', NEW r \in Request,
           NEW c \in Conn, AdminReset(r, c)
    PROVE  Registry!Create(r)
<1> DEFINE g == input[r].slug
           s == SchemaOf[g]
<1>1. /\ Inv /\ Inv' /\ AloneOK(r) /\ FilledOK(r) /\ GrantedOK(r)
      /\ Statement(r) /\ Raw(r, c)
  BY DEF SerialNow, CompletionInv, Statement, Raw
<1>2. /\ pc[r] = "adminReset" /\ pc'[r] = "created"
      /\ UNCHANGED <<tenants, schemas, store, input>>
  BY <1>1 DEF AdminReset, ResetPath, Goto, Inv, TypeOK
<1>3. IsCreate(r) /\ g \in Slug /\ s \in Schema
  BY <1>1, <1>2, CreationSchema DEF Creating, Trying
<1>4. Complete(r)'
  <2>1. r \in store[s].granted /\ peers[r] = {} /\ Steady(r)
    BY <1>1, <1>2, <1>3 DEF SerialNow, FilledOK
  <2>2. Complete(r)
    BY <1>1, <1>3, <2>1 DEF GrantedOK
  <2> QED
    BY <1>2, <2>2 DEF Complete
<1>5. RegisteredAs(s, r)'
  BY <1>1, <1>2 DEF AloneOK, RegisteredAs, Trying
<1>6. /\ Phase' = [Phase EXCEPT ![g] = PhaseOf(g)']
      /\ Owner' = [Owner EXCEPT ![g] = OwnerOf(g)']
      /\ Moves(r)
  BY <1>1, <1>2, OwnSlugMoves DEF Trying
<1>7. /\ \A q \in Request \ {r} : pc'[q] \in InFlight => pc[q] \in InFlight
      /\ pc'[r] \notin InFlight
  BY <1>2, <1>6 DEF Moves, InFlight, Checking, Trying, Cleaning, Managing
<1>8. PhaseOf(g) = "free" /\ ~InCreation(g)'
  BY <1>2, <1>7, Leaves DEF Trying
<1>9. PhaseOf(g)' = "served" /\ OwnerOf(g)' = r
  BY <1>1, <1>2, <1>3, <1>4, <1>5, <1>8, MappingNext DEF Mapped
<1>10. Answer[r] = "pending" /\ Answer' = [Answer EXCEPT ![r] = "ok"]
  BY <1>2, <1>6, AnswerMoves, Outcomes
<1> QED
  BY <1>2, <1>3, <1>6, <1>8, <1>9, <1>10
     DEF Registry!Create, Registry!Answer, Registry!Become, IsCreate, Phase

----------------------------------------------------------------------------
(* Update, deactivation and deletion, failures and restarts *)

LEMMA ManagingOK ==
    ASSUME SerialNow, NEW r \in Request, pc[r] \in Managing
    PROVE  /\ input[r].op # "create" /\ input[r].id \in Request
           /\ \A g \in Slug : ~InCreation(g)
           /\ pc[r] # "find" => schemaName[r] \in Schema
<1>1. Inv /\ pc[r] \in InFlight
  BY DEF SerialNow, CompletionInv, InFlight
<1>2. input[r].op # "create" /\ input[r].id \in Request
  BY <1>1, InputKinds DEF Inv, ControlOK, TypeOK
<1>3. \A q \in Request : pc[q] \notin Trying \cup Cleaning
  BY <1>1, OneInFlight DEF InFlight, Trying, Cleaning, Managing
<1>4. pc[r] # "find" => schemaName[r] \in Schema
  BY <1>1 DEF Inv, ControlOK, Managing
<1> QED
  BY <1>2, <1>3, <1>4 DEF InCreation

LEMMA FindRefines ==
    ASSUME SerialNow, SerialNow', NEW r \in Request, Find(r)
    PROVE  Registry!NotFound(r) \/ UNCHANGED Registry!vars
<1>1. Inv /\ Inv' /\ Moves(r) /\ Statement(r)
  BY StatementMoves DEF SerialNow, CompletionInv, Inv, Statement
<1>2. /\ UNCHANGED <<tenants, schemas, store>> /\ pc[r] = "find"
      /\ \/ pc'[r] = After(input[r].op)
         \/ pc'[r] = "notFound" /\ \A t \in tenants : t.id # input[r].id
  BY <1>1 DEF Find, Goto, Inv, TypeOK
<1>3. pc[r] \in Managing /\ input[r].op \in {"update", "remove", "hardDelete"}
  BY <1>1, <1>2, InputKinds DEF Managing, Inv, ControlOK, TypeOK
<1>4. pc'[r] \in Managing \cup {"notFound"}
  BY <1>2, <1>3 DEF After, Managing
<1>5. UNCHANGED <<Phase, Owner>>
  BY <1>1, <1>2, <1>4, QuietStatement DEF Trying, Cleaning, Managing
<1>6. CASE pc'[r] \in Managing
  BY <1>1, <1>5, <1>6, AnswerMoves DEF Registry!vars, InFlight
<1>7. CASE pc'[r] = "notFound"
  <2>1. \A t \in tenants : t.id # input[r].id
    BY <1>2, <1>3, <1>7 DEF After
  <2>2. ASSUME NEW g \in Slug PROVE Owner[g] # input[r].id
    <3>1. Mapped(g) /\ ~InCreation(g) /\ input[r].id \in Request
      BY <1>1, <1>3, Mapping, ManagingOK
    <3>2. CASE Registered(SchemaOf[g])
      <4>1. PICK i \in Request : RegisteredAs(SchemaOf[g], i)
        BY <1>1, <3>2, OneRow DEF Registered, RegisteredAs
      <4> QED
        BY <2>1, <3>1, <4>1 DEF Mapped, Owner, RegisteredAs
    <3>3. CASE ~Registered(SchemaOf[g])
      BY <3>1, <3>3, NoneAssumption DEF Mapped, Owner
    <3> QED
      BY <3>2, <3>3
  <2>3. Answer[r] = "pending" /\ Answer' = [Answer EXCEPT ![r] = "notFound"]
    BY <1>1, <1>7, AnswerMoves, Outcomes
  <2> QED
    BY <1>1, <1>3, <1>5, <2>2, <2>3, AnswerMoves
       DEF Registry!NotFound, Registry!Answer
<1> QED
  BY <1>4, <1>6, <1>7

\* The slug of the row that a request has found.
LEMMA FoundSlug ==
    ASSUME SerialNow, NEW r \in Request, pc[r] \in Managing \ {"find"}
    PROVE  \E g \in Slug : /\ SchemaOf[g] = schemaName[r]
                           /\ RegisteredAs(SchemaOf[g], input[r].id)
                           /\ Owner[g] = input[r].id
<1>1. Inv /\ AloneOK(r)
  BY DEF SerialNow, CompletionInv
<1>2. RegisteredAs(schemaName[r], input[r].id)
  BY <1>1 DEF AloneOK
<1>3. PICK g \in Slug : SchemaOf[g] = schemaName[r]
  BY <1>1, <1>2 DEF RegisteredAs, Inv, TypeOK, RowsOK, Row
<1>4. Mapped(g) /\ ~InCreation(g) /\ input[r].id \in Request
  BY <1>1, <1>3, Mapping, ManagingOK
<1> QED
  BY <1>2, <1>3, <1>4 DEF Mapped, Owner

\* A failure before anything was written, or between a DROP and its DELETE.
LEMMA RefusalRefines ==
    ASSUME NEW r \in Request, Moves(r), UNCHANGED <<Phase, Owner>>,
           pc'[r] \in {"error", "halfDeleted", "lost"}
    PROVE  Registry!FailToCreate(r) \/ Registry!FailToManage(r)
<1>1. /\ Answer[r] = "pending" /\ Answer' = [Answer EXCEPT ![r] = "failed"]
      /\ input' = input
  BY AnswerMoves, Outcomes
<1> QED
  BY <1>1 DEF Registry!FailToCreate, Registry!FailToManage, Registry!Answer

LEMMA UpdateRefines ==
    ASSUME SerialNow, SerialNow', NEW r \in Request,
           UpdateRow(r) \/ Deactivate(r) \/ (StatementFails(r) /\ UpdateLost(r))
    PROVE  Registry!Manage(r) \/ Registry!FailToCreate(r) \/ Registry!FailToManage(r)
<1>1. Inv /\ Inv' /\ Moves(r) /\ (Statement(r) \/ StatementFails(r))
  BY StatementMoves DEF SerialNow, CompletionInv, Inv, Statement
<1>2. /\ UNCHANGED <<schemas, store>>
      /\ \/ pc[r] = "updateRow" /\ pc'[r] \in {"error", "updated"}
         \/ pc[r] = "deactivate" /\ pc'[r] \in {"error", "deactivated"}
  BY <1>1 DEF UpdateRow, Deactivate, UpdateLost, ReplyLost, Goto, Inv, TypeOK
<1>3. \A s, i : RegisteredAs(s, i)' <=> RegisteredAs(s, i)
  BY <1>1, UpdateKeeps DEF Inv, RegisteredAs
<1>4. PICK g \in Slug : /\ SchemaOf[g] = schemaName[r] /\ Owner[g] = input[r].id
                        /\ RegisteredAs(SchemaOf[g], input[r].id)
  BY <1>2, FoundSlug DEF Managing
<1>5. /\ schemaName'[r] = schemaName[r] /\ input' = input
      /\ input[r].id \in Request
      /\ input[r].op \in {"update", "remove"}
      /\ ~InCreation(g)
  <2>1. input[r].op \in {"update", "remove"}
    <3>1. CASE pc[r] = "updateRow"
      BY <1>1, <3>1 DEF Inv, ControlOK, UpdateInput
    <3>2. CASE pc[r] = "deactivate"
      BY <1>1, <3>2 DEF SerialNow, AloneOK
    <3> QED
      BY <1>2, <3>1, <3>2
  <2> QED
    BY <1>1, <1>2, <2>1, ManagingOK DEF Moves, Managing
<1>6. ~InCreation(g)'
  BY <1>1, <1>2, <1>5 DEF InCreation, Moves, Trying, Cleaning
<1>7. Complete(input[r].id)' <=> Complete(input[r].id)
  BY <1>2, <1>5 DEF Complete
<1>8. PhaseOf(g)' = PhaseOf(g) /\ OwnerOf(g)' = OwnerOf(g)
  BY <1>1, <1>3, <1>4, <1>5, <1>6, <1>7, Mapping, MappingNext DEF Mapped
<1>9. UNCHANGED <<Phase, Owner>>
  BY <1>1, <1>4, <1>5, <1>8, NothingMoves, SchemaAssumption
<1>10. CASE pc'[r] = "error"
  BY <1>1, <1>9, <1>10, RefusalRefines
<1>11. CASE pc'[r] \in {"updated", "deactivated"}
  <2>1. Answer[r] = "pending" /\ Answer' = [Answer EXCEPT ![r] = "ok"]
    BY <1>1, <1>11, AnswerMoves, Outcomes
  <2> QED
    BY <1>4, <1>5, <1>9, <2>1 DEF Registry!Manage, Registry!Answer
<1> QED
  BY <1>2, <1>10, <1>11

LEMMA DropRefines ==
    ASSUME SerialNow, SerialNow', NEW r \in Request, DropSchema(r)
    PROVE  Registry!Withdraw(r)
<1>1. Inv /\ Inv' /\ Moves(r) /\ Statement(r)
  BY StatementMoves DEF SerialNow, CompletionInv, Inv, Statement
<1>2. /\ tenants' = tenants /\ schemas' = schemas \ {schemaName[r]}
      /\ pc[r] = "dropSchema" /\ pc'[r] = "deleteRow"
      /\ schemaName'[r] = schemaName[r] /\ input' = input
  BY <1>1 DEF DropSchema, Drop, Goto, Inv, TypeOK
<1>3. PICK g \in Slug : /\ SchemaOf[g] = schemaName[r] /\ Owner[g] = input[r].id
                        /\ RegisteredAs(SchemaOf[g], input[r].id)
  BY <1>2, FoundSlug DEF Managing
<1>4. input[r].op = "hardDelete" /\ input[r].id \in Request
  BY <1>1, <1>2, ManagingOK DEF Inv, ControlOK, Managing
<1>5. ~InCreation(g)'
  <2>1. ~InCreation(g)
    BY <1>2, ManagingOK DEF Managing
  <2> QED
    BY <1>1, <1>2, <2>1 DEF InCreation, Moves, Trying, Cleaning
<1>6. RegisteredAs(SchemaOf[g], input[r].id)' /\ ~Complete(input[r].id)'
  <2>1. input[input[r].id].slug = g
    BY <1>1, <1>3, RowSubject
  <2> QED
    BY <1>2, <1>3, <2>1 DEF RegisteredAs, Complete
<1>7. PhaseOf(g)' = "stuck" /\ OwnerOf(g)' = input[r].id
  BY <1>1, <1>2, <1>4, <1>5, <1>6, MappingNext DEF Mapped
<1>8. /\ Phase' = [Phase EXCEPT ![g] = "stuck"]
      /\ Owner' = [Owner EXCEPT ![g] = Owner[g]]
  BY <1>1, <1>2, <1>3, <1>7, OneSlugMoves
<1>9. Answer[r] = "pending" /\ Answer' = Answer
  BY <1>1, <1>2, AnswerMoves DEF InFlight, Managing
<1> QED
  BY <1>2, <1>3, <1>4, <1>8, <1>9 DEF Registry!Withdraw, Registry!Become

LEMMA DeleteRefines ==
    ASSUME SerialNow, SerialNow', NEW r \in Request,
           DeleteRow(r) \/ (StatementFails(r) /\ DeletionLost(r))
    PROVE  Registry!Delete(r) \/ Registry!FailToManage(r)
<1>1. Inv /\ Inv' /\ Moves(r) /\ (Statement(r) \/ StatementFails(r)) /\ AloneOK(r)
  BY StatementMoves DEF SerialNow, CompletionInv, Inv, Statement
<1>2. /\ pc[r] = "deleteRow" /\ schemas' = schemas /\ input' = input
      /\ schemaName'[r] = schemaName[r]
      /\ tenants' = {t \in tenants : t.id # input[r].id}
  BY <1>1 DEF DeleteRow, StatementFails, DeletionLost, ReplyLost
<1>3. PICK g \in Slug : /\ SchemaOf[g] = schemaName[r] /\ Owner[g] = input[r].id
                        /\ RegisteredAs(SchemaOf[g], input[r].id)
  BY <1>2, FoundSlug DEF Managing
<1>4. \/ DeleteRow(r) /\ pc'[r] = "deleted"
      \/ pc'[r] = "error"
  BY <1>1, <1>3 DEF DeleteRow, DeletionLost, ReplyLost, Goto, RegisteredAs, Inv, TypeOK
<1>5. /\ input[r].op = "hardDelete" /\ input[r].id \in Request /\ ~InCreation(g)
      /\ SchemaOf[g] \notin schemas
  BY <1>1, <1>2, <1>3, ManagingOK DEF Inv, ControlOK, Managing, AloneOK
<1>6. ~InCreation(g)'
  BY <1>1, <1>4, <1>5 DEF InCreation, Moves, Trying, Cleaning
<1>7. Phase[g] = "stuck"
  BY <1>1, <1>3, <1>5, Mapping, RowSubject DEF Mapped, Phase, Complete
<1>8. ~Registered(SchemaOf[g])'
  BY <1>1, <1>2, <1>3, OneRow DEF Registered, RegisteredAs
<1>9. PhaseOf(g)' = "free" /\ OwnerOf(g)' = None
  BY <1>1, <1>2, <1>5, <1>6, <1>8, MappingNext DEF Mapped
<1>10. /\ Phase' = [Phase EXCEPT ![g] = "free"]
       /\ Owner' = [Owner EXCEPT ![g] = None]
  BY <1>1, <1>2, <1>3, <1>9, OneSlugMoves
<1>11. /\ Answer[r] = "pending"
       /\ \/ Answer' = [Answer EXCEPT ![r] = "ok"]
          \/ Answer' = [Answer EXCEPT ![r] = "failed"]
  BY <1>1, <1>4, AnswerMoves, Outcomes
<1> QED
  BY <1>2, <1>3, <1>5, <1>7, <1>10, <1>11
     DEF Registry!Delete, Registry!FailToManage, Registry!Answer, Registry!Become

LEMMA FaultRefines ==
    ASSUME SerialNow, SerialNow', NEW r \in Request,
           StatementFails(r)
    PROVE  \/ Registry!FailToCreate(r) \/ Registry!FailToManage(r)
           \/ Registry!Manage(r) \/ Registry!Delete(r)
           \/ UNCHANGED Registry!vars
<1>0. CASE ReplyLost(r)
  BY <1>0, UpdateRefines, DeleteRefines DEF UpdateLost, DeletionLost
<1> SUFFICES ASSUME ~ReplyLost(r)
             PROVE  \/ Registry!FailToCreate(r) \/ Registry!FailToManage(r)
                    \/ UNCHANGED Registry!vars
  BY <1>0
<1>1. Inv /\ Inv' /\ Moves(r)
  BY StatementMoves DEF SerialNow, CompletionInv, Inv
<1>2. /\ UNCHANGED <<tenants, schemas, store, input>>
      /\ \/ pc[r] \in Trying /\ pc'[r] = "cleanRecord"
         \/ pc[r] \in Cleaning /\ pc'[r] = "cleanupFailed"
         \/ pc[r] \in Checking \cup Managing /\ pc'[r] \in {"error", "halfDeleted"}
  BY <1>1 DEF StatementFails, FailsWithoutEffect, Goto, Inv, TypeOK, Managing
<1>3. CASE pc[r] \in Trying /\ pc'[r] = "cleanRecord"
  BY <1>3, InnerRefines DEF Cleaning
<1>4. CASE pc[r] \in Cleaning /\ pc'[r] = "cleanupFailed"
  BY <1>4, StatementFailure
<1>5. CASE pc[r] \in Checking \cup Managing /\ pc'[r] \in {"error", "halfDeleted"}
  <2>1. UNCHANGED <<Phase, Owner>>
    BY <1>1, <1>2, <1>5, QuietStatement DEF Checking, Trying, Cleaning, Managing
  <2> QED
    BY <1>1, <1>5, <2>1, RefusalRefines
<1> QED
  BY <1>2, <1>3, <1>4, <1>5

LEMMA StatementRefines ==
    ASSUME SerialNow, SerialNow', NEW r \in Request,
           Statement(r) \/ StatementFails(r)
    PROVE  [Registry!Next]_Registry!vars
<1> USE DEF Registry!Next
<1>1. Inv
  BY DEF SerialNow, CompletionInv
<1>2. CASE CheckSlug(r) \/ CheckSchema(r)
  BY <1>2, CheckSlugRefines, CheckSchemaRefines
<1>3. CASE InsertTenant(r) \/ CreateSchema(r) \/ CleanRecord(r)
  <2>1. pc[r] \in Trying \cup Cleaning /\ pc'[r] \in Trying \cup Cleaning
    BY <1>1, <1>3 DEF InsertTenant, CreateSchema, CleanRecord, Goto, Inv, TypeOK,
       Trying, Cleaning
  <2> QED
    BY <2>1, InnerRefines
<1>4. ASSUME NEW c \in Conn, Raw(r, c) PROVE [Registry!Next]_Registry!vars
  <2>1. CASE pc'[r] = "created"
    BY <1>1, <1>4, <2>1, RawMoves, SuccessRefines
  <2>2. CASE pc'[r] # "created"
    <3>1. pc[r] \in Trying \cup Cleaning /\ pc'[r] \in Trying \cup Cleaning
      BY <1>1, <1>4, <2>2, RawMoves DEF Cleaning
    <3> QED
      BY <1>4, <3>1, InnerRefines DEF Statement
  <2> QED
    BY <2>1, <2>2
<1>5. CASE CleanSchema(r)
  <2>1. pc[r] \in Cleaning /\ pc'[r] = "failed"
    BY <1>1, <1>5 DEF CleanSchema, Drop, Goto, Inv, TypeOK, Cleaning
  <2> QED
    BY <1>5, <2>1, StatementFailure
<1>6. CASE Find(r)
  BY <1>6, FindRefines
<1>7. CASE UpdateRow(r) \/ Deactivate(r)
  BY <1>7, UpdateRefines
<1>8. CASE DropSchema(r) \/ DeleteRow(r)
  BY <1>8, DropRefines, DeleteRefines
<1>9. CASE StatementFails(r)
  BY <1>9, FaultRefines
<1> QED
  BY <1>2, <1>3, <1>4, <1>5, <1>6, <1>7, <1>8, <1>9 DEF Statement

\* A restart ends the one request in flight.
LEMMA CrashRefines ==
    ASSUME SerialNow, SerialNow', Crash
    PROVE  \E r \in Request : Registry!FailToCreate(r) \/ Registry!FailToManage(r)
<1>1. Inv /\ Inv'
  BY DEF SerialNow, CompletionInv
<1>2. PICK r \in Request : Serving = {r} /\ pc[r] \in InFlight
  BY DEF Crash, SerialNow, Serving
<1>3. /\ UNCHANGED <<tenants, schemas, store, input, schemaName, peers>>
      /\ pc' = [pc EXCEPT ![r] = "lost"]
  BY <1>1, <1>2 DEF Crash, Serving, Inv, TypeOK
<1>4. Answer[r] = "pending" /\ Answer' = [Answer EXCEPT ![r] = "failed"]
  <2>1. Outcome("lost") = "failed" /\ Outcome(pc[r]) = "pending"
    BY <1>2, Outcomes
  <2> QED
    BY <1>1, <1>3, <2>1 DEF Answer, Inv, TypeOK
<1>5. \A q \in Request \ {r} : pc'[q] = pc[q]
  BY <1>1, <1>3 DEF Inv, TypeOK
<1>6. pc'[r] = "lost"
  BY <1>1, <1>3 DEF Inv, TypeOK
<1>7. CASE pc[r] \in Trying \cup Cleaning
  <2> DEFINE g == input[r].slug
  <2>1. /\ \A q \in Request \ {r} : pc'[q] \in InFlight => pc[q] \in InFlight
        /\ pc'[r] \notin InFlight
    BY <1>5, <1>6 DEF InFlight, Checking, Trying, Cleaning, Managing
  <2>2. g \in Slug
    BY <1>3, <1>7, <2>1, Leaves
  <2>3. ASSUME NEW h \in Slug \ {g}
        PROVE  PhaseOf(h)' = PhaseOf(h) /\ OwnerOf(h)' = OwnerOf(h)
    <3>1. Mapped(h) /\ Mapped(h)'
      BY <1>1, Mapping, MappingNext
    <3>2. InCreation(h)' <=> InCreation(h)
      BY <1>3, <1>5, <1>6 DEF InCreation, Trying, Cleaning
    <3>3. /\ Registered(SchemaOf[h])' <=> Registered(SchemaOf[h])
          /\ \A i : RegisteredAs(SchemaOf[h], i)' <=> RegisteredAs(SchemaOf[h], i)
          /\ \A i : Complete(i)' <=> Complete(i)
      BY <1>3 DEF Registered, RegisteredAs, Complete
    <3>4. Registered(SchemaOf[h]) => \E i \in Request : RegisteredAs(SchemaOf[h], i)
      BY <1>1, OneRow DEF Registered, RegisteredAs
    <3> QED
      BY <1>3, <3>1, <3>2, <3>3, <3>4 DEF Mapped
  <2>4. /\ Phase' = [Phase EXCEPT ![g] = PhaseOf(g)']
        /\ Owner' = [Owner EXCEPT ![g] = OwnerOf(g)']
    BY <1>3, <2>2, <2>3 DEF Phase, Owner
  <2> QED
    BY <1>3, <1>4, <1>7, <2>1, <2>4, FailureRefines
<1>8. CASE pc[r] \notin Trying \cup Cleaning
  <2>1. UNCHANGED <<Phase, Owner>>
    BY <1>1, <1>3, <1>5, <1>6, <1>8, QuietStep DEF Trying, Cleaning
  <2> QED
    BY <1>3, <1>4, <2>1
       DEF Registry!FailToCreate, Registry!FailToManage, Registry!Answer
<1> QED
  BY <1>7, <1>8

LEMMA StepRefines ==
    ASSUME SerialNow, SerialNow', [Next]_vars
    PROVE  [Registry!Next]_Registry!vars
<1>1. Inv /\ Inv'
  BY DEF SerialNow, CompletionInv
<1>2. ASSUME NEW r \in Request, Begin(r) PROVE [Registry!Next]_Registry!vars
  BY <1>1, <1>2, BeginRefines DEF Registry!Next
<1>3. ASSUME NEW r \in Request, Statement(r) \/ StatementFails(r)
      PROVE  [Registry!Next]_Registry!vars
  BY <1>3, StatementRefines
<1>4. CASE Crash
  BY <1>4, CrashRefines DEF Registry!Next
<1>5. CASE UNCHANGED vars
  <2>1. UNCHANGED <<Phase, Owner>>
    BY <1>1, <1>5, QuietStep DEF vars
  <2>2. UNCHANGED Answer
    BY <1>5 DEF vars, Answer
  <2> QED
    BY <1>5, <2>1, <2>2 DEF vars, Registry!vars
<1> QED
  BY <1>2, <1>3, <1>4, <1>5 DEF Next, AllAnswered

----------------------------------------------------------------------------
(* The results *)

\* As long as no two requests have overlapped and the pool has not scattered
\* the statements of a creation, a request knows the rows of the slug it works
\* on, whatever failures and restarts left there, and for any number of
\* connections.  (create 15-91, update to hardDelete 175-230)
THEOREM SerialInvariant == Spec => []SerialInv
<1>1. SerialInv /\ [Next]_vars => SerialInv'
  BY SerialStep
<1> QED
  BY <1>1, SerialInit, PTL DEF Spec

\* For as long as that is so, requests, each in up to 15 statements that commit
\* one by one, fail, and are cut off by restarts, see a registry of tenants: a
\* creation succeeds on a free slug, at once, a failure harms the slug of its
\* own request only, and nobody is told of a conflict over a free slug.
\* (create 15-91, update to hardDelete 175-230)
THEOREM RegistryImplemented == Spec => ImplementsRegistry
<1>1. Init => Registry!Init
  <2> SUFFICES ASSUME Init PROVE Registry!Init
    OBVIOUS
  <2>1. Inv /\ \A g \in Slug : ~InCreation(g) /\ ~Registered(SchemaOf[g])
    BY InvInit DEF Init, InCreation, Registered, Trying, Cleaning
  <2>2. \A g \in Slug : PhaseOf(g) = "free" /\ OwnerOf(g) = None
    BY <2>1, Mapping DEF Mapped, Init
  <2> QED
    BY <2>2, Outcomes DEF Init, Registry!Init, Phase, Owner, Answer
<1>2. /\ SerialInv /\ SerialInv' /\ [Next]_vars
      => [Quiet' => Registry!Next \/ UNCHANGED Registry!vars]_vars
  <2> SUFFICES ASSUME SerialInv, SerialInv', [Next]_vars, Quiet'
               PROVE  Registry!Next \/ UNCHANGED Registry!vars
    OBVIOUS
  <2>1. SerialNow /\ SerialNow'
    BY QuietBefore DEF SerialInv, Quiet, SerialNow
  <2> QED
    BY <2>1, StepRefines
<1>3. Spec => []SerialInv
  BY SerialInvariant
<1> QED
  BY <1>1, <1>2, <1>3, PTL DEF Spec, ImplementsRegistry
=============================================================================
