-------------------------- MODULE TenantMigration --------------------------
(***************************************************************************)
(* The script that brings audit_logs to the tenants that lack it           *)
(* (scripts/migrate-tenants.ts), run beside the lifecycle of tenants.  It  *)
(* is a process of its own, with a connection of its own: it reads the     *)
(* tenants once and then sends SET search_path, CREATE TABLE IF NOT EXISTS *)
(* and RESET search_path for each.                                         *)
(***************************************************************************)
EXTENDS TenantLifecycle

VARIABLES
    script,      \* next statement of the script
    todo,        \* tenants read and not migrated yet, the one at hand included
    target,      \* the tenant at hand
    scriptPath,  \* search_path of the script's connection
    migrated     \* ids of the tenants reported as migrated

scriptVars == <<script, todo, target, scriptPath, migrated>>
lifecycleButStore == <<tenants, schemas, searchPath, pc, at, schemaName, input,
                       history, faults, crashes>>

ScriptTypeOK ==
    /\ script \in {"ready", "set", "create", "reset", "done"}
    /\ todo \subseteq Row
    /\ target \in Row \cup {None}
    /\ scriptPath \in Schema \cup {Public}
    /\ migrated \subseteq Request

ScriptInit ==
    /\ script = "ready"
    /\ todo = {}
    /\ target = None
    /\ scriptPath = Public
    /\ migrated = {}

\* tenant.findMany
ReadTenants ==
    /\ script = "ready"
    /\ todo' = tenants
    /\ script' = IF tenants = {} THEN "done" ELSE "set"
    /\ UNCHANGED <<vars, target, scriptPath, migrated>>

\* Mutant of SetScriptPath: the statement left out.
SetScriptPathSkipped ==
    /\ script = "set"
    /\ target' \in todo
    /\ script' = "create"
    /\ UNCHANGED <<vars, todo, scriptPath, migrated>>

\* The loop over the tenants that were read, in whatever order.
SetScriptPath ==
    /\ script = "set"
    /\ target' \in todo
    /\ scriptPath' = target'.schema
    /\ script' = "create"
    /\ UNCHANGED <<vars, todo, migrated>>

\* CREATE TABLE IF NOT EXISTS "audit_logs", which references "users".  Where
\* it fails the tenant is reported as failed and the script goes on.  The
\* public schema has the table already.
CreateAuditLogs ==
    LET s == scriptPath
        inTenant == s \in schemas /\ store[s].tables \cap {"audit_logs", "users"} # {}
    IN /\ script = "create"
       /\ IF inTenant
          THEN store' = [store EXCEPT ![s].tables = @ \cup {"audit_logs"}]
          ELSE UNCHANGED store
       /\ migrated' = IF inTenant \/ s = Public THEN migrated \cup {target.id} ELSE migrated
       /\ script' = "reset"
       /\ UNCHANGED <<lifecycleButStore, todo, target, scriptPath>>

\* RESET search_path, in the finally block.
ResetScriptPath ==
    /\ script = "reset"
    /\ scriptPath' = Public
    /\ todo' = todo \ {target}
    /\ target' = None
    /\ script' = IF todo' = {} THEN "done" ELSE "set"
    /\ UNCHANGED <<vars, migrated>>

Script == ReadTenants \/ SetScriptPath \/ CreateAuditLogs \/ ResetScriptPath

\* "Migration successful": a tenant reported as migrated has its audit_logs,
\* as long as it is registered and not being deleted, and unless a request on
\* the same schema overlapped its creation.  (main 6-47)
MigratedHasAuditLog ==
    \A t \in tenants :
        t.id \in migrated /\ Undisturbed(t.id) =>
            t.schema \in schemas /\ "audit_logs" \in store[t.schema].tables

----------------------------------------------------------------------------
(* The inductive invariant behind MigratedHasAuditLog *)

\* Labels of a creation that has not inserted its row.
Unregistered == {"idle"} \cup Checking \cup {"insertTenant"}

\* A row, as it is or as it was read, is that of a creation that inserted it.
Recorded(t) ==
    /\ input[t.id] \in CreateInput
    /\ t.schema = SchemaOf[input[t.id].slug]
    /\ pc[t.id] \notin Unregistered

ScriptOK ==
    /\ \A t \in todo : Recorded(t)
    /\ script \in {"create", "reset"} => target \in todo
    /\ script = "create" => scriptPath = target.schema
    /\ \A r \in migrated : pc[r] \notin Unregistered

\* While the row of an undisturbed creation stands, no cleanup is about to drop
\* its schema, and whoever else works on that schema manages this tenant.
RowOK(t) ==
    /\ pc[t.id] \notin Unregistered \cup {"cleanSchema"}
    /\ Undisturbed(t.id) =>
          \A q \in Serving \ (peers[t.id] \cup {t.id}) :
              schemaName[q] = t.schema => pc[q] \in Managing /\ input[q].id = t.id

MigrationInv ==
    /\ Inv
    /\ ScriptTypeOK
    /\ ScriptOK
    /\ \A t \in tenants : RowOK(t)
    /\ MigratedHasAuditLog
=============================================================================
