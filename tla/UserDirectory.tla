--------------------------- MODULE UserDirectory ---------------------------
(***************************************************************************)
(* The users of all tenants: UsersService (users/users.service.ts),        *)
(* AuthService.register (auth/auth.service.ts) and the AuditInterceptor    *)
(* around the users controller (audit/interceptors/audit.interceptor.ts).  *)
(*                                                                         *)
(* create, findOne, update, remove and register go through the Prisma      *)
(* model User, whose statements name public.users, whatever the tenant of  *)
(* the request; findAll is a raw query on the tenant's own table, which    *)
(* only the creation of the tenant has written.  Every operation is one    *)
(* interactive READ COMMITTED transaction of a read and at most one write. *)
(* A write that has committed is answered afterwards, unless the           *)
(* acknowledgement is lost or the process dies.  The audit record of a     *)
(* success is written beside the response, in a transaction of its own     *)
(* that nobody waits for.                                                  *)
(*                                                                         *)
(* A user's id is the request that inserted it.                            *)
(***************************************************************************)
EXTENDS Naturals

CONSTANTS
    Request,      \* HTTP requests that passed the guards
    Tenant,
    Email,
    Resident,     \* tenant -> ids of the users in the tenant's own schema
    Input,        \* requests that are considered
    None,
    MaxCrashes    \* bound: restarts of the Node process

Creation == [op : {"create", "register"}, tenant : Tenant, email : Email]
Lookup == [op : {"findOne", "remove"}, tenant : Tenant, id : Request]
Change == [op : {"update"}, tenant : Tenant, id : Request, email : Email \cup {None}]
Listing == [op : {"findAll"}, tenant : Tenant]

ASSUME InputAssumption == Input \subseteq Creation \cup Lookup \cup Change \cup Listing
ASSUME NoneAssumption == None \notin Request \cup Email
ASSUME BoundAssumption == MaxCrashes \in Nat
ASSUME ResidentAssumption ==
    /\ DOMAIN Resident = Tenant
    /\ \A t \in Tenant : Resident[t] \cap Request = {}

VARIABLES
    users,      \* email of each committed row of public.users
    rowLock,    \* the uncommitted writer of each of these rows
    audit,      \* records in the audit_logs of the tenants
    recording,  \* requests whose audit record is under way
    pc,         \* next statement of each request, or its outcome
    input,      \* what each request asks for
    listed,     \* the ids a findAll returned
    crashes,    \* restarts so far
    committed   \* history: requests whose write has committed

vars == <<users, rowLock, audit, recording, pc, input, listed, crashes, committed>>

\* Labels inside a transaction, before and after its write; the response to a
\* committed one is still to come.
Writing == {"session", "commit"}
Open == {"check", "insert", "find", "updateRow", "deleteRow", "list"} \cup Writing
InFlight == Open \cup {"reply"}
Success == {"created", "found", "updated", "removed", "listed"}
Answered == Success \cup {"conflict", "notFound", "error"}

Audited == [create |-> "CREATE", update |-> "UPDATE", remove |-> "DELETE"]

Record == [by : Request, tenant : Tenant, action : {"CREATE", "UPDATE", "DELETE"},
           resource : Request \cup {None}]

TypeOK ==
    /\ users \in [Request -> Email \cup {None}]
    /\ rowLock \in [Request -> Request \cup {None}]
    /\ audit \subseteq Record
    /\ recording \subseteq Request
    /\ pc \in [Request -> InFlight \cup Answered \cup {"idle", "lost"}]
    /\ input \in [Request -> Input \cup {None}]
    /\ listed \in [Request -> SUBSET (Request \cup UNION {Resident[t] : t \in Tenant})]
    /\ crashes \in 0..MaxCrashes
    /\ committed \subseteq Request

Init ==
    /\ users = [i \in Request |-> None]
    /\ rowLock = [i \in Request |-> None]
    /\ audit = {}
    /\ recording = {}
    /\ pc = [r \in Request |-> "idle"]
    /\ input = [r \in Request |-> None]
    /\ listed = [r \in Request |-> {}]
    /\ crashes = 0
    /\ committed = {}

Goto(r, label) == pc' = [pc EXCEPT ![r] = label]

First(op) == CASE op \in {"create", "register"}          -> "check"
               [] op \in {"findOne", "update", "remove"} -> "find"
               [] op = "findAll"                         -> "list"

\* Mutant of Arrive: the interceptor records the call before it is handled.
ArriveRecording(r) ==
    /\ pc[r] = "idle"
    /\ \E i \in Input : /\ input' = [input EXCEPT ![r] = i]
                        /\ Goto(r, First(i.op))
                        /\ recording' = IF i.op \in DOMAIN Audited
                                        THEN recording \cup {r} ELSE recording
    /\ UNCHANGED <<users, rowLock, audit, listed, crashes, committed>>

\* The request passes the guards and opens its transaction.
Arrive(r) ==
    /\ pc[r] = "idle"
    /\ \E i \in Input : input' = [input EXCEPT ![r] = i] /\ Goto(r, First(i.op))
    /\ UNCHANGED <<users, rowLock, audit, recording, listed, crashes, committed>>

----------------------------------------------------------------------------
(* create and register *)

Holding(e) == {i \in Request : users[i] = e}

\* Rows with email e that are not committed yet.
Unseen(e) ==
    {r \in Request : /\ pc[r] \in Writing
                     /\ input[r].op \in {"create", "register", "update"}
                     /\ input[r].email = e}

\* A row other than i has email e, or may have it when its writer ends.
Taken(e, i) == \E j \in Holding(e) \ {i} : rowLock[j] = None
Contended(e, i) == (Holding(e) \ {i}) # {} \/ Unseen(e) # {}

Release(r) == rowLock' = [i \in Request |-> IF rowLock[i] = r THEN None ELSE rowLock[i]]

Rollback(r, outcome) ==
    /\ Release(r)
    /\ Goto(r, outcome)
    /\ UNCHANGED <<users, audit, recording, input, listed, crashes, committed>>

\* findUnique by email: a hit is a ConflictException.
CheckEmail(r) ==
    /\ pc[r] = "check"
    /\ Goto(r, IF Holding(input[r].email) # {} THEN "conflict" ELSE "insert")
    /\ UNCHANGED <<users, rowLock, audit, recording, input, listed, crashes, committed>>

\* user.create: waits for uncommitted writers of the email; a violation of its
\* unique index is an error that no handler turns into a conflict.
InsertRow(r) ==
    LET e == input[r].email
    IN /\ pc[r] = "insert"
       /\ \/ /\ ~Contended(e, r)
             /\ rowLock' = [rowLock EXCEPT ![r] = r]
             /\ Goto(r, IF input[r].op = "create" THEN "commit" ELSE "session")
             /\ UNCHANGED <<users, audit, recording, input, listed, crashes, committed>>
          \/ Taken(e, r) /\ Rollback(r, "error")

\* createSession is a raw INSERT into the tenant's sessions, whose userId
\* references the tenant's own users: the user is not among them.
InsertSession(r) ==
    /\ pc[r] = "session"
    /\ IF r \in Resident[input[r].tenant]
       THEN /\ Goto(r, "commit")
            /\ UNCHANGED <<users, rowLock, audit, recording, input, listed, crashes, committed>>
       ELSE Rollback(r, "error")

----------------------------------------------------------------------------
(* findOne, update, remove and findAll *)

AfterFind(op) == CASE op = "findOne" -> "found"
                   [] op = "update"  -> "updateRow"
                   [] op = "remove"  -> "deleteRow"

\* findUnique by id, in public.users: the tenant plays no part.
FindRow(r) ==
    /\ pc[r] = "find"
    /\ Goto(r, IF users[input[r].id] = None THEN "notFound" ELSE AfterFind(input[r].op))
    /\ UNCHANGED <<users, rowLock, audit, recording, input, listed, crashes, committed>>

\* Mutant of UpdateRow: the row is written back whole, whether it is there or not.
UpdateRowBlindly(r) ==
    LET i == input[r]
    IN /\ pc[r] = "updateRow"
       /\ rowLock[i.id] = None
       /\ i.email = None \/ ~Contended(i.email, i.id)
       /\ rowLock' = [rowLock EXCEPT ![i.id] = r]
       /\ Goto(r, "commit")
       /\ UNCHANGED <<users, audit, recording, input, listed, crashes, committed>>

\* user.update by id: waits for another writer of the row; the row may be gone
\* by then and the new email taken, which are errors.
UpdateRow(r) ==
    LET i == input[r]
    IN /\ pc[r] = "updateRow"
       /\ rowLock[i.id] = None
       /\ \/ /\ users[i.id] # None
             /\ i.email = None \/ ~Contended(i.email, i.id)
             /\ rowLock' = [rowLock EXCEPT ![i.id] = r]
             /\ Goto(r, "commit")
             /\ UNCHANGED <<users, audit, recording, input, listed, crashes, committed>>
          \/ /\ \/ users[i.id] = None
                \/ i.email # None /\ Taken(i.email, i.id)
             /\ Rollback(r, "error")

\* user.delete by id.
DeleteRow(r) ==
    LET i == input[r].id
    IN /\ pc[r] = "deleteRow"
       /\ rowLock[i] = None
       /\ IF users[i] = None
          THEN Rollback(r, "error")
          ELSE /\ rowLock' = [rowLock EXCEPT ![i] = r]
               /\ Goto(r, "commit")
               /\ UNCHANGED <<users, audit, recording, input, listed, crashes, committed>>

\* findAll reads the users of the tenant's own schema.
ReadList(r) ==
    /\ pc[r] = "list"
    /\ listed' = [listed EXCEPT ![r] = Resident[input[r].tenant]]
    /\ Goto(r, "listed")
    /\ UNCHANGED <<users, rowLock, audit, recording, input, crashes, committed>>

----------------------------------------------------------------------------
(* The commit, and the audit record after it *)

Written(r) ==
    LET i == input[r]
    IN CASE i.op \in {"create", "register"}     -> [users EXCEPT ![r] = i.email]
         [] i.op = "update" /\ i.email # None   -> [users EXCEPT ![i.id] = i.email]
         [] i.op = "update" /\ i.email = None   -> users
         [] i.op = "remove"                     -> [users EXCEPT ![i.id] = None]

Outcome(op) == CASE op \in {"create", "register"} -> "created"
                 [] op = "update"                 -> "updated"
                 [] op = "remove"                 -> "removed"

\* COMMIT takes effect.
Commit(r) ==
    /\ pc[r] = "commit"
    /\ users' = Written(r)
    /\ committed' = committed \cup {r}
    /\ Release(r)
    /\ Goto(r, "reply")
    /\ UNCHANGED <<audit, recording, input, listed, crashes>>

\* The commit is acknowledged: the response leaves, and the interceptor's tap
\* starts the audit record of the operations that carry @Audit.  If the
\* acknowledgement is lost, the handler throws and there is no record.
Respond(r) ==
    /\ pc[r] = "reply"
    /\ \/ /\ Goto(r, Outcome(input[r].op))
          /\ recording' = IF input[r].op \in DOMAIN Audited
                          THEN recording \cup {r} ELSE recording
       \/ Goto(r, "error") /\ UNCHANGED recording
    /\ UNCHANGED <<users, rowLock, audit, input, listed, crashes, committed>>

\* Mutant of WriteRecord: the action as the decorator gives it.
WriteRecordAsGiven(r) ==
    /\ r \in recording
    /\ recording' = recording \ {r}
    /\ audit' = audit \cup {[by |-> r, tenant |-> input[r].tenant,
                             action |-> input[r].op, resource |-> None]}
    /\ UNCHANGED <<users, rowLock, pc, input, listed, crashes, committed>>

\* The id of the response is the resource, and remove's response has none.
Resource(r) == CASE input[r].op = "create" -> r
                 [] input[r].op = "update" -> input[r].id
                 [] input[r].op = "remove" -> None

\* AuditService.create, in the schema of the request's own context.
WriteRecord(r) ==
    /\ r \in recording
    /\ recording' = recording \ {r}
    /\ audit' = audit \cup {[by |-> r, tenant |-> input[r].tenant,
                             action |-> Audited[input[r].op], resource |-> Resource(r)]}
    /\ UNCHANGED <<users, rowLock, pc, input, listed, crashes, committed>>

\* The record's transaction fails or times out: logged and forgotten.
DropRecord(r) ==
    /\ r \in recording
    /\ recording' = recording \ {r}
    /\ UNCHANGED <<users, rowLock, audit, pc, input, listed, crashes, committed>>

\* The request's transaction gets no connection or outlives its timeout.
Expire(r) == pc[r] \in Open /\ Rollback(r, "error")

\* The process dies: open transactions roll back, and records under way with
\* them; what has committed stays.
Crash ==
    /\ crashes < MaxCrashes
    /\ crashes' = crashes + 1
    /\ recording # {} \/ \E r \in Request : pc[r] \in InFlight
    /\ pc' = [r \in Request |-> IF pc[r] \in InFlight THEN "lost" ELSE pc[r]]
    /\ rowLock' = [i \in Request |-> None]
    /\ recording' = {}
    /\ UNCHANGED <<users, audit, input, listed, committed>>

Quiescent ==
    /\ \A r \in Request : pc[r] \in Answered \cup {"lost"}
    /\ recording = {}
    /\ UNCHANGED vars

Next ==
    \/ \E r \in Request :
        \/ Arrive(r)
        \/ CheckEmail(r) \/ InsertRow(r) \/ InsertSession(r)
        \/ FindRow(r) \/ UpdateRow(r) \/ DeleteRow(r) \/ ReadList(r)
        \/ Commit(r) \/ Respond(r)
        \/ WriteRecord(r) \/ DropRecord(r) \/ Expire(r)
    \/ Crash
    \/ Quiescent

Spec == Init /\ [][Next]_vars

----------------------------------------------------------------------------
(* Properties *)

Status(label) ==
    CASE label = "idle"                     -> "none"
      [] label \in InFlight                 -> "pending"
      [] label \in Success                  -> "ok"
      [] label \in {"conflict", "notFound"} -> label
      [] OTHER                              -> "refused"

Answer == [r \in Request |-> Status(pc[r])]

Table == INSTANCE UserTable WITH answer <- Answer, done <- committed

\* Checks before writes, waits for the writes of others, timeouts, lost
\* acknowledgements and restarts add up to a table in which every request takes
\* effect at one instant while it is pending, or never: always before it
\* succeeds, at most once if it is refused.  Emails stay unique, and a removed
\* user is not brought back by an update that found it earlier.
\* (users.service.ts 50-136, register 30-77)
ImplementsTable == Table!Spec

\* What a record says was done was done, by a request that was answered with
\* success; the record lies with the tenant of that request, and it names the
\* user created or updated and never the one removed.  (audit.interceptor.ts
\* 28-55, AuditService.create 25-44)
RecordsAreTrue ==
    \A a \in audit :
        LET i == input[a.by]
        IN /\ Audited[i.op] = a.action
           /\ pc[a.by] = Outcome(i.op) /\ a.by \in committed
           /\ a.tenant = i.tenant
           /\ a.resource = CASE a.action = "CREATE" -> a.by
                             [] a.action = "UPDATE" -> i.id
                             [] a.action = "DELETE" -> None

\* The inductive invariant of the proofs.  What the label of a request says
\* about its operation; a registration does not get to its commit.
ControlOK ==
    \A r \in Request :
        /\ pc[r] # "idle" => input[r] \in Input
        /\ pc[r] \in {"check", "insert"} => input[r].op \in {"create", "register"}
        /\ pc[r] = "session" => input[r].op = "register"
        /\ pc[r] = "find" => input[r].op \in {"findOne", "update", "remove"}
        /\ pc[r] = "updateRow" => input[r].op = "update"
        /\ pc[r] = "deleteRow" => input[r].op = "remove"
        /\ pc[r] = "list" => input[r].op = "findAll"
        /\ pc[r] = "commit" => input[r].op \in DOMAIN Audited

\* The row a request writes, and the email it writes there.
Target(r) == IF input[r].op \in {"create", "register"} THEN r ELSE input[r].id
NewEmail(r) == IF input[r].op \in {"create", "register", "update"}
               THEN input[r].email ELSE None

\* A request commits at most once, and before it is answered.
CommitOK ==
    \A r \in Request :
        /\ r \in committed =>
              /\ pc[r] \in {"reply", "created", "updated", "removed", "error", "lost"}
              /\ input[r].op \in DOMAIN Audited
        /\ pc[r] \in {"reply", "created", "updated", "removed"} => r \in committed

RowsOK == \A i \in Request : users[i] # None => i \in committed

\* A transaction that has written holds the lock of its row, which is there.
LocksOK ==
    \A r \in Request : pc[r] \in Writing =>
        /\ rowLock[Target(r)] = r
        /\ input[r].op \in {"update", "remove"} => users[Target(r)] # None

\* An email that is about to be committed is nobody else's, nor about to be.
EmailsOK ==
    \A r \in Request : pc[r] \in Writing /\ NewEmail(r) # None =>
        /\ \A j \in Request \ {Target(r)} : users[j] # NewEmail(r)
        /\ \A q \in Request \ {r} : pc[q] \in Writing => NewEmail(q) # NewEmail(r)

RecordsOK ==
    /\ \A r \in recording :
        r \in committed /\ pc[r] = Outcome(input[r].op)
    /\ RecordsAreTrue

\* All of the above: what the service knows of its own and other transactions
\* between a check and the write that relies on it.  (users.service.ts 50-136)
Inv == TypeOK /\ ControlOK /\ CommitOK /\ RowsOK /\ LocksOK /\ EmailsOK /\ RecordsOK

\* "User registered successfully", "User already exists": a registration that
\* got a connection and ran into no timeout is not refused with an internal
\* error.  (auth.controller.ts 12-29, register 30-77)
RegistrationSucceeds ==
    [][\A r \in Request : InsertSession(r) => pc'[r] # "error"]_vars

\* "User created successfully": a user whose creation was answered is on the
\* list of its tenant's users, unless it was removed.  (users.controller.ts
\* 70-81 and 41-56)
CreatedIsListed ==
    [][\A q, r \in Request :
        /\ ReadList(q)
        /\ pc[r] = "created" /\ users[r] # None
        /\ input[q].tenant = input[r].tenant
        => r \in listed'[q]]_vars
=============================================================================
