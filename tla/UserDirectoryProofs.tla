------------------------ MODULE UserDirectoryProofs ------------------------
(***************************************************************************)
(* Theorems about UserDirectory, for every set of requests, tenants,       *)
(* residents, emails and inputs, and every bound.                          *)
(***************************************************************************)
EXTENDS UserDirectory, TLAPS

\* The fields that an input of each operation has.
LEMMA InputFields ==
    \A i \in Input :
        /\ i.op \in {"create", "register", "findOne", "remove", "update", "findAll"}
        /\ i.tenant \in Tenant
        /\ i.op \in {"create", "register"} => i.email \in Email
        /\ i.op = "update" => i.email \in Email \cup {None}
        /\ i.op \in {"findOne", "remove", "update"} => i.id \in Request
BY InputAssumption DEF Creation, Lookup, Change, Listing

LEMMA AuditedFields ==
    /\ DOMAIN Audited = {"create", "update", "remove"}
    /\ Audited["create"] = "CREATE"
    /\ Audited["update"] = "UPDATE"
    /\ Audited["remove"] = "DELETE"
BY DEF Audited

LEMMA Outcomes ==
    \A op \in DOMAIN Audited : Outcome(op) \in Success
BY DEF Audited, Outcome, Success

LEMMA Cases ==
    ASSUME NEW r \in Request
    PROVE  /\ input[r].op \in {"create", "register"} =>
                Written(r) = [users EXCEPT ![r] = input[r].email]
           /\ input[r].op = "update" /\ input[r].email # None =>
                Written(r) = [users EXCEPT ![input[r].id] = input[r].email]
           /\ input[r].op = "update" /\ input[r].email = None => Written(r) = users
           /\ input[r].op = "remove" => Written(r) = [users EXCEPT ![input[r].id] = None]
           /\ input[r].op = "create" => Resource(r) = r
           /\ input[r].op = "update" => Resource(r) = input[r].id
           /\ input[r].op = "remove" => Resource(r) = None
BY DEF Written, Resource

LEMMA Recorded ==
    ASSUME Inv
    PROVE  /\ \A r \in recording : r \in committed /\ pc[r] \in Success
           /\ \A a \in audit : /\ a.by \in Request /\ a.by \in committed
                               /\ pc[a.by] \in Success
<1>1. \A r \in committed : r \in Request /\ input[r].op \in DOMAIN Audited
  BY DEF Inv, TypeOK, CommitOK
<1>2. \A a \in audit : a.by \in committed /\ pc[a.by] = Outcome(input[a.by].op)
  BY DEF Inv, RecordsOK, RecordsAreTrue
<1>3. \A r \in recording : r \in committed /\ pc[r] = Outcome(input[r].op)
  BY DEF Inv, RecordsOK
<1> QED
  BY <1>1, <1>2, <1>3, Outcomes

\* A step keeps the truth of the records if it makes none and changes nothing
\* about the requests that were answered with success.
LEMMA RecordsKept ==
    ASSUME Inv, recording' \subseteq recording, audit' = audit,
           committed \subseteq committed',
           \A q \in Request : pc[q] \in Success => pc'[q] = pc[q] /\ input'[q] = input[q]
    PROVE  RecordsOK'
<1>1. \A q \in recording' : q \in committed' /\ pc'[q] = Outcome(input'[q].op)
  BY Recorded DEF Inv, TypeOK, RecordsOK
<1>2. RecordsAreTrue'
  BY Recorded DEF Inv, RecordsOK, RecordsAreTrue
<1> QED
  BY <1>1, <1>2 DEF RecordsOK

\* A request that has not come to its commit has not taken effect.
LEMMA NotDone ==
    ASSUME Inv, NEW r \in Request, pc[r] \in Open
    PROVE  r \notin committed
BY DEF Inv, CommitOK, Open, Writing

\* A step of a request that has not written yet commits nothing.
LEMMA CommitKept ==
    ASSUME Inv, NEW r \in Request, pc[r] \in Open \cup {"idle"}, committed' = committed,
           pc'[r] \notin {"reply", "created", "updated", "removed"},
           \A q \in Request \ {r} : pc'[q] = pc[q] /\ input'[q] = input[q]
    PROVE  CommitOK'
<1>1. r \notin committed
  BY DEF Inv, CommitOK, Open, Writing
<1> QED
  BY <1>1 DEF Inv, CommitOK

----------------------------------------------------------------------------
(* Each action keeps every part of the inductive invariant. *)

LEMMA ArriveStep ==
    ASSUME Inv, NEW r \in Request, Arrive(r)
    PROVE  Inv'
<1>1. TypeOK'
  BY InputFields DEF Inv, Arrive, First, Goto, TypeOK, InFlight, Open
<1>2. ControlOK'
  BY InputFields DEF Inv, Arrive, First, Goto, TypeOK, ControlOK
<1>3. RowsOK'
  BY DEF Inv, Arrive, Goto, RowsOK
<1>4. LocksOK'
  BY InputFields DEF Inv, Arrive, First, Goto, LocksOK, Target, Writing
<1>5. EmailsOK'
  BY DEF Inv, Arrive, First, Goto, TypeOK, EmailsOK, Target, NewEmail, Writing
<1>6. RecordsOK'
  BY RecordsKept DEF Arrive, Goto, Success
<1>7. CommitOK'
  BY CommitKept, InputFields DEF Inv, TypeOK, Arrive, First, Goto
<1> QED
  BY <1>1, <1>2, <1>3, <1>4, <1>5, <1>6, <1>7 DEF Inv

LEMMA CheckEmailStep ==
    ASSUME Inv, NEW r \in Request, CheckEmail(r)
    PROVE  Inv'
<1>1. TypeOK'
  BY DEF Inv, CheckEmail, Goto, TypeOK, InFlight, Open, Answered
<1>2. ControlOK'
  BY DEF Inv, CheckEmail, Goto, ControlOK
<1>3. RowsOK'
  BY DEF Inv, CheckEmail, Goto, RowsOK
<1>4. LocksOK'
  BY DEF Inv, CheckEmail, Goto, LocksOK, Target, Writing
<1>5. EmailsOK'
  BY DEF Inv, CheckEmail, Goto, EmailsOK, Target, NewEmail, Writing
<1>6. RecordsOK'
  BY RecordsKept DEF CheckEmail, Goto, Success
<1>7. CommitOK'
  BY CommitKept DEF Inv, TypeOK, CheckEmail, Goto, Open
<1> QED
  BY <1>1, <1>2, <1>3, <1>4, <1>5, <1>6, <1>7 DEF Inv

LEMMA InsertRowStep ==
    ASSUME Inv, NEW r \in Request, InsertRow(r)
    PROVE  Inv'
<1>1. TypeOK'
  BY DEF Inv, InsertRow, Rollback, Release, Goto, TypeOK, InFlight, Open, Answered, Writing
<1>2. ControlOK'
  BY DEF Inv, InsertRow, Rollback, Goto, TypeOK, ControlOK, Audited
<1>3. RowsOK'
  BY DEF Inv, InsertRow, Rollback, Goto, TypeOK, RowsOK
<1>4. LocksOK'
  <2>1. users[r] = None
    BY NotDone DEF Inv, InsertRow, RowsOK, Open
  <2> QED
    BY <2>1, InputFields DEF Inv, InsertRow, Rollback, Release, Goto, TypeOK, ControlOK,
       LocksOK, Target, Writing, Audited
<1>5. EmailsOK'
  BY DEF Inv, InsertRow, Contended, Holding, Unseen, Rollback, Goto, TypeOK,
     ControlOK, EmailsOK, Target, NewEmail, Writing
<1>6. RecordsOK'
  BY RecordsKept DEF Inv, InsertRow, Rollback, Goto, TypeOK, Success
<1>7. CommitOK'
  BY CommitKept DEF Inv, TypeOK, InsertRow, Rollback, Goto, Open
<1> QED
  BY <1>1, <1>2, <1>3, <1>4, <1>5, <1>6, <1>7 DEF Inv

LEMMA InsertSessionStep ==
    ASSUME Inv, NEW r \in Request, InsertSession(r)
    PROVE  Inv'
<1>1. TypeOK'
  BY DEF Inv, InsertSession, Rollback, Release, Goto, TypeOK, InFlight, Open, Answered,
     Writing
<1>2. ControlOK'
  BY InputFields, ResidentAssumption DEF Inv, InsertSession, Rollback, Goto, TypeOK,
     ControlOK
<1>3. RowsOK'
  BY DEF Inv, InsertSession, Rollback, Goto, TypeOK, RowsOK
<1>4. LocksOK'
  BY InputFields DEF Inv, InsertSession, Rollback, Release, Goto, TypeOK, ControlOK,
     LocksOK, Target, Writing, Audited
<1>5. EmailsOK'
  BY DEF Inv, InsertSession, Rollback, Goto, TypeOK, EmailsOK, Target, NewEmail,
     Writing
<1>6. RecordsOK'
  BY RecordsKept DEF Inv, InsertSession, Rollback, Goto, TypeOK, Success
<1>7. CommitOK'
  BY CommitKept DEF Inv, TypeOK, InsertSession, Rollback, Goto, Open, Writing
<1> QED
  BY <1>1, <1>2, <1>3, <1>4, <1>5, <1>6, <1>7 DEF Inv

LEMMA FindRowStep ==
    ASSUME Inv, NEW r \in Request, FindRow(r)
    PROVE  Inv'
<1>1. TypeOK'
  BY DEF Inv, FindRow, AfterFind, Goto, TypeOK, ControlOK, InFlight, Open, Answered, Success
<1>2. ControlOK'
  BY DEF Inv, FindRow, AfterFind, Goto, ControlOK
<1>3. RowsOK'
  BY DEF Inv, FindRow, Goto, RowsOK
<1>4. LocksOK'
  BY DEF Inv, FindRow, AfterFind, Goto, ControlOK, LocksOK, Target, Writing
<1>5. EmailsOK'
  BY DEF Inv, FindRow, AfterFind, Goto, ControlOK, EmailsOK, Target, NewEmail, Writing
<1>6. RecordsOK'
  BY RecordsKept DEF FindRow, Goto, Success
<1>7. CommitOK'
  BY CommitKept DEF Inv, TypeOK, ControlOK, FindRow, AfterFind, Goto, Open
<1> QED
  BY <1>1, <1>2, <1>3, <1>4, <1>5, <1>6, <1>7 DEF Inv

LEMMA UpdateRowStep ==
    ASSUME Inv, NEW r \in Request, UpdateRow(r)
    PROVE  Inv'
<1>1. TypeOK'
  BY DEF Inv, UpdateRow, Rollback, Release, Goto, TypeOK, InFlight, Open, Answered, Writing
<1>2. ControlOK'
  BY DEF Inv, UpdateRow, Rollback, Goto, TypeOK, ControlOK, Audited
<1>3. RowsOK'
  BY DEF Inv, UpdateRow, Rollback, Goto, TypeOK, RowsOK
<1>4. LocksOK'
  BY InputFields, NoneAssumption DEF Inv, UpdateRow, Rollback, Release, Goto, TypeOK,
     ControlOK, LocksOK, Target, Writing, Audited
<1>5. EmailsOK'
  BY DEF Inv, UpdateRow, Contended, Holding, Unseen, Rollback, Goto, TypeOK,
     ControlOK, EmailsOK, Target, NewEmail, Writing
<1>6. RecordsOK'
  BY RecordsKept DEF Inv, UpdateRow, Rollback, Goto, TypeOK, Success
<1>7. CommitOK'
  BY CommitKept DEF Inv, TypeOK, UpdateRow, Rollback, Goto, Open
<1> QED
  BY <1>1, <1>2, <1>3, <1>4, <1>5, <1>6, <1>7 DEF Inv

LEMMA DeleteRowStep ==
    ASSUME Inv, NEW r \in Request, DeleteRow(r)
    PROVE  Inv'
<1>1. TypeOK'
  BY DEF Inv, DeleteRow, Rollback, Release, Goto, TypeOK, InFlight, Open, Answered, Writing
<1>2. ControlOK'
  BY DEF Inv, DeleteRow, Rollback, Goto, TypeOK, ControlOK, Audited
<1>3. RowsOK'
  BY DEF Inv, DeleteRow, Rollback, Goto, TypeOK, RowsOK
<1>4. LocksOK'
  BY InputFields, NoneAssumption DEF Inv, DeleteRow, Rollback, Release, Goto, TypeOK,
     ControlOK, LocksOK, Target, Writing, Audited
<1>5. EmailsOK'
  BY DEF Inv, DeleteRow, Rollback, Goto, TypeOK, ControlOK, EmailsOK, Target, NewEmail
<1>6. RecordsOK'
  BY RecordsKept DEF Inv, DeleteRow, Rollback, Goto, TypeOK, Success
<1>7. CommitOK'
  BY CommitKept DEF Inv, TypeOK, DeleteRow, Rollback, Goto, Open
<1> QED
  BY <1>1, <1>2, <1>3, <1>4, <1>5, <1>6, <1>7 DEF Inv

LEMMA ReadListStep ==
    ASSUME Inv, NEW r \in Request, ReadList(r)
    PROVE  Inv'
<1>1. TypeOK'
  BY InputFields DEF Inv, ReadList, Goto, TypeOK, ControlOK, Answered, Success
<1>2. ControlOK'
  BY DEF Inv, ReadList, Goto, ControlOK
<1>3. RowsOK'
  BY DEF Inv, ReadList, Goto, RowsOK
<1>4. LocksOK'
  BY DEF Inv, ReadList, Goto, LocksOK, Target, Writing
<1>5. EmailsOK'
  BY DEF Inv, ReadList, Goto, EmailsOK, Target, NewEmail, Writing
<1>6. RecordsOK'
  BY RecordsKept DEF ReadList, Goto, Success
<1>7. CommitOK'
  BY CommitKept DEF Inv, TypeOK, ReadList, Goto, Open
<1> QED
  BY <1>1, <1>2, <1>3, <1>4, <1>5, <1>6, <1>7 DEF Inv

LEMMA CommitStep ==
    ASSUME Inv, NEW r \in Request, Commit(r)
    PROVE  Inv'
<1>1. /\ pc[r] = "commit" /\ input[r] \in Input
      /\ input[r].op \in {"create", "update", "remove"}
      /\ Target(r) \in Request /\ rowLock[Target(r)] = r
  BY InputFields, AuditedFields DEF Inv, Commit, ControlOK, LocksOK, Target, Writing
<1>2. pc' = [pc EXCEPT ![r] = "reply"] /\ r \in committed' /\ committed \subseteq committed'
  BY DEF Commit, Goto
<1>3. PICK e \in Email \cup {None} :
        /\ users' = [users EXCEPT ![Target(r)] = e]
        /\ e \in {None, NewEmail(r), users[Target(r)]}
        /\ NewEmail(r) # None => e = NewEmail(r)
        /\ input[r].op = "remove" => e = None
  <2>1. CASE input[r].op = "create"
    BY <1>1, <2>1, Cases, InputFields DEF Commit, Target, NewEmail
  <2>2. CASE input[r].op = "update" /\ input[r].email # None
    BY <1>1, <2>2, Cases, InputFields DEF Commit, Target, NewEmail
  <2>3. CASE input[r].op = "update" /\ input[r].email = None
    BY <2>3, Cases, NoneAssumption DEF Inv, TypeOK, Commit, NewEmail
  <2>4. CASE input[r].op = "remove"
    BY <2>4, Cases DEF Commit, Target, NewEmail
  <2> QED
    BY <1>1, <2>1, <2>2, <2>3, <2>4
<1>4. TypeOK'
  BY <1>1, <1>2, <1>3 DEF Inv, Commit, Release, TypeOK, InFlight
<1>5. ControlOK'
  BY <1>2 DEF Inv, Commit, TypeOK, ControlOK
<1>6. RowsOK'
  BY <1>1, <1>2, <1>3 DEF Inv, TypeOK, RowsOK, LocksOK, Target, Writing
<1>7. LocksOK'
  <2>1. SUFFICES ASSUME NEW q \in Request, pc'[q] \in Writing
                 PROVE  /\ rowLock'[Target(q)] = q
                        /\ input[q].op \in {"update", "remove"} => users'[Target(q)] # None
    BY DEF Commit, LocksOK, Target
  <2>2. q # r /\ pc[q] \in Writing
    BY <1>2, <2>1 DEF Inv, TypeOK, Writing
  <2>3. /\ Target(q) \in Request /\ rowLock[Target(q)] = q
        /\ input[q].op \in {"update", "remove"} => users[Target(q)] # None
    BY <2>2, InputFields, AuditedFields DEF Inv, ControlOK, LocksOK, Target, Writing
  <2> QED
    BY <1>1, <1>3, <2>2, <2>3 DEF Commit, Release
<1>8. EmailsOK'
  BY <1>2, <1>3 DEF Inv, Commit, EmailsOK, Target, NewEmail, Writing
<1>9. RecordsOK'
  BY <1>1, <1>2, RecordsKept DEF Inv, Commit, TypeOK, Success
<1>10. CommitOK'
  BY <1>1, <1>2, AuditedFields DEF Inv, TypeOK, Commit, CommitOK
<1> QED
  BY <1>4, <1>5, <1>6, <1>7, <1>8, <1>9, <1>10 DEF Inv

LEMMA RespondStep ==
    ASSUME Inv, NEW r \in Request, Respond(r)
    PROVE  Inv'
<1>1. /\ pc[r] = "reply" /\ r \in committed
      /\ input[r].op \in {"create", "update", "remove"}
  BY AuditedFields DEF Inv, CommitOK, Respond
<1>2. PICK l \in {Outcome(input[r].op), "error"} :
        /\ pc' = [pc EXCEPT ![r] = l]
        /\ recording' # recording =>
              l = Outcome(input[r].op) /\ recording' = recording \cup {r}
  <2>1. CASE Goto(r, Outcome(input[r].op)) /\ recording' \in {recording, recording \cup {r}}
    BY <2>1 DEF Goto
  <2>2. CASE Goto(r, "error") /\ UNCHANGED recording
    BY <2>2 DEF Goto
  <2> QED
    BY <2>1, <2>2 DEF Respond
<1>3. l \in {"created", "updated", "removed", "error"}
  BY <1>1 DEF Outcome
<1>4. TypeOK'
  BY <1>2, <1>3 DEF Inv, Respond, TypeOK, Answered, Success
<1>5. ControlOK'
  BY <1>1, <1>2, <1>3 DEF Inv, Respond, TypeOK, ControlOK
<1>6. RowsOK'
  BY DEF Inv, Respond, RowsOK
<1>7. CommitOK'
  BY <1>1, <1>2, <1>3, AuditedFields DEF Inv, Respond, TypeOK, CommitOK
<1>8. LocksOK'
  BY <1>2, <1>3 DEF Inv, Respond, TypeOK, LocksOK, Target, Writing
<1>9. EmailsOK'
  BY <1>2, <1>3 DEF Inv, Respond, TypeOK, EmailsOK, Target, NewEmail, Writing
<1>10. RecordsOK'
  <2>1. \A q \in recording' : q \in committed' /\ pc'[q] = Outcome(input'[q].op)
    <3>1. \A q \in recording : q \in committed /\ q # r /\ pc[q] = Outcome(input[q].op)
      BY <1>1, Recorded DEF Inv, RecordsOK, Success
    <3> QED
      BY <1>1, <1>2, <3>1 DEF Inv, Respond, TypeOK
  <2>2. \A a \in audit : a.by \in Request /\ a.by # r
    BY <1>1, Recorded DEF Success
  <2>3. RecordsAreTrue'
    BY <1>2, <2>2 DEF Inv, Respond, TypeOK, RecordsOK, RecordsAreTrue
  <2> QED
    BY <2>1, <2>3 DEF RecordsOK
<1> QED
  BY <1>4, <1>5, <1>6, <1>7, <1>8, <1>9, <1>10 DEF Inv

LEMMA WriteRecordStep ==
    ASSUME Inv, NEW r \in Request, WriteRecord(r)
    PROVE  Inv'
<1>1. /\ r \in committed /\ pc[r] = Outcome(input[r].op)
      /\ input[r].op \in {"create", "update", "remove"}
      /\ pc[r] # "idle" /\ input[r] \in Input
  BY Recorded, AuditedFields DEF Inv, WriteRecord, ControlOK, CommitOK, RecordsOK, Success
<1> DEFINE a == [by |-> r, tenant |-> input[r].tenant,
                 action |-> Audited[input[r].op], resource |-> Resource(r)]
<1>2. a.resource = CASE a.action = "CREATE" -> r
                     [] a.action = "UPDATE" -> input[r].id
                     [] a.action = "DELETE" -> None
  BY <1>1, Cases, AuditedFields
<1>3. a \in Record
  <2>1. Resource(r) \in Request \cup {None} /\ input[r].tenant \in Tenant
    BY <1>1, Cases, InputFields
  <2>2. Audited[input[r].op] \in {"CREATE", "UPDATE", "DELETE"}
    BY <1>1, AuditedFields
  <2> QED
    BY <2>1, <2>2 DEF Record
<1>4. /\ audit' = audit \cup {a}
      /\ a.by = r /\ a.tenant = input[r].tenant /\ a.action = Audited[input[r].op]
  BY DEF WriteRecord
<1> HIDE DEF a
<1>5. TypeOK'
  BY <1>3, <1>4 DEF Inv, WriteRecord, TypeOK
<1>6. ControlOK' /\ CommitOK' /\ RowsOK' /\ LocksOK' /\ EmailsOK'
  BY DEF Inv, WriteRecord, ControlOK, CommitOK, RowsOK, LocksOK, EmailsOK, Target,
     NewEmail
<1>7. RecordsOK'
  BY <1>1, <1>2, <1>4 DEF Inv, WriteRecord, RecordsOK, RecordsAreTrue
<1> QED
  BY <1>5, <1>6, <1>7 DEF Inv

LEMMA DropRecordStep ==
    ASSUME Inv, NEW r \in Request, DropRecord(r)
    PROVE  Inv'
<1>1. TypeOK'
  BY DEF Inv, DropRecord, TypeOK
<1>2. ControlOK'
  BY DEF Inv, DropRecord, ControlOK
<1>3. RowsOK'
  BY DEF Inv, DropRecord, RowsOK
<1>4. LocksOK'
  BY DEF Inv, DropRecord, LocksOK, Target
<1>5. EmailsOK'
  BY DEF Inv, DropRecord, EmailsOK, Target, NewEmail
<1>6. RecordsOK'
  BY RecordsKept DEF DropRecord
<1>7. CommitOK'
  BY DEF Inv, DropRecord, CommitOK
<1> QED
  BY <1>1, <1>2, <1>3, <1>4, <1>5, <1>6, <1>7 DEF Inv

LEMMA ExpireStep ==
    ASSUME Inv, NEW r \in Request, Expire(r)
    PROVE  Inv'
<1>1. TypeOK'
  BY DEF Inv, Expire, Rollback, Release, Goto, TypeOK, Answered
<1>2. ControlOK'
  BY DEF Inv, Expire, Rollback, Goto, ControlOK, Writing, InFlight, Open
<1>3. RowsOK'
  BY DEF Inv, Expire, Rollback, Goto, RowsOK, Writing, InFlight, Open
<1>4. LocksOK'
  BY InputFields DEF Inv, Expire, Rollback, Release, Goto, TypeOK, ControlOK, LocksOK,
     Target, Writing, Audited
<1>5. EmailsOK'
  BY DEF Inv, Expire, Rollback, Goto, EmailsOK, Target, NewEmail, Writing
<1>6. RecordsOK'
  BY RecordsKept DEF Expire, Rollback, Goto, Success, InFlight, Open, Writing
<1>7. CommitOK'
  BY CommitKept DEF Inv, TypeOK, Expire, Rollback, Goto
<1> QED
  BY <1>1, <1>2, <1>3, <1>4, <1>5, <1>6, <1>7 DEF Inv

LEMMA CrashStep ==
    ASSUME Inv, Crash
    PROVE  Inv'
<1>1. TypeOK'
  BY BoundAssumption DEF Inv, Crash, TypeOK
<1>2. ControlOK'
  BY DEF Inv, Crash, ControlOK, Writing, InFlight, Open
<1>3. RowsOK'
  BY DEF Inv, Crash, RowsOK, Writing, InFlight, Open
<1>4. LocksOK'
  BY DEF Crash, LocksOK, Writing, InFlight, Open
<1>5. EmailsOK'
  BY DEF Crash, EmailsOK, Writing, InFlight, Open
<1>6. RecordsOK'
  BY RecordsKept DEF Crash, Success, InFlight, Open, Writing
<1>7. CommitOK'
  BY DEF Inv, TypeOK, Crash, CommitOK, InFlight, Open, Writing
<1> QED
  BY <1>1, <1>2, <1>3, <1>4, <1>5, <1>6, <1>7 DEF Inv

----------------------------------------------------------------------------
(* The invariance theorems. *)

LEMMA InitInv == Init => Inv
BY BoundAssumption DEF Init, Inv, TypeOK, Writing, ControlOK, CommitOK, RowsOK, LocksOK,
   EmailsOK, RecordsOK, RecordsAreTrue

LEMMA NextInv == Inv /\ [Next]_vars => Inv'
<1> SUFFICES ASSUME Inv, [Next]_vars
             PROVE  Inv'
  OBVIOUS
<1>1. ASSUME NEW r \in Request, Arrive(r)
      PROVE  Inv'
  BY <1>1, ArriveStep
<1>2. ASSUME NEW r \in Request, CheckEmail(r) \/ InsertRow(r) \/ InsertSession(r)
      PROVE  Inv'
  BY <1>2, CheckEmailStep, InsertRowStep, InsertSessionStep
<1>3. ASSUME NEW r \in Request, FindRow(r) \/ UpdateRow(r) \/ DeleteRow(r) \/ ReadList(r)
      PROVE  Inv'
  BY <1>3, FindRowStep, UpdateRowStep, DeleteRowStep, ReadListStep
<1>4. ASSUME NEW r \in Request, \/ Commit(r) \/ Respond(r)
                               \/ WriteRecord(r) \/ DropRecord(r) \/ Expire(r)
      PROVE  Inv'
  BY <1>4, CommitStep, RespondStep, WriteRecordStep, DropRecordStep, ExpireStep
<1>5. CASE Crash
  BY <1>5, CrashStep
<1>6. CASE UNCHANGED vars
  <2>1. TypeOK'
    BY <1>6 DEF vars, Inv, TypeOK
  <2>2. ControlOK' /\ CommitOK' /\ RowsOK' /\ LocksOK' /\ EmailsOK'
    BY <1>6 DEF vars, Inv, ControlOK, CommitOK, RowsOK, LocksOK, EmailsOK, Target,
       NewEmail
  <2>3. RecordsOK'
    BY <1>6, RecordsKept DEF vars
  <2> QED
    BY <2>1, <2>2, <2>3 DEF Inv
<1> QED
  BY <1>1, <1>2, <1>3, <1>4, <1>5, <1>6 DEF Next, Quiescent

\* What a transaction that has written relies on until it commits: its row is
\* there and locked, and nobody else has its email.  (users.service.ts 50-136,
\* register 30-77)
THEOREM DirectoryInvariant == Spec => []Inv
BY InitInv, NextInv, PTL DEF Spec

\* Every variable keeps its type.  (users.service.ts, register, interceptor)
THEOREM TypeCorrect == Spec => []TypeOK
<1>1. Inv => TypeOK
  BY DEF Inv
<1> QED
  BY <1>1, DirectoryInvariant, PTL

\* An audit record tells of a call that took effect and was answered with
\* success, and lies with the tenant it was made through; it names the user
\* created or updated, and never the one removed.  (audit.interceptor.ts
\* 28-55, AuditService.create 25-44)
THEOREM RecordsTrue == Spec => []RecordsAreTrue
<1>1. Inv => RecordsAreTrue
  BY DEF Inv, RecordsOK
<1> QED
  BY <1>1, DirectoryInvariant, PTL

----------------------------------------------------------------------------
(* Every step is a step of the abstract table, or changes nothing of it. *)

LEMMA Statuses ==
    /\ Status("idle") = "none"
    /\ \A l \in InFlight : Status(l) = "pending"
    /\ \A l \in Success : Status(l) = "ok"
    /\ \A l \in {"conflict", "notFound"} : Status(l) = l
    /\ \A l \in {"error", "lost"} : Status(l) = "refused"
BY DEF Status, InFlight, Open, Success, Writing

LEMMA AnswerOf ==
    \A r \in Request :
        /\ pc[r] = "idle" => Answer[r] = "none"
        /\ pc[r] \in InFlight => Answer[r] = "pending"
        /\ pc[r] \in Success => Answer[r] = "ok"
        /\ pc[r] \in {"conflict", "notFound"} => Answer[r] = pc[r]
        /\ pc[r] \in {"error", "lost"} => Answer[r] = "refused"
BY Statuses DEF Answer

LEMMA AnswerOfNext ==
    \A r \in Request :
        /\ pc'[r] = "idle" => Answer'[r] = "none"
        /\ pc'[r] \in InFlight => Answer'[r] = "pending"
        /\ pc'[r] \in Success => Answer'[r] = "ok"
        /\ pc'[r] \in {"conflict", "notFound"} => Answer'[r] = pc'[r]
        /\ pc'[r] \in {"error", "lost"} => Answer'[r] = "refused"
BY Statuses DEF Answer

LEMMA AnswerChange ==
    ASSUME Inv, NEW r \in Request, NEW l, Goto(r, l)
    PROVE  /\ pc'[r] = l
           /\ Answer' = [Answer EXCEPT ![r] = Answer'[r]]
BY DEF Inv, TypeOK, Goto, Answer

LEMMA RollbackRefuses ==
    ASSUME Inv, NEW r \in Request, pc[r] \in InFlight, Rollback(r, "error")
    PROVE  Table!Refuse
<1>1. /\ Answer[r] = "pending" /\ Answer'[r] = "refused"
      /\ UNCHANGED <<users, input, committed>>
  BY AnswerChange, AnswerOf, AnswerOfNext DEF Rollback
<1>2. Answer' = [q \in Request |-> IF q \in {r} THEN "refused" ELSE Answer[q]]
  BY <1>1, AnswerChange DEF Rollback, Answer
<1> QED
  BY <1>1, <1>2 DEF Table!Refuse

LEMMA CommitRefines ==
    ASSUME Inv, NEW r \in Request, Commit(r)
    PROVE  Table!Create(r) \/ Table!Update(r) \/ Table!Remove(r)
<1>1. /\ input[r] \in Input /\ input[r].op \in {"create", "update", "remove"}
      /\ pc[r] \in Writing /\ pc[r] \in InFlight
  BY AuditedFields DEF Inv, Commit, ControlOK, Writing, InFlight, Open
<1>2. /\ Answer[r] = "pending" /\ Answer' = Answer
      /\ r \notin committed /\ committed' = committed \cup {r}
      /\ UNCHANGED input
  <2>1. r \notin committed
    BY DEF Inv, Commit, CommitOK
  <2>2. Answer[r] = "pending" /\ Answer'[r] = "pending"
    BY <1>1, AnswerChange, AnswerOf, AnswerOfNext DEF Commit, InFlight
  <2>3. Answer' = Answer
    BY <2>2, AnswerChange DEF Commit, Answer
  <2> QED
    BY <2>1, <2>2, <2>3 DEF Commit
<1>3. CASE input[r].op = "create"
  <2>1. input[r].email \in Email /\ Target(r) = r /\ NewEmail(r) = input[r].email
    BY <1>1, <1>3, InputFields DEF Target, NewEmail
  <2>2. users[r] = None
    BY <1>2 DEF Inv, RowsOK
  <2>3. \A j \in Request : users[j] # input[r].email
    BY <1>1, <2>1, <2>2, NoneAssumption DEF Inv, EmailsOK
  <2> QED
    BY <1>2, <1>3, <2>3, Cases DEF Commit, Table!Create, Table!Effect, Table!InUse
<1>4. CASE input[r].op = "update"
  <2>1. /\ input[r].email \in Email \cup {None} /\ input[r].id \in Request
        /\ Target(r) = input[r].id /\ NewEmail(r) = input[r].email
    BY <1>1, <1>4, InputFields DEF Target, NewEmail
  <2>2. users[input[r].id] # None
    BY <1>1, <1>4, <2>1 DEF Inv, LocksOK
  <2>3. input[r].email # None =>
            \A j \in Request \ {input[r].id} : users[j] # input[r].email
    BY <1>1, <2>1 DEF Inv, EmailsOK
  <2> QED
    BY <1>2, <1>4, <2>2, <2>3, Cases DEF Commit, Table!Update, Table!Effect
<1>5. CASE input[r].op = "remove"
  <2>1. input[r].id \in Request /\ Target(r) = input[r].id
    BY <1>1, <1>5, InputFields DEF Target
  <2>2. users[input[r].id] # None
    BY <1>1, <1>5, <2>1 DEF Inv, LocksOK
  <2> QED
    BY <1>2, <1>5, <2>2, Cases DEF Commit, Table!Remove, Table!Effect
<1> QED
  BY <1>1, <1>3, <1>4, <1>5

LEMMA RespondRefines ==
    ASSUME Inv, NEW r \in Request, Respond(r)
    PROVE  Table!Succeed(r) \/ Table!Refuse
<1>1. /\ pc[r] \in InFlight /\ Answer[r] = "pending" /\ r \in committed
      /\ input[r].op \in DOMAIN Audited
  BY AnswerOf DEF Inv, Respond, CommitOK, InFlight
<1>2. CASE Goto(r, Outcome(input[r].op))
  <2>1. Answer' = [Answer EXCEPT ![r] = "ok"]
    BY <1>1, <1>2, Outcomes, AnswerChange, AnswerOfNext
  <2> QED
    BY <1>1, <2>1 DEF Respond, Table!Succeed
<1>3. CASE Goto(r, "error")
  <2>1. Answer' = [q \in Request |-> IF q \in {r} THEN "refused" ELSE Answer[q]]
    BY <1>3, AnswerChange, AnswerOfNext DEF Answer
  <2> QED
    BY <1>1, <2>1 DEF Respond, Table!Refuse
<1> QED
  BY <1>2, <1>3 DEF Respond

LEMMA CheckEmailRefines ==
    ASSUME Inv, NEW r \in Request, CheckEmail(r)
    PROVE  Table!Conflict(r) \/ UNCHANGED Table!vars
<1>1. /\ pc[r] \in InFlight /\ Answer[r] = "pending" /\ r \notin committed
      /\ input[r].op \in {"create", "register"}
  BY AnswerOf, NotDone DEF Inv, CheckEmail, ControlOK, InFlight, Open
<1>2. CASE Holding(input[r].email) # {}
  <2>1. Answer' = [Answer EXCEPT ![r] = "conflict"]
    BY <1>2, AnswerChange, AnswerOfNext DEF CheckEmail
  <2>2. Table!InUse(input[r].email)
    BY <1>2 DEF Holding, Table!InUse
  <2> QED
    BY <1>1, <2>1, <2>2 DEF CheckEmail, Table!Conflict, Table!Answer
<1>3. CASE Holding(input[r].email) = {}
  <2>1. Answer'[r] = "pending"
    BY <1>3, AnswerChange, AnswerOfNext DEF CheckEmail, InFlight, Open
  <2>2. Answer' = Answer
    BY <1>1, <2>1, AnswerChange DEF CheckEmail, Answer
  <2> QED
    BY <2>2 DEF CheckEmail, Table!vars
<1> QED
  BY <1>2, <1>3

LEMMA InsertRowRefines ==
    ASSUME Inv, NEW r \in Request, InsertRow(r)
    PROVE  Table!Refuse \/ UNCHANGED Table!vars
<1>1. pc[r] \in InFlight /\ Answer[r] = "pending"
  BY AnswerOf DEF InsertRow, InFlight, Open
<1>2. CASE Rollback(r, "error")
  BY <1>1, <1>2, RollbackRefuses
<1>3. CASE /\ Goto(r, IF input[r].op = "create" THEN "commit" ELSE "session")
           /\ UNCHANGED <<users, input, committed>>
  <2>1. Answer'[r] = "pending"
    BY <1>3, AnswerChange, AnswerOfNext DEF InFlight, Open, Writing
  <2>2. Answer' = Answer
    BY <1>1, <1>3, <2>1, AnswerChange DEF Answer
  <2> QED
    BY <1>3, <2>2 DEF Table!vars
<1> QED
  BY <1>2, <1>3 DEF InsertRow

LEMMA UpdateOrDeleteRefines ==
    ASSUME Inv, NEW r \in Request, UpdateRow(r) \/ DeleteRow(r)
    PROVE  Table!Refuse \/ UNCHANGED Table!vars
<1>1. pc[r] \in InFlight /\ Answer[r] = "pending"
  BY AnswerOf DEF UpdateRow, DeleteRow, InFlight, Open
<1>2. CASE Rollback(r, "error")
  BY <1>1, <1>2, RollbackRefuses
<1>3. CASE Goto(r, "commit") /\ UNCHANGED <<users, input, committed>>
  <2>1. Answer'[r] = "pending"
    BY <1>3, AnswerChange, AnswerOfNext DEF InFlight, Open, Writing
  <2>2. Answer' = Answer
    BY <1>1, <1>3, <2>1, AnswerChange DEF Answer
  <2> QED
    BY <1>3, <2>2 DEF Table!vars
<1> QED
  BY <1>2, <1>3 DEF UpdateRow, DeleteRow

LEMMA InsertSessionRefines ==
    ASSUME Inv, NEW r \in Request, InsertSession(r)
    PROVE  Table!Refuse
<1>1. pc[r] \in InFlight /\ input[r] \in Input
  BY DEF Inv, InsertSession, ControlOK, InFlight, Open, Writing
<1>2. r \notin Resident[input[r].tenant]
  BY <1>1, InputFields, ResidentAssumption
<1> QED
  BY <1>1, <1>2, RollbackRefuses DEF InsertSession

LEMMA FindRowRefines ==
    ASSUME Inv, NEW r \in Request, FindRow(r)
    PROVE  Table!Find(r) \/ Table!NotFound(r) \/ UNCHANGED Table!vars
<1>1. /\ pc[r] \in InFlight /\ Answer[r] = "pending" /\ r \notin committed
      /\ input[r].op \in {"findOne", "update", "remove"}
  BY AnswerOf, NotDone DEF Inv, FindRow, ControlOK, InFlight, Open
<1>2. CASE users[input[r].id] = None
  <2>1. Answer' = [Answer EXCEPT ![r] = "notFound"]
    BY <1>2, AnswerChange, AnswerOfNext DEF FindRow
  <2> QED
    BY <1>1, <1>2, <2>1 DEF FindRow, Table!NotFound, Table!Answer
<1>3. CASE users[input[r].id] # None /\ input[r].op = "findOne"
  <2>1. Answer' = [Answer EXCEPT ![r] = "ok"]
    BY <1>3, AnswerChange, AnswerOfNext DEF FindRow, AfterFind, Success
  <2> QED
    BY <1>1, <1>3, <2>1 DEF FindRow, Table!Find, Table!Answer
<1>4. CASE users[input[r].id] # None /\ input[r].op # "findOne"
  <2>1. Answer'[r] = "pending"
    BY <1>1, <1>4, AnswerChange, AnswerOfNext DEF FindRow, AfterFind, InFlight, Open
  <2>2. Answer' = Answer
    BY <1>1, <2>1, AnswerChange DEF FindRow, Answer
  <2> QED
    BY <2>2 DEF FindRow, Table!vars
<1> QED
  BY <1>2, <1>3, <1>4

LEMMA ArriveRefines ==
    ASSUME Inv, NEW r \in Request, Arrive(r)
    PROVE  Table!Arrive(r)
<1>1. PICK i \in Input : input' = [input EXCEPT ![r] = i] /\ Goto(r, First(i.op))
  BY DEF Arrive
<1>2. First(i.op) \in InFlight
  BY InputFields DEF First, InFlight, Open
<1>3. Answer[r] = "none" /\ Answer' = [Answer EXCEPT ![r] = "pending"]
  BY <1>1, <1>2, AnswerOf, AnswerOfNext, AnswerChange DEF Arrive
<1> QED
  BY <1>3 DEF Arrive, Table!Arrive

LEMMA ReadListRefines ==
    ASSUME Inv, NEW r \in Request, ReadList(r)
    PROVE  Table!List(r)
<1>1. Answer[r] = "pending" /\ input[r].op = "findAll" /\ r \notin committed
  BY AnswerOf, NotDone DEF Inv, ReadList, ControlOK, InFlight, Open
<1>2. Answer' = [Answer EXCEPT ![r] = "ok"]
  BY AnswerChange, AnswerOfNext DEF ReadList, Success
<1> QED
  BY <1>1, <1>2 DEF ReadList, Table!List, Table!Answer

LEMMA CrashRefines ==
    ASSUME Inv, Crash
    PROVE  Table!Refuse
<1> DEFINE refused == {r \in Request : Answer[r] = "pending"}
<1>1. \A r \in Request : pc[r] \in InFlight <=> Answer[r] = "pending"
  BY Statuses DEF Inv, TypeOK, Answer, Answered
<1>2. Answer' = [r \in Request |-> IF r \in refused THEN "refused" ELSE Answer[r]]
  <2>1. ASSUME NEW r \in Request, pc[r] \in InFlight
        PROVE  Answer'[r] = "refused"
    BY <2>1, AnswerOfNext DEF Crash
  <2>2. ASSUME NEW r \in Request, pc[r] \notin InFlight
        PROVE  Answer'[r] = Answer[r]
    BY <2>2 DEF Crash, Answer
  <2> QED
    BY <1>1, <2>1, <2>2 DEF Answer
<1> QED
  BY <1>2 DEF Crash, Table!Refuse

LEMMA RecordRefines ==
    ASSUME NEW r \in Request, WriteRecord(r) \/ DropRecord(r)
    PROVE  UNCHANGED Table!vars
BY DEF WriteRecord, DropRecord, Answer, Table!vars

LEMMA StepRefines == Inv /\ [Next]_vars => [Table!Next]_Table!vars
<1> SUFFICES ASSUME Inv, [Next]_vars
             PROVE  [Table!Next]_Table!vars
  OBVIOUS
<1>1. ASSUME NEW r \in Request,
             Arrive(r) \/ CheckEmail(r) \/ InsertRow(r) \/ InsertSession(r)
      PROVE  [Table!Next]_Table!vars
  BY <1>1, ArriveRefines, CheckEmailRefines, InsertRowRefines, InsertSessionRefines
     DEF Table!Next
<1>2. ASSUME NEW r \in Request, FindRow(r) \/ UpdateRow(r) \/ DeleteRow(r) \/ ReadList(r)
      PROVE  [Table!Next]_Table!vars
  BY <1>2, FindRowRefines, UpdateOrDeleteRefines, ReadListRefines DEF Table!Next
<1>3. ASSUME NEW r \in Request, \/ Commit(r) \/ Respond(r)
                               \/ WriteRecord(r) \/ DropRecord(r) \/ Expire(r)
      PROVE  [Table!Next]_Table!vars
  BY <1>3, CommitRefines, RespondRefines, RecordRefines, RollbackRefuses
     DEF Expire, InFlight, Table!Next
<1>4. CASE Crash
  BY <1>4, CrashRefines DEF Table!Next
<1>5. CASE UNCHANGED vars
  BY <1>5 DEF vars, Answer, Table!vars
<1> QED
  BY <1>1, <1>2, <1>3, <1>4, <1>5 DEF Next, Quiescent

\* The operations of the users controller and registration, with their checks
\* apart from their writes, with timeouts, lost acknowledgements and restarts,
\* are a table of users: a request takes effect at one instant while it is
\* pending, before any success and at most once.  (users.service.ts 50-136, register 30-77)
THEOREM TableImplemented == Spec => ImplementsTable
<1>1. Init => Table!Init
  BY Statuses DEF Init, Table!Init, Answer
<1> QED
  BY <1>1, InitInv, NextInv, StepRefines, PTL DEF Spec, ImplementsTable, Table!Spec
=============================================================================
