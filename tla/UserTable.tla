----------------------------- MODULE UserTable -----------------------------
(***************************************************************************)
(* What users.controller.ts and POST /auth/register promise about users.   *)
(* A request that writes takes effect at one instant while it is pending,  *)
(* and is answered with success only after that; one that is refused, or   *)
(* cut off by a restart, may have taken effect before, and never does      *)
(* afterwards.  No two users have one email address, and a user who was    *)
(* removed stays removed.                                                  *)
(*                                                                         *)
(* The table is that of the Prisma model User (prisma/schema.prisma, email *)
(* @unique), which these operations of all tenants share; a table for each *)
(* tenant, as docs/TESTING_GUIDE.md 272-275 has it, is not what they use.  *)
(***************************************************************************)
CONSTANTS
    Request,   \* requests; a user's id is the request that created it
    None

VARIABLES
    users,     \* email address of each user, None where there is no user
    input,     \* operation, email or id of each request
    answer,    \* state of each request
    done       \* requests that have taken effect

vars == <<users, input, answer, done>>

Init ==
    /\ users = [i \in Request |-> None]
    /\ input = [r \in Request |-> None]
    /\ answer = [r \in Request |-> "none"]
    /\ done = {}

Arrive(r) ==
    /\ answer[r] = "none"
    /\ answer' = [answer EXCEPT ![r] = "pending"]
    /\ \A q \in Request \ {r} : input'[q] = input[q]
    /\ UNCHANGED <<users, done>>

----------------------------------------------------------------------------
(* Requests that write: the effect, and the answer after it *)

Effect(r, ops) ==
    /\ answer[r] = "pending" /\ input[r].op \in ops
    /\ r \notin done
    /\ done' = done \cup {r}
    /\ UNCHANGED <<input, answer>>

InUse(email) == \E i \in Request : users[i] = email

\* A user is created, by an administrator or by registering.
Create(r) ==
    /\ Effect(r, {"create", "register"})
    /\ ~InUse(input[r].email)
    /\ users' = [users EXCEPT ![r] = input[r].email]

\* A change of email, to one not in use, or of anything else.
Update(r) ==
    LET i == input[r]
    IN /\ Effect(r, {"update"})
       /\ users[i.id] # None
       /\ \/ i.email = None /\ UNCHANGED users
          \/ /\ i.email # None
             /\ \A j \in Request \ {i.id} : users[j] # i.email
             /\ users' = [users EXCEPT ![i.id] = i.email]

Remove(r) ==
    /\ Effect(r, {"remove"})
    /\ users[input[r].id] # None
    /\ users' = [users EXCEPT ![input[r].id] = None]

Succeed(r) ==
    /\ answer[r] = "pending" /\ r \in done
    /\ answer' = [answer EXCEPT ![r] = "ok"]
    /\ UNCHANGED <<users, input, done>>

----------------------------------------------------------------------------
(* Answers that go without a write *)

Answer(r, ops, a) ==
    /\ answer[r] = "pending" /\ input[r].op \in ops
    /\ r \notin done
    /\ answer' = [answer EXCEPT ![r] = a]
    /\ UNCHANGED <<users, input, done>>

Conflict(r) ==
    /\ Answer(r, {"create", "register"}, "conflict")
    /\ InUse(input[r].email)

Find(r) ==
    /\ Answer(r, {"findOne"}, "ok")
    /\ users[input[r].id] # None

NotFound(r) ==
    /\ Answer(r, {"findOne", "update", "remove"}, "notFound")
    /\ users[input[r].id] = None

List(r) == Answer(r, {"findAll"}, "ok")

Refuse ==
    /\ \E refused \in SUBSET {r \in Request : answer[r] = "pending"} :
        answer' = [r \in Request |-> IF r \in refused THEN "refused" ELSE answer[r]]
    /\ UNCHANGED <<users, input, done>>

Next ==
    \/ \E r \in Request :
        \/ Arrive(r) \/ Create(r) \/ Update(r) \/ Remove(r) \/ Succeed(r)
        \/ Conflict(r) \/ Find(r) \/ NotFound(r) \/ List(r)
    \/ Refuse

Spec == Init /\ [][Next]_vars
=============================================================================
