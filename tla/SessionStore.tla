---------------------------- MODULE SessionStore ----------------------------
(***************************************************************************)
(* What the auth controller promises about the sessions of a tenant        *)
(* (auth/auth.controller.ts).  A request takes effect at one instant, while *)
(* it is pending: logins and refreshes yield sessions whose tokens are      *)
(* pairwise different, a logout ends every session its user had when it was *)
(* requested.  It is answered with success only after that.  A refused      *)
(* request, or one cut off by a restart, may have taken effect before; if   *)
(* it has not, it never will.                                               *)
(***************************************************************************)
EXTENDS FiniteSets

CONSTANTS
    Request,   \* requests; a session's id is the login that opened it
    Token,     \* refresh tokens, records with a field user
    None

VARIABLES
    sessions,  \* refresh token of each session, None for one that is not open
    input,     \* operation and user of each request
    answer,    \* state of each request
    done,      \* requests that have taken effect
    owed       \* the sessions that a logout has to end

vars == <<sessions, input, answer, done, owed>>

Init ==
    /\ sessions = [i \in Request |-> None]
    /\ answer = [r \in Request |-> "none"]
    /\ done = {}
    /\ owed = [r \in Request |-> {}]

Open == {i \in Request : sessions[i] # None}
OpenFor(r) == {i \in Open : sessions[i].user = input[r].user}

Arrive(r) ==
    /\ answer[r] = "none"
    /\ answer' = [answer EXCEPT ![r] = "pending"]
    /\ owed' = IF input[r].op = "logout" THEN [owed EXCEPT ![r] = OpenFor(r)] ELSE owed
    /\ UNCHANGED <<sessions, input, done>>

\* A pending request takes its effect, once.
Effect(r, op) ==
    /\ answer[r] = "pending" /\ input[r].op = op
    /\ r \notin done
    /\ done' = done \cup {r}
    /\ UNCHANGED <<input, answer, owed>>

\* Session i gets a token of r's user that no other session holds.
Give(i, r) ==
    \E t \in Token :
        /\ t.user = input[r].user
        /\ \A j \in Open \ {i} : sessions[j] # t
        /\ sessions' = [sessions EXCEPT ![i] = t]

Login(r) == Effect(r, "login") /\ sessions[r] = None /\ Give(r, r)

\* A refresh renews a session of its user.  It may come too late for that, but
\* only if its user has logged out.
Refresh(r) ==
    /\ Effect(r, "refresh")
    /\ \/ \E i \in OpenFor(r) : Give(i, r)
       \/ /\ \E q \in done : input[q] = [op |-> "logout", user |-> input[r].user]
          /\ UNCHANGED sessions

\* A logout may also end sessions that were opened while it was pending.
Logout(r) ==
    /\ Effect(r, "logout")
    /\ \E ended \in SUBSET OpenFor(r) :
        /\ owed[r] \cap Open \subseteq ended
        /\ sessions' = [i \in Request |-> IF i \in ended THEN None ELSE sessions[i]]

Succeed(r) ==
    /\ answer[r] = "pending" /\ r \in done
    /\ answer' = [answer EXCEPT ![r] = "ok"]
    /\ UNCHANGED <<sessions, input, done, owed>>

Refuse ==
    /\ \E refused \in SUBSET {r \in Request : answer[r] = "pending"} :
        answer' = [r \in Request |-> IF r \in refused THEN "refused" ELSE answer[r]]
    /\ UNCHANGED <<sessions, input, done, owed>>

Next ==
    \/ \E r \in Request : \/ Arrive(r) \/ Login(r) \/ Refresh(r) \/ Logout(r)
                          \/ Succeed(r)
    \/ Refuse

Spec == Init /\ [][Next]_vars
=============================================================================
