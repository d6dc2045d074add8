--------------------------- MODULE TenantSessions ---------------------------
(***************************************************************************)
(* Login, refresh and logout (auth/auth.service.ts) in one tenant's schema *)
(* over TenantPrismaService.run (prisma/tenant-prisma.service.ts), with the *)
(* nested transaction of AuditService.create (audit/audit.service.ts).     *)
(*                                                                         *)
(* run opens an interactive transaction on one connection of a pool.  A    *)
(* request waits at most maxWait for a connection, and a transaction lives *)
(* at most its timeout; both end in an error.  Transactions are READ       *)
(* COMMITTED: a statement sees what is committed when it runs, a write     *)
(* waits for the uncommitted writer of the same row or unique key.  Once   *)
(* COMMIT has taken effect the answer is still to come: the acknowledgement *)
(* may be lost, which the client sees as an error, or the process may die.  *)
(*                                                                         *)
(* A refresh token is a JWT without a jti: it is determined by its user    *)
(* and the second it was signed in.  The id of a session is the login      *)
(* request that inserted it; its user is the user of its token; and its    *)
(* expiresAt is SessionLife after its token was signed, for both come from *)
(* one reading of the clock.                                               *)
(***************************************************************************)
EXTENDS Naturals, FiniteSets

CONSTANTS
    Request,      \* HTTP requests to the auth controller
    User,         \* ACTIVE users of the tenant
    Input,        \* operations requested, and for which user
    None,
    Pool,         \* connections of TenantPrismaService's pool
    TokenLife,    \* JWT_REFRESH_EXPIRES_IN, in ticks
    SessionLife,  \* the 7 days of sessions.expiresAt, in ticks
    MaxNow,       \* bound: ticks of the clock
    MaxCrashes    \* bound: restarts of the Node process

ASSUME InputAssumption ==
    Input \subseteq [op : {"login", "refresh", "logout"}, user : User]
ASSUME BoundAssumption ==
    /\ Pool \in Nat \ {0}
    /\ TokenLife \in Nat /\ SessionLife \in Nat
    /\ MaxNow \in Nat /\ MaxCrashes \in Nat

Token == [user : User, iat : 0..MaxNow]

ASSUME NoneAssumption == None \notin Request \cup Token

VARIABLES
    sessions,   \* refreshToken of each committed row of "sessions"
    rowLock,    \* the uncommitted writer of each session row
    userLock,   \* the uncommitted writer of each user row (lastLoginAt)
    audit,      \* requests with a committed LOGIN or LOGOUT record
    pc,         \* next statement of each request, or its outcome
    input,      \* operation and user of each request
    presented,  \* the refresh token a refresh request carries
    session,    \* id of the session a refresh found
    targets,    \* ids of the sessions a logout's DELETE found
    token,      \* the refresh token a request signed
    now,        \* clock, in the seconds of iat
    crashes,    \* restarts so far
    committed,  \* history: requests whose transaction has committed
    before,     \* history: the user's sessions when a logout request arrived
    stale       \* history: refreshes that arrived with a token already dead

db == <<sessions, rowLock, userLock, audit>>
locals == <<presented, session, targets, token>>
history == <<committed, before, stale>>
vars == <<db, pc, input, locals, now, crashes, history>>

\* Labels at which the request's own transaction holds a connection, and those
\* at which its audit transaction does.
InOwn == {"authEnd", "select", "updateUser", "sign", "insert", "update",
          "purge", "snapshot", "delete", "auditBegin", "auditInsert", "commit"}
InAudit == {"auditInsert", "lateAuditInsert"}
Waiting == {"authBegin", "begin", "auditBegin", "lateAuditBegin"}
InFlight == InOwn \cup InAudit \cup Waiting \cup {"verify", "reply"}
Committed == {"reply", "loggedIn", "refreshed", "loggedOut"}
Answered == {"loggedIn", "refreshed", "loggedOut", "unauthorized", "error"}

InUse == Cardinality({r \in Request : pc[r] \in InOwn})
         + Cardinality({r \in Request : pc[r] \in InAudit})

TypeOK ==
    /\ sessions \in [Request -> Token \cup {None}]
    /\ rowLock \in [Request -> Request \cup {None}]
    /\ userLock \in [User -> Request \cup {None}]
    /\ audit \subseteq Request
    /\ pc \in [Request -> InFlight \cup Answered \cup {"idle", "lost"}]
    /\ input \in [Request -> Input]
    /\ presented \in [Request -> Token \cup {None}]
    /\ session \in [Request -> Request \cup {None}]
    /\ targets \in [Request -> SUBSET Request]
    /\ token \in [Request -> Token \cup {None}]
    /\ now \in 0..MaxNow
    /\ crashes \in 0..MaxCrashes
    /\ committed \subseteq Request
    /\ before \in [Request -> SUBSET Request]
    /\ stale \subseteq Request

Init ==
    /\ sessions = [i \in Request |-> None]
    /\ rowLock = [i \in Request |-> None]
    /\ userLock = [u \in User |-> None]
    /\ audit = {}
    /\ pc = [r \in Request |-> "idle"]
    /\ input \in [Request -> Input]
    /\ presented = [r \in Request |-> None]
    /\ session = [r \in Request |-> None]
    /\ targets = [r \in Request |-> {}]
    /\ token = [r \in Request |-> None]
    /\ now = 0
    /\ crashes = 0
    /\ committed = {}
    /\ before = [r \in Request |-> {}]
    /\ stale = {}

Goto(r, label) == pc' = [pc EXCEPT ![r] = label]

Live == {i \in Request : sessions[i] # None}
Of(u) == {i \in Live : sessions[i].user = u}
Holding(t) == {i \in Live : sessions[i] = t}

\* Refresh tokens that some client received.
Issued == {token[q] : q \in {p \in Request : pc[p] \in {"loggedIn", "refreshed"}}}

\* Requests that wrote a token which is not committed yet.
Writing(t) ==
    {r \in Request :
        /\ token[r] = t
        /\ \/ input[r].op = "login" /\ pc[r] \in {"auditBegin", "auditInsert", "commit"}
           \/ /\ input[r].op = "refresh" /\ pc[r] = "commit"
              /\ rowLock[session[r]] = r}

\* No session holds t, and none ever will again: t was signed in an earlier
\* second and no request that signed it can still commit it.
Dead(t) ==
    /\ t.iat < now
    /\ Holding(t) = {}
    /\ \A q \in Request : token[q] = t => pc[q] \notin InFlight \/ q \in committed

----------------------------------------------------------------------------
(* Arrival, and the guard in front of logout *)

Login(r) ==
    /\ pc[r] = "idle" /\ input[r].op = "login"
    /\ Goto(r, "begin")
    /\ UNCHANGED <<db, input, locals, now, crashes, history>>

\* A client presents a refresh token it received at some time.
Refresh(r) ==
    /\ pc[r] = "idle" /\ input[r].op = "refresh"
    /\ \E t \in Issued :
        /\ t.user = input[r].user
        /\ presented' = [presented EXCEPT ![r] = t]
        /\ stale' = IF Dead(t) THEN stale \cup {r} ELSE stale
    /\ Goto(r, "verify")
    /\ UNCHANGED <<db, input, session, targets, token, now, crashes, committed, before>>

\* A client that logged in presents its access token.
Logout(r) ==
    /\ pc[r] = "idle" /\ input[r].op = "logout"
    /\ \E t \in Issued : t.user = input[r].user
    /\ Goto(r, "authBegin")
    /\ before' = [before EXCEPT ![r] = Of(input[r].user)]
    /\ UNCHANGED <<db, input, locals, now, crashes, committed, stale>>

\* verifyAsync, outside any transaction.
Verify(r) ==
    /\ pc[r] = "verify"
    /\ Goto(r, IF now < presented[r].iat + TokenLife THEN "begin" ELSE "unauthorized")
    /\ UNCHANGED <<db, input, locals, now, crashes, history>>

\* run: the transaction starts once a connection is free.
Open(r) ==
    /\ InUse < Pool
    /\ \/ pc[r] = "authBegin" /\ Goto(r, "authEnd")
       \/ pc[r] = "begin" /\ Goto(r, IF input[r].op = "logout" THEN "snapshot" ELSE "select")
       \/ pc[r] = "auditBegin" /\ Goto(r, "auditInsert")
       \/ pc[r] = "lateAuditBegin" /\ Goto(r, "lateAuditInsert")
    /\ UNCHANGED <<db, input, locals, now, crashes, history>>

\* JwtStrategy.validate reads the user and its roles, and its transaction ends.
Authenticated(r) ==
    /\ pc[r] = "authEnd"
    /\ Goto(r, "begin")
    /\ UNCHANGED <<db, input, locals, now, crashes, history>>

----------------------------------------------------------------------------
(* login *)

\* The user is found and the password compared; a mismatch rolls back.
SelectUser(r) ==
    /\ pc[r] = "select" /\ input[r].op = "login"
    /\ Goto(r, "updateUser") \/ Goto(r, "unauthorized")
    /\ UNCHANGED <<db, input, locals, now, crashes, history>>

\* UPDATE users SET lastLoginAt: waits for another writer of the user's row.
UpdateUser(r) ==
    /\ pc[r] = "updateUser"
    /\ userLock[input[r].user] = None
    /\ userLock' = [userLock EXCEPT ![input[r].user] = r]
    /\ Goto(r, "sign")
    /\ UNCHANGED <<sessions, rowLock, audit, input, locals, now, crashes, history>>

\* Mutant of Sign: the lifetime of the token added to its issue time.
SignWithExpiry(r) ==
    /\ pc[r] = "sign"
    /\ token' = [token EXCEPT ![r] = [user |-> input[r].user, iat |-> now + TokenLife]]
    /\ Goto(r, IF input[r].op = "login" THEN "insert" ELSE "update")
    /\ UNCHANGED <<db, input, presented, session, targets, now, crashes, history>>

\* generateTokens, for login and refresh.
Sign(r) ==
    /\ pc[r] = "sign"
    /\ token' = [token EXCEPT ![r] = [user |-> input[r].user, iat |-> now]]
    /\ Goto(r, IF input[r].op = "login" THEN "insert" ELSE "update")
    /\ UNCHANGED <<db, input, presented, session, targets, now, crashes, history>>

\* A row other than i holds t, or will if its writer commits.
Taken(t, i) == \E j \in Holding(t) \ {i} : rowLock[j] = None
Contended(t, i, r) == (Holding(t) \ {i}) # {} \/ (Writing(t) \ {r}) # {}

Release(r) ==
    /\ rowLock' = [i \in Request |-> IF rowLock[i] = r THEN None ELSE rowLock[i]]
    /\ userLock' = [u \in User |-> IF userLock[u] = r THEN None ELSE userLock[u]]

Rollback(r, outcome) ==
    /\ Release(r)
    /\ Goto(r, outcome)

\* Mutant of InsertSession: "refreshToken" without its unique index.
InsertSessionUnindexed(r) ==
    /\ pc[r] = "insert"
    /\ Goto(r, "auditBegin")
    /\ UNCHANGED <<db, input, locals, now, crashes, history>>

\* INSERT INTO sessions: "refreshToken" is UNIQUE; the row becomes visible at
\* the commit.
InsertSession(r) ==
    /\ pc[r] = "insert"
    /\ \/ /\ ~Contended(token[r], r, r)
          /\ Goto(r, "auditBegin")
          /\ UNCHANGED <<rowLock, userLock>>
       \/ /\ Taken(token[r], r)
          /\ Rollback(r, "error")
    /\ UNCHANGED <<sessions, audit, input, locals, now, crashes, history>>

----------------------------------------------------------------------------
(* refresh *)

Expired(i) == sessions[i].iat + SessionLife < now

\* Mutant of SelectSession: any session of the token's user will do.
SelectSessionByUser(r) ==
    /\ pc[r] = "select" /\ input[r].op = "refresh"
    /\ \/ \E i \in Of(input[r].user) :
            /\ session' = [session EXCEPT ![r] = i]
            /\ Goto(r, IF Expired(i) THEN "purge" ELSE "sign")
       \/ /\ Of(input[r].user) = {}
          /\ Goto(r, "unauthorized")
          /\ UNCHANGED session
    /\ UNCHANGED <<db, input, presented, targets, token, now, crashes, history>>

\* The session is looked up by the presented token, its user is read, and its
\* expiry is compared with the clock.
SelectSession(r) ==
    /\ pc[r] = "select" /\ input[r].op = "refresh"
    /\ \/ \E i \in Holding(presented[r]) :
            /\ session' = [session EXCEPT ![r] = i]
            /\ Goto(r, IF Expired(i) THEN "purge" ELSE "sign")
       \/ /\ Holding(presented[r]) = {}
          /\ Goto(r, "unauthorized")
          /\ UNCHANGED session
    /\ UNCHANGED <<db, input, presented, targets, token, now, crashes, history>>

\* DELETE of the expired session, then the exception: the transaction that
\* deleted it rolls back.
Purge(r) ==
    /\ pc[r] = "purge"
    /\ rowLock[session[r]] = None
    /\ Goto(r, "unauthorized")
    /\ UNCHANGED <<db, input, locals, now, crashes, history>>

\* Mutant of UpdateSession: an upsert, which writes the row again if it is gone.
UpsertSession(r) ==
    LET i == session[r]
    IN /\ pc[r] = "update"
       /\ rowLock[i] = None
       /\ ~Contended(token[r], i, r)
       /\ rowLock' = [rowLock EXCEPT ![i] = r]
       /\ Goto(r, "commit")
       /\ UNCHANGED <<sessions, userLock, audit, input, locals, now, crashes, history>>

\* UPDATE sessions ... WHERE id: waits for another writer of the row, then
\* looks at the row again.  A row that is gone is not an error, and the
\* number of rows updated is not looked at.
UpdateSession(r) ==
    LET i == session[r]
    IN /\ pc[r] = "update"
       /\ rowLock[i] = None
       /\ \/ /\ i \notin Live
             /\ Goto(r, "commit")
             /\ UNCHANGED <<rowLock, userLock>>
          \/ /\ i \in Live
             /\ ~Contended(token[r], i, r)
             /\ rowLock' = [rowLock EXCEPT ![i] = r]
             /\ Goto(r, "commit")
             /\ UNCHANGED userLock
          \/ /\ i \in Live
             /\ Taken(token[r], i)
             /\ Rollback(r, "error")
       /\ UNCHANGED <<sessions, audit, input, locals, now, crashes, history>>

----------------------------------------------------------------------------
(* logout *)

\* DELETE FROM sessions WHERE userId: the rows its snapshot holds ...
SnapshotSessions(r) ==
    /\ pc[r] = "snapshot"
    /\ targets' = [targets EXCEPT ![r] = Of(input[r].user)]
    /\ Goto(r, "delete")
    /\ UNCHANGED <<db, input, presented, session, token, now, crashes, history>>

\* ... are deleted once no uncommitted writer is left on them.
DeleteSessions(r) ==
    /\ pc[r] = "delete"
    /\ \A i \in targets[r] : rowLock[i] = None
    /\ rowLock' = [i \in Request |-> IF i \in targets[r] \cap Live THEN r ELSE rowLock[i]]
    /\ Goto(r, "auditBegin")
    /\ UNCHANGED <<sessions, userLock, audit, input, locals, now, crashes, history>>

----------------------------------------------------------------------------
(* The nested audit transaction, and the commit *)

\* AuditService.create commits on a connection of its own.
InsertAudit(r) ==
    /\ pc[r] \in {"auditInsert", "lateAuditInsert"}
    /\ audit' = audit \cup {r}
    /\ Goto(r, IF pc[r] = "auditInsert" THEN "commit" ELSE "error")
    /\ UNCHANGED <<sessions, rowLock, userLock, input, locals, now, crashes, history>>

\* COMMIT takes effect; the answer is sent by a later step.
Commit(r) ==
    /\ pc[r] = "commit"
    /\ committed' = committed \cup {r}
    /\ Release(r)
    /\ Goto(r, "reply")
    /\ UNCHANGED <<audit, input, locals, now, crashes, before, stale>>

CommitLogin(r) ==
    /\ input[r].op = "login"
    /\ Commit(r)
    /\ sessions' = [sessions EXCEPT ![r] = token[r]]

CommitRefresh(r) ==
    /\ input[r].op = "refresh"
    /\ Commit(r)
    /\ sessions' = IF rowLock[session[r]] = r
                   THEN [sessions EXCEPT ![session[r]] = token[r]] ELSE sessions

CommitLogout(r) ==
    /\ input[r].op = "logout"
    /\ Commit(r)
    /\ sessions' = [i \in Request |-> IF rowLock[i] = r THEN None ELSE sessions[i]]

\* The COMMIT is acknowledged, run returns and the client is answered; or the
\* acknowledgement is lost and run throws.
Reply(r) ==
    /\ pc[r] = "reply"
    /\ \/ Goto(r, CASE input[r].op = "login"   -> "loggedIn"
                     [] input[r].op = "refresh" -> "refreshed"
                     [] input[r].op = "logout"  -> "loggedOut")
       \/ Goto(r, "error")
    /\ UNCHANGED <<db, input, locals, now, crashes, history>>

----------------------------------------------------------------------------
(* Timeouts, restarts, the clock *)

\* maxWait passes while the pool is exhausted.  An audit record is dropped
\* without failing its request; anything else fails.
GiveUp(r) ==
    /\ InUse >= Pool
    /\ \/ pc[r] \in {"authBegin", "begin", "lateAuditBegin"} /\ Goto(r, "error")
       \/ pc[r] = "auditBegin" /\ Goto(r, "commit")
    /\ UNCHANGED <<db, input, locals, now, crashes, history>>

\* The transaction's timeout passes: it is rolled back at once, its next
\* statement or its commit fails.  An audit transaction already under way is
\* another transaction and goes on.
Expire(r) ==
    /\ pc[r] \in InOwn
    /\ Rollback(r, CASE pc[r] = "auditBegin" -> "lateAuditBegin"
                     [] pc[r] = "auditInsert" -> "lateAuditInsert"
                     [] OTHER -> "error")
    /\ UNCHANGED <<sessions, audit, input, locals, now, crashes, history>>

\* Mutant of Timeout: no limit on a transaction's life, and an audit record
\* that finds the pool exhausted is tried again.
TimeoutRetrying(r) ==
    /\ InUse >= Pool
    /\ \/ pc[r] \in {"authBegin", "begin", "lateAuditBegin"} /\ Goto(r, "error")
       \/ pc[r] = "auditBegin" /\ Goto(r, "auditBegin")
    /\ UNCHANGED <<db, input, locals, now, crashes, history>>

Timeout(r) == GiveUp(r) \/ Expire(r)

\* The process dies: open transactions roll back, what was committed stays, and
\* nothing is resumed.
Crash ==
    /\ crashes < MaxCrashes
    /\ crashes' = crashes + 1
    /\ \E r \in Request : pc[r] \in InFlight
    /\ pc' = [r \in Request |-> IF pc[r] \in InFlight THEN "lost" ELSE pc[r]]
    /\ rowLock' = [i \in Request |-> None]
    /\ userLock' = [u \in User |-> None]
    /\ UNCHANGED <<sessions, audit, input, locals, now, history>>

Tick ==
    /\ now < MaxNow
    /\ now' = now + 1
    /\ UNCHANGED <<db, pc, input, locals, crashes, history>>

\* Every request is answered, lost, or not made.
Quiescent ==
    /\ \A r \in Request : pc[r] \notin InFlight
    /\ UNCHANGED vars

Statement(r) ==
    \/ Verify(r) \/ Open(r) \/ Authenticated(r)
    \/ SelectUser(r) \/ UpdateUser(r) \/ Sign(r) \/ InsertSession(r)
    \/ SelectSession(r) \/ Purge(r) \/ UpdateSession(r)
    \/ SnapshotSessions(r) \/ DeleteSessions(r)
    \/ InsertAudit(r) \/ CommitLogin(r) \/ CommitRefresh(r) \/ CommitLogout(r)
    \/ Reply(r)

Next ==
    \/ \E r \in Request : \/ Login(r) \/ Refresh(r) \/ Logout(r)
                          \/ Statement(r) \/ Timeout(r)
    \/ Crash
    \/ Tick
    \/ Quiescent

Spec == Init /\ [][Next]_vars

\* The event loop and PostgreSQL run every statement that can run, and Prisma's
\* two timers fire; requests, ticks and crashes need not happen.
Fairness == \A r \in Request : WF_vars(Statement(r)) /\ WF_vars(Timeout(r))

FairSpec == Spec /\ Fairness

----------------------------------------------------------------------------
(* Properties *)

\* "Invalidate all user sessions": once a logout is answered with success,
\* every session its user had when the request arrived is gone for good,
\* whatever refreshes of these sessions were under way.  (logout 183-198)
LogoutIsFinal ==
    \A r \in Request :
        pc[r] = "loggedOut" => \A i \in before[r] : sessions[i] = None

\* A refresh never rotates a session, answered or not, with a token that was
\* already dead when it arrived: replaced by a rotation or removed by a logout,
\* whether or not the client of that rotation or logout was answered.
\* (refreshToken 139-174)
DeadTokensStayDead == committed \cap stale = {}

\* The answer of each request, as its client sees it.
Status(label) ==
    CASE label = "idle"                                   -> "none"
      [] label \in InFlight                               -> "pending"
      [] label \in {"loggedIn", "refreshed", "loggedOut"} -> "ok"
      [] OTHER                                            -> "refused"

Answer == [r \in Request |-> Status(pc[r])]

Store == INSTANCE SessionStore WITH answer <- Answer, done <- committed, owed <- before

\* The transactions, locks and timers implement a store of sessions in which
\* every request takes effect at one instant between its arrival and its
\* answer, or never: always if it is answered with success, at most once if it
\* is refused or cut off.  A session's token is its own, all the sessions a
\* logout owes end, and a refresh comes too late only after a logout of its
\* user took effect.  (auth.service.ts 82-198)
ImplementsStore == Store!Spec

\* Every request is answered, whatever the size of the pool: requests that
\* hold a connection and wait for a second one, and requests that wait for
\* the rows of others, are released by the timers.  (run 41-51)
EveryRequestAnswered ==
    \A r \in Request : pc[r] \in InFlight ~> pc[r] \notin InFlight

\* "Login successful" or "Invalid credentials": a login that got a connection
\* and ran into no timeout is never refused with an internal error.
\* (login 82-127, createSession 227-235)
LoginIsNotRefused ==
    [][\A r \in Request :
        InsertSession(r) => pc'[r] # "error"]_vars

----------------------------------------------------------------------------
(* The inductive invariant behind LogoutIsFinal *)

\* Which operations pass through a label.
ControlOK ==
    \A r \in Request :
        /\ pc[r] \in {"updateUser", "insert", "loggedIn"} => input[r].op = "login"
        /\ pc[r] \in {"verify", "purge", "update", "refreshed"} => input[r].op = "refresh"
        /\ pc[r] \in {"authBegin", "authEnd", "snapshot", "delete", "loggedOut"}
              => input[r].op = "logout"
        /\ pc[r] \in {"select", "sign"} => input[r].op # "logout"
        /\ pc[r] \in {"auditBegin", "auditInsert"} => input[r].op # "refresh"

\* A request handles tokens of its own user.
TokensOK ==
    \A r \in Request :
        /\ presented[r] # None => presented[r].user = input[r].user
        /\ token[r] # None => token[r].user = input[r].user

\* A session that was opened, and may have ended since.
Opened == {i \in committed : input[i].op = "login"}

\* A request commits at most once, and before it is answered with success.
CommitOK ==
    \A r \in Request :
        /\ r \in committed => pc[r] \in Committed \cup {"error", "lost"}
        /\ pc[r] \in Committed => r \in committed

\* A session is that of a login which has committed.
SessionsOK ==
    \A i \in Live : i \in Opened /\ sessions[i].user = input[i].user

\* Uncommitted writers of sessions: a refresh about to commit, or a logout.
LocksOK ==
    \A i \in Request : rowLock[i] # None =>
        LET q == rowLock[i]
        IN /\ i \in Live
           /\ \/ input[q].op = "refresh" /\ pc[q] = "commit" /\ session[q] = i
              \/ input[q].op = "logout" /\ pc[q] \in {"auditBegin", "auditInsert", "commit"}

\* A refresh works on a session of its own user.
FoundOK ==
    \A r \in Request :
        /\ session[r] # None => /\ session[r] \in Opened
                                /\ input[session[r]].user = input[r].user
        /\ input[r].op = "refresh" /\ pc[r] \in {"sign", "purge", "update", "commit"}
              => session[r] # None

\* The sessions that a logout must end are gone, or targeted, or locked by it.
LogoutOK ==
    \A r \in Request : \A i \in before[r] :
        /\ i \in Opened /\ input[i].user = input[r].user
        /\ pc[r] = "delete" => sessions[i] = None \/ i \in targets[r]
        /\ input[r].op = "logout" /\ pc[r] \in {"auditBegin", "auditInsert", "commit"}
              => sessions[i] = None \/ rowLock[i] = r
        /\ input[r].op = "logout" /\ r \in committed => sessions[i] = None

Inv ==
    /\ TypeOK
    /\ ControlOK
    /\ CommitOK
    /\ TokensOK
    /\ SessionsOK
    /\ LocksOK
    /\ FoundOK
    /\ LogoutOK

----------------------------------------------------------------------------
(* What has to be added for DeadTokensStayDead and ImplementsStore *)

\* Who holds a token signed one; a request that has just arrived has none.
SignedOK ==
    \A r \in Request :
        /\ pc[r] = "idle" => token[r] = None
        /\ pc[r] \in {"insert", "update", "loggedIn", "refreshed"} => token[r] # None
        /\ r \in committed /\ input[r].op # "logout" => token[r] # None
        /\ pc[r] \in {"auditBegin", "auditInsert", "commit"} /\ input[r].op # "logout" =>
              token[r] # None

\* A token that was dead when it was presented is still dead and leads no
\* further than the SELECT.
StaleOK ==
    \A r \in stale :
        /\ input[r].op = "refresh"
        /\ presented[r] # None /\ Dead(presented[r])
        /\ pc[r] \in {"verify", "begin", "select", "unauthorized", "error", "lost"}
        /\ r \notin committed

\* The row into which a login or a refresh writes.
Row(r) == IF input[r].op = "login" THEN r ELSE session[r]

\* A token that was written and not committed is in no other row, committed or
\* not.
WritersOK ==
    \A r \in Request : r \in Writing(token[r]) =>
        /\ Holding(token[r]) \subseteq {Row(r)}
        /\ Writing(token[r]) \subseteq {r}

LoggedOut(u) == \E q \in committed : input[q] = [op |-> "logout", user |-> u]

\* A refresh has its session, or the lock on it, unless its user logged out.
LostOK ==
    \A r \in Request : input[r].op = "refresh" =>
        /\ pc[r] \in {"sign", "purge", "update"} =>
              session[r] \in Live \/ LoggedOut(input[r].user)
        /\ pc[r] = "commit" => rowLock[session[r]] = r \/ LoggedOut(input[r].user)

\* A logout works on sessions of its own user.
TargetsOK ==
    \A r \in Request : \A i \in Request :
        i \in targets[r] \/ (input[r].op = "logout" /\ rowLock[i] = r) =>
            i \in Opened /\ input[i].user = input[r].user

\* All of the above: between the statements of a transaction, its token remains
\* unique and its session remains, or its user has logged out.  (refreshToken
\* 139-174, logout 183-198)
StoreInv == Inv /\ SignedOK /\ StaleOK /\ WritersOK /\ LostOK /\ TargetsOK
=============================================================================
