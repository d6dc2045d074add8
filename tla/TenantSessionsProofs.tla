------------------------ MODULE TenantSessionsProofs ------------------------
(***************************************************************************)
(* Theorems about TenantSessions, for every set of requests, users and     *)
(* inputs, every pool and lifetime, and every bound.                       *)
(***************************************************************************)
EXTENDS TenantSessions, TLAPS

USE DEF db, locals, history

\* Every input names an operation and a user.
LEMMA InputFields ==
    \A i \in Input : i.op \in {"login", "refresh", "logout"} /\ i.user \in User
BY InputAssumption

----------------------------------------------------------------------------
(* Each action keeps every part of the inductive invariant. *)

LEMMA LoginStep ==
    ASSUME Inv, NEW r \in Request, Login(r)
    PROVE  Inv'
<1>1. TypeOK'
  BY DEF Inv, Login, Goto, TypeOK, InFlight, InOwn, InAudit, Waiting, Answered
<1>2. ControlOK'
  BY DEF Inv, Login, Goto, ControlOK
<1>3. TokensOK'
  BY DEF Inv, Login, Goto, TokensOK
<1>4. SessionsOK'
  BY DEF Inv, Login, Goto, TypeOK, SessionsOK, Live, Opened
<1>5. LocksOK'
  BY DEF Inv, Login, Goto, TypeOK, LocksOK, Live
<1>6. FoundOK'
  BY DEF Inv, Login, Goto, FoundOK, Opened
<1>7. LogoutOK'
  BY DEF Inv, Login, Goto, LogoutOK, Opened
<1>8. CommitOK'
  BY DEF Inv, Login, Goto, TypeOK, CommitOK, Committed
<1> QED
  BY <1>1, <1>2, <1>3, <1>4, <1>5, <1>6, <1>7, <1>8 DEF Inv

LEMMA RefreshStep ==
    ASSUME Inv, NEW r \in Request, Refresh(r)
    PROVE  Inv'
<1>1. TypeOK'
  BY DEF Inv, Refresh, Goto, TypeOK, Issued, InFlight, InOwn, InAudit,
     Waiting, Answered
<1>2. ControlOK'
  BY DEF Inv, Refresh, Goto, ControlOK
<1>3. TokensOK'
  BY DEF Inv, Refresh, Goto, TokensOK
<1>4. SessionsOK'
  BY DEF Inv, Refresh, Goto, TypeOK, SessionsOK, Live, Opened
<1>5. LocksOK'
  BY DEF Inv, Refresh, Goto, TypeOK, LocksOK, Live
<1>6. FoundOK'
  BY DEF Inv, Refresh, Goto, FoundOK, Opened
<1>7. LogoutOK'
  BY DEF Inv, Refresh, Goto, LogoutOK, Opened
<1>8. CommitOK'
  BY DEF Inv, Refresh, Goto, TypeOK, CommitOK, Committed
<1> QED
  BY <1>1, <1>2, <1>3, <1>4, <1>5, <1>6, <1>7, <1>8 DEF Inv

LEMMA LogoutStep ==
    ASSUME Inv, NEW r \in Request, Logout(r)
    PROVE  Inv'
<1>1. TypeOK'
  BY DEF Inv, Logout, Goto, TypeOK, Of, Live, InFlight, InOwn, InAudit,
     Waiting, Answered
<1>2. ControlOK'
  BY DEF Inv, Logout, Goto, ControlOK
<1>3. TokensOK'
  BY DEF Inv, Logout, Goto, TokensOK
<1>4. SessionsOK'
  BY DEF Inv, Logout, Goto, TypeOK, SessionsOK, Live, Opened
<1>5. LocksOK'
  BY DEF Inv, Logout, Goto, TypeOK, LocksOK, Live
<1>6. FoundOK'
  BY DEF Inv, Logout, Goto, FoundOK, Opened
<1>7. LogoutOK'
  BY DEF Inv, Logout, Goto, TypeOK, ControlOK, SessionsOK, LogoutOK, CommitOK, Committed, Of,
     Live, Opened
<1>8. CommitOK'
  BY DEF Inv, Logout, Goto, TypeOK, CommitOK, Committed
<1> QED
  BY <1>1, <1>2, <1>3, <1>4, <1>5, <1>6, <1>7, <1>8 DEF Inv

LEMMA VerifyStep ==
    ASSUME Inv, NEW r \in Request, Verify(r)
    PROVE  Inv'
<1>1. TypeOK'
  BY DEF Inv, Verify, Goto, TypeOK, InFlight, InOwn, InAudit, Waiting,
     Answered
<1>2. ControlOK'
  BY DEF Inv, Verify, Goto, ControlOK
<1>3. TokensOK'
  BY DEF Inv, Verify, Goto, TokensOK
<1>4. SessionsOK'
  BY DEF Inv, Verify, Goto, TypeOK, SessionsOK, Live, Opened
<1>5. LocksOK'
  BY DEF Inv, Verify, Goto, TypeOK, LocksOK, Live
<1>6. FoundOK'
  BY DEF Inv, Verify, Goto, FoundOK, Opened
<1>7. LogoutOK'
  BY DEF Inv, Verify, Goto, LogoutOK, Opened
<1>8. CommitOK'
  BY DEF Inv, Verify, Goto, TypeOK, CommitOK, Committed
<1> QED
  BY <1>1, <1>2, <1>3, <1>4, <1>5, <1>6, <1>7, <1>8 DEF Inv

LEMMA OpenStep ==
    ASSUME Inv, NEW r \in Request, Open(r)
    PROVE  Inv'
<1>1. TypeOK'
  BY DEF Inv, Open, Goto, TypeOK, InFlight, InOwn, InAudit, Waiting, Answered
<1>2. ControlOK'
  BY DEF Inv, Open, Goto, TypeOK, ControlOK
<1>3. TokensOK'
  BY DEF Inv, Open, Goto, TokensOK
<1>4. SessionsOK'
  BY DEF Inv, Open, Goto, TypeOK, SessionsOK, Live, Opened
<1>5. LocksOK'
  BY DEF Inv, Open, Goto, TypeOK, LocksOK, Live
<1>6. FoundOK'
  BY DEF Inv, Open, Goto, TypeOK, FoundOK, Opened
<1>7. LogoutOK'
  BY DEF Inv, Open, Goto, TypeOK, LogoutOK, Opened
<1>8. CommitOK'
  BY DEF Inv, Open, Goto, TypeOK, CommitOK, Committed
<1> QED
  BY <1>1, <1>2, <1>3, <1>4, <1>5, <1>6, <1>7, <1>8 DEF Inv

LEMMA AuthenticatedStep ==
    ASSUME Inv, NEW r \in Request, Authenticated(r)
    PROVE  Inv'
<1>1. TypeOK'
  BY DEF Inv, Authenticated, Goto, TypeOK, InFlight, InOwn, InAudit, Waiting,
     Answered
<1>2. ControlOK'
  BY DEF Inv, Authenticated, Goto, ControlOK
<1>3. TokensOK'
  BY DEF Inv, Authenticated, Goto, TokensOK
<1>4. SessionsOK'
  BY DEF Inv, Authenticated, Goto, TypeOK, SessionsOK, Live, Opened
<1>5. LocksOK'
  BY DEF Inv, Authenticated, Goto, TypeOK, LocksOK, Live
<1>6. FoundOK'
  BY DEF Inv, Authenticated, Goto, FoundOK, Opened
<1>7. LogoutOK'
  BY DEF Inv, Authenticated, Goto, LogoutOK, Opened
<1>8. CommitOK'
  BY DEF Inv, Authenticated, Goto, TypeOK, CommitOK, Committed
<1> QED
  BY <1>1, <1>2, <1>3, <1>4, <1>5, <1>6, <1>7, <1>8 DEF Inv

LEMMA SelectUserStep ==
    ASSUME Inv, NEW r \in Request, SelectUser(r)
    PROVE  Inv'
<1>1. TypeOK'
  BY DEF Inv, SelectUser, Goto, TypeOK, InFlight, InOwn, InAudit, Waiting,
     Answered
<1>2. ControlOK'
  BY DEF Inv, SelectUser, Goto, TypeOK, ControlOK
<1>3. TokensOK'
  BY DEF Inv, SelectUser, Goto, TokensOK
<1>4. SessionsOK'
  BY DEF Inv, SelectUser, Goto, TypeOK, SessionsOK, Live, Opened
<1>5. LocksOK'
  BY DEF Inv, SelectUser, Goto, TypeOK, LocksOK, Live
<1>6. FoundOK'
  BY DEF Inv, SelectUser, Goto, TypeOK, FoundOK, Opened
<1>7. LogoutOK'
  BY DEF Inv, SelectUser, Goto, TypeOK, LogoutOK, Opened
<1>8. CommitOK'
  BY DEF Inv, SelectUser, Goto, TypeOK, CommitOK, Committed
<1> QED
  BY <1>1, <1>2, <1>3, <1>4, <1>5, <1>6, <1>7, <1>8 DEF Inv

LEMMA UpdateUserStep ==
    ASSUME Inv, NEW r \in Request, UpdateUser(r)
    PROVE  Inv'
<1>1. TypeOK'
  BY DEF Inv, UpdateUser, Goto, TypeOK, InFlight, InOwn, InAudit, Waiting,
     Answered
<1>2. ControlOK'
  BY DEF Inv, UpdateUser, Goto, ControlOK
<1>3. TokensOK'
  BY DEF Inv, UpdateUser, Goto, TokensOK
<1>4. SessionsOK'
  BY DEF Inv, UpdateUser, Goto, TypeOK, SessionsOK, Live, Opened
<1>5. LocksOK'
  BY DEF Inv, UpdateUser, Goto, TypeOK, LocksOK, Live
<1>6. FoundOK'
  BY DEF Inv, UpdateUser, Goto, TypeOK, ControlOK, FoundOK, Opened
<1>7. LogoutOK'
  BY DEF Inv, UpdateUser, Goto, LogoutOK, Opened
<1>8. CommitOK'
  BY DEF Inv, UpdateUser, Goto, TypeOK, CommitOK, Committed
<1> QED
  BY <1>1, <1>2, <1>3, <1>4, <1>5, <1>6, <1>7, <1>8 DEF Inv

LEMMA SignStep ==
    ASSUME Inv, NEW r \in Request, Sign(r)
    PROVE  Inv'
<1>1. TypeOK'
  BY InputFields DEF Inv, Sign, Goto, TypeOK, Token, InFlight, InOwn, InAudit,
     Waiting, Answered
<1>2. ControlOK'
  BY InputFields DEF Inv, Sign, Goto, TypeOK, ControlOK
<1>3. TokensOK'
  BY DEF Inv, Sign, Goto, TokensOK
<1>4. SessionsOK'
  BY DEF Inv, Sign, Goto, TypeOK, SessionsOK, Live, Opened
<1>5. LocksOK'
  BY DEF Inv, Sign, Goto, TypeOK, LocksOK, Live
<1>6. FoundOK'
  BY DEF Inv, Sign, Goto, FoundOK, Opened
<1>7. LogoutOK'
  BY DEF Inv, Sign, Goto, LogoutOK, Opened
<1>8. CommitOK'
  BY InputFields DEF Inv, Sign, Goto, TypeOK, CommitOK, Committed
<1> QED
  BY <1>1, <1>2, <1>3, <1>4, <1>5, <1>6, <1>7, <1>8 DEF Inv

LEMMA InsertSessionStep ==
    ASSUME Inv, NEW r \in Request, InsertSession(r)
    PROVE  Inv'
<1>1. TypeOK'
  BY DEF Inv, InsertSession, Goto, Rollback, Release, TypeOK, InFlight, InOwn,
     InAudit, Waiting, Answered
<1>2. ControlOK'
  BY DEF Inv, InsertSession, Goto, Rollback, Release, TypeOK, ControlOK
<1>3. TokensOK'
  BY DEF Inv, InsertSession, Goto, Rollback, Release, TokensOK
<1>4. SessionsOK'
  BY DEF Inv, InsertSession, Goto, Rollback, Release, TypeOK, SessionsOK, Live, Opened
<1>5. LocksOK'
  BY DEF Inv, InsertSession, Goto, Rollback, Release, TypeOK, LocksOK, Live
<1>6. FoundOK'
  BY DEF Inv, InsertSession, Goto, Rollback, Release, TypeOK, FoundOK, Opened
<1>7. LogoutOK'
  BY DEF Inv, InsertSession, Goto, Rollback, Release, TypeOK, ControlOK,
     LogoutOK, Opened
<1>8. CommitOK'
  BY DEF Inv, InsertSession, Goto, Rollback, Release, TypeOK, CommitOK, Committed
<1> QED
  BY <1>1, <1>2, <1>3, <1>4, <1>5, <1>6, <1>7, <1>8 DEF Inv

LEMMA SelectSessionStep ==
    ASSUME Inv, NEW r \in Request, SelectSession(r)
    PROVE  Inv'
<1>1. TypeOK'
  BY DEF Inv, SelectSession, Goto, TypeOK, Holding, Live, InFlight, InOwn,
     InAudit, Waiting, Answered
<1>2. ControlOK'
  BY DEF Inv, SelectSession, Goto, TypeOK, ControlOK
<1>3. TokensOK'
  BY DEF Inv, SelectSession, Goto, TokensOK
<1>4. SessionsOK'
  BY DEF Inv, SelectSession, Goto, TypeOK, SessionsOK, Live, Opened
<1>5. LocksOK'
  BY DEF Inv, SelectSession, Goto, TypeOK, LocksOK, Live
<1>6. FoundOK'
  BY NoneAssumption DEF Inv, SelectSession, Goto, TypeOK, ControlOK, TokensOK,
     SessionsOK, FoundOK, Holding, Live, Opened
<1>7. LogoutOK'
  BY DEF Inv, SelectSession, Goto, TypeOK, LogoutOK, Opened
<1>8. CommitOK'
  BY DEF Inv, SelectSession, Goto, TypeOK, CommitOK, Committed
<1> QED
  BY <1>1, <1>2, <1>3, <1>4, <1>5, <1>6, <1>7, <1>8 DEF Inv

LEMMA PurgeStep ==
    ASSUME Inv, NEW r \in Request, Purge(r)
    PROVE  Inv'
<1>1. TypeOK'
  BY DEF Inv, Purge, Goto, TypeOK, InFlight, InOwn, InAudit, Waiting, Answered
<1>2. ControlOK'
  BY DEF Inv, Purge, Goto, ControlOK
<1>3. TokensOK'
  BY DEF Inv, Purge, Goto, TokensOK
<1>4. SessionsOK'
  BY DEF Inv, Purge, Goto, TypeOK, SessionsOK, Live, Opened
<1>5. LocksOK'
  BY DEF Inv, Purge, Goto, TypeOK, LocksOK, Live
<1>6. FoundOK'
  BY DEF Inv, Purge, Goto, FoundOK, Opened
<1>7. LogoutOK'
  BY DEF Inv, Purge, Goto, LogoutOK, Opened
<1>8. CommitOK'
  BY DEF Inv, Purge, Goto, TypeOK, CommitOK, Committed
<1> QED
  BY <1>1, <1>2, <1>3, <1>4, <1>5, <1>6, <1>7, <1>8 DEF Inv

LEMMA UpdateSessionStep ==
    ASSUME Inv, NEW r \in Request, UpdateSession(r)
    PROVE  Inv'
<1>1. TypeOK'
  BY DEF Inv, UpdateSession, Goto, Rollback, Release, TypeOK, InFlight, InOwn,
     InAudit, Waiting, Answered
<1>2. ControlOK'
  BY DEF Inv, UpdateSession, Goto, Rollback, Release, TypeOK, ControlOK
<1>3. TokensOK'
  BY DEF Inv, UpdateSession, Goto, Rollback, Release, TokensOK
<1>4. SessionsOK'
  BY DEF Inv, UpdateSession, Goto, Rollback, Release, TypeOK, SessionsOK, Live, Opened
<1>5. LocksOK'
  BY DEF Inv, UpdateSession, Goto, Rollback, Release, TypeOK, ControlOK,
     LocksOK, Live
<1>6. FoundOK'
  BY DEF Inv, UpdateSession, Goto, Rollback, Release, TypeOK, FoundOK, Opened
<1>7. LogoutOK'
  BY NoneAssumption DEF Inv, UpdateSession, Goto, Rollback, Release, TypeOK,
     ControlOK, LogoutOK, LocksOK, Live, Opened
<1>8. CommitOK'
  BY DEF Inv, UpdateSession, Goto, Rollback, Release, TypeOK, CommitOK, Committed
<1> QED
  BY <1>1, <1>2, <1>3, <1>4, <1>5, <1>6, <1>7, <1>8 DEF Inv

LEMMA SnapshotSessionsStep ==
    ASSUME Inv, NEW r \in Request, SnapshotSessions(r)
    PROVE  Inv'
<1>1. TypeOK'
  BY DEF Inv, SnapshotSessions, Goto, TypeOK, Of, Live, InFlight, InOwn,
     InAudit, Waiting, Answered
<1>2. ControlOK'
  BY DEF Inv, SnapshotSessions, Goto, ControlOK
<1>3. TokensOK'
  BY DEF Inv, SnapshotSessions, Goto, TokensOK
<1>4. SessionsOK'
  BY DEF Inv, SnapshotSessions, Goto, TypeOK, SessionsOK, Live, Opened
<1>5. LocksOK'
  BY DEF Inv, SnapshotSessions, Goto, TypeOK, LocksOK, Live
<1>6. FoundOK'
  BY DEF Inv, SnapshotSessions, Goto, FoundOK, Opened
<1>7. LogoutOK'
  BY DEF Inv, SnapshotSessions, Goto, TypeOK, ControlOK, SessionsOK, LogoutOK,
     Of, Live, Opened
<1>8. CommitOK'
  BY DEF Inv, SnapshotSessions, Goto, TypeOK, CommitOK, Committed
<1> QED
  BY <1>1, <1>2, <1>3, <1>4, <1>5, <1>6, <1>7, <1>8 DEF Inv

LEMMA DeleteSessionsStep ==
    ASSUME Inv, NEW r \in Request, DeleteSessions(r)
    PROVE  Inv'
<1>1. TypeOK'
  BY DEF Inv, DeleteSessions, Goto, TypeOK, InFlight, InOwn, InAudit, Waiting,
     Answered
<1>2. ControlOK'
  BY DEF Inv, DeleteSessions, Goto, ControlOK
<1>3. TokensOK'
  BY DEF Inv, DeleteSessions, Goto, TokensOK
<1>4. SessionsOK'
  BY DEF Inv, DeleteSessions, Goto, TypeOK, SessionsOK, Live, Opened
<1>5. LocksOK'
  BY DEF Inv, DeleteSessions, Goto, TypeOK, ControlOK, LocksOK, Live
<1>6. FoundOK'
  BY DEF Inv, DeleteSessions, Goto, FoundOK, Opened
<1>7. LogoutOK'
  BY NoneAssumption DEF Inv, DeleteSessions, Goto, TypeOK, ControlOK,
     LogoutOK, LocksOK, Live, Opened
<1>8. CommitOK'
  BY DEF Inv, DeleteSessions, Goto, TypeOK, CommitOK, Committed
<1> QED
  BY <1>1, <1>2, <1>3, <1>4, <1>5, <1>6, <1>7, <1>8 DEF Inv

LEMMA InsertAuditStep ==
    ASSUME Inv, NEW r \in Request, InsertAudit(r)
    PROVE  Inv'
<1>1. TypeOK'
  BY DEF Inv, InsertAudit, Goto, TypeOK, InFlight, InOwn, InAudit, Waiting,
     Answered
<1>2. ControlOK'
  BY DEF Inv, InsertAudit, Goto, ControlOK
<1>3. TokensOK'
  BY DEF Inv, InsertAudit, Goto, TokensOK
<1>4. SessionsOK'
  BY DEF Inv, InsertAudit, Goto, TypeOK, SessionsOK, Live, Opened
<1>5. LocksOK'
  BY DEF Inv, InsertAudit, Goto, TypeOK, LocksOK, Live
<1>6. FoundOK'
  BY DEF Inv, InsertAudit, Goto, TypeOK, ControlOK, FoundOK, Opened
<1>7. LogoutOK'
  BY DEF Inv, InsertAudit, Goto, LogoutOK, Opened
<1>8. CommitOK'
  BY DEF Inv, InsertAudit, Goto, TypeOK, CommitOK, Committed
<1> QED
  BY <1>1, <1>2, <1>3, <1>4, <1>5, <1>6, <1>7, <1>8 DEF Inv

LEMMA CommitLoginStep ==
    ASSUME Inv, NEW r \in Request, CommitLogin(r)
    PROVE  Inv'
<1>1. TypeOK'
  BY DEF Inv, CommitLogin, Commit, Goto, Release, TypeOK, InFlight, InOwn, InAudit,
     Waiting, Answered
<1>2. ControlOK'
  BY DEF Inv, CommitLogin, Commit, Goto, Release, ControlOK
<1>3. TokensOK'
  BY DEF Inv, CommitLogin, Commit, Goto, Release, TokensOK
<1>4. SessionsOK'
  BY DEF Inv, CommitLogin, Commit, Goto, Release, TypeOK, ControlOK, TokensOK,
     SessionsOK, Live, Opened
<1>5. LocksOK'
  <2>1. r \notin Live
    BY DEF Inv, CommitLogin, Commit, SessionsOK, CommitOK, Committed, Opened
  <2>2. \A i \in Request : rowLock'[i] # None => i \in Live /\ rowLock'[i] = rowLock[i]
                                              /\ rowLock[i] # r
    BY NoneAssumption DEF Inv, CommitLogin, Commit, Release, LocksOK
  <2>3. \A i \in Live : i \in Live'
    BY <2>1 DEF Inv, TypeOK, CommitLogin, Live
  <2>4. \A q \in Request \ {r} : pc'[q] = pc[q]
    BY DEF CommitLogin, Commit, Goto
  <2> QED
    BY <2>2, <2>3, <2>4 DEF Inv, TypeOK, LocksOK, CommitLogin, Commit
<1>6. FoundOK'
  BY DEF Inv, CommitLogin, Commit, Goto, Release, FoundOK, Opened
<1>7. LogoutOK'
  <2>1. \A q \in Request : r \notin before[q]
    BY DEF Inv, CommitLogin, Commit, LogoutOK, CommitOK, Committed, Opened
  <2>2. \A q \in Request : \A i \in before[q] : i \in Request /\ sessions'[i] = sessions[i]
    BY <2>1 DEF Inv, TypeOK, CommitLogin
  <2>3. \A i \in Request : \A q \in Request \ {r} : rowLock[i] = q => rowLock'[i] = q
    BY DEF CommitLogin, Commit, Release
  <2>4. /\ pc'[r] = "reply" /\ \A q \in Request \ {r} : pc'[q] = pc[q]
        /\ committed' = committed \cup {r} /\ UNCHANGED <<input, before, targets>>
    BY DEF Inv, TypeOK, CommitLogin, Commit, Goto
  <2>5. input[r].op = "login"
    BY DEF CommitLogin
  <2> QED
    BY <2>2, <2>3, <2>4, <2>5 DEF Inv, LogoutOK, Opened
<1>8. CommitOK'
  BY DEF Inv, CommitLogin, Commit, Goto, Release, TypeOK, CommitOK, Committed
<1> QED
  BY <1>1, <1>2, <1>3, <1>4, <1>5, <1>6, <1>7, <1>8 DEF Inv

LEMMA CommitRefreshStep ==
    ASSUME Inv, NEW r \in Request, CommitRefresh(r)
    PROVE  Inv'
<1>1. TypeOK'
  BY DEF Inv, CommitRefresh, Commit, Goto, Release, TypeOK, InFlight, InOwn, InAudit,
     Waiting, Answered
<1>2. ControlOK'
  BY DEF Inv, CommitRefresh, Commit, Goto, Release, ControlOK
<1>3. TokensOK'
  BY DEF Inv, CommitRefresh, Commit, Goto, Release, TokensOK
<1>4. SessionsOK'
  BY NoneAssumption DEF Inv, CommitRefresh, Commit, Goto, Release, TypeOK, TokensOK,
     SessionsOK, LocksOK, FoundOK, Live, Opened
<1>5. LocksOK'
  BY DEF Inv, CommitRefresh, Commit, Goto, Release, TypeOK, LocksOK, Live
<1>6. FoundOK'
  BY DEF Inv, CommitRefresh, Commit, Goto, Release, FoundOK, Opened
<1>7. LogoutOK'
  BY NoneAssumption DEF Inv, CommitRefresh, Commit, Goto, Release, TypeOK, LocksOK,
     LogoutOK, Live, FoundOK, Opened
<1>8. CommitOK'
  BY DEF Inv, CommitRefresh, Commit, Goto, Release, TypeOK, CommitOK, Committed
<1> QED
  BY <1>1, <1>2, <1>3, <1>4, <1>5, <1>6, <1>7, <1>8 DEF Inv

LEMMA CommitLogoutStep ==
    ASSUME Inv, NEW r \in Request, CommitLogout(r)
    PROVE  Inv'
<1>1. TypeOK'
  BY DEF Inv, CommitLogout, Commit, Goto, Release, TypeOK, InFlight, InOwn, InAudit,
     Waiting, Answered
<1>2. ControlOK'
  BY DEF Inv, CommitLogout, Commit, Goto, Release, ControlOK
<1>3. TokensOK'
  BY DEF Inv, CommitLogout, Commit, Goto, Release, TokensOK
<1>4. SessionsOK'
  BY DEF Inv, CommitLogout, Commit, Goto, Release, TypeOK, SessionsOK, Live, Opened
<1>5. LocksOK'
  BY DEF Inv, CommitLogout, Commit, Goto, Release, TypeOK, LocksOK, Live
<1>6. FoundOK'
  BY DEF Inv, CommitLogout, Commit, Goto, Release, FoundOK, Opened
<1>7. LogoutOK'
  BY DEF Inv, CommitLogout, Commit, Goto, Release, TypeOK, LogoutOK, Opened
<1>8. CommitOK'
  BY DEF Inv, CommitLogout, Commit, Goto, Release, TypeOK, CommitOK, Committed
<1> QED
  BY <1>1, <1>2, <1>3, <1>4, <1>5, <1>6, <1>7, <1>8 DEF Inv

LEMMA ReplyStep ==
    ASSUME Inv, NEW r \in Request, Reply(r)
    PROVE  Inv'
<1>1. TypeOK'
  BY InputFields DEF Inv, Reply, Goto, TypeOK, InFlight, InOwn, InAudit, Waiting, Answered
<1>2. ControlOK'
  BY InputFields DEF Inv, Reply, Goto, TypeOK, ControlOK
<1>3. TokensOK'
  BY DEF Inv, Reply, Goto, TokensOK
<1>4. SessionsOK'
  BY DEF Inv, Reply, Goto, TypeOK, SessionsOK, Live, Opened
<1>5. LocksOK'
  BY DEF Inv, Reply, Goto, TypeOK, LocksOK, Live
<1>6. FoundOK'
  BY DEF Inv, Reply, Goto, TypeOK, FoundOK, Opened
<1>7. LogoutOK'
  BY InputFields DEF Inv, Reply, Goto, TypeOK, LogoutOK, Opened
<1>8. CommitOK'
  BY InputFields DEF Inv, Reply, Goto, TypeOK, CommitOK, Committed
<1> QED
  BY <1>1, <1>2, <1>3, <1>4, <1>5, <1>6, <1>7, <1>8 DEF Inv

LEMMA GiveUpStep ==
    ASSUME Inv, NEW r \in Request, GiveUp(r)
    PROVE  Inv'
<1>1. TypeOK'
  BY DEF Inv, GiveUp, Goto, TypeOK, InFlight, InOwn, InAudit, Waiting,
     Answered
<1>2. ControlOK'
  BY DEF Inv, GiveUp, Goto, TypeOK, ControlOK
<1>3. TokensOK'
  BY DEF Inv, GiveUp, Goto, TokensOK
<1>4. SessionsOK'
  BY DEF Inv, GiveUp, Goto, TypeOK, SessionsOK, Live, Opened
<1>5. LocksOK'
  BY DEF Inv, GiveUp, Goto, TypeOK, LocksOK, Live
<1>6. FoundOK'
  BY DEF Inv, GiveUp, Goto, TypeOK, ControlOK, FoundOK, Opened
<1>7. LogoutOK'
  BY DEF Inv, GiveUp, Goto, TypeOK, LogoutOK, Opened
<1>8. CommitOK'
  BY DEF Inv, GiveUp, Goto, TypeOK, CommitOK, Committed
<1> QED
  BY <1>1, <1>2, <1>3, <1>4, <1>5, <1>6, <1>7, <1>8 DEF Inv

LEMMA ExpireStep ==
    ASSUME Inv, NEW r \in Request, Expire(r)
    PROVE  Inv'
<1>1. TypeOK'
  BY DEF Inv, Expire, Goto, Rollback, Release, TypeOK, InFlight, InOwn,
     InAudit, Waiting, Answered
<1>2. ControlOK'
  BY DEF Inv, Expire, Goto, Rollback, Release, ControlOK
<1>3. TokensOK'
  BY DEF Inv, Expire, Goto, Rollback, Release, TokensOK
<1>4. SessionsOK'
  BY DEF Inv, Expire, Goto, Rollback, Release, TypeOK, SessionsOK, Live, InOwn, Opened
<1>5. LocksOK'
  BY DEF Inv, Expire, Goto, Rollback, Release, TypeOK, LocksOK, Live
<1>6. FoundOK'
  BY DEF Inv, Expire, Goto, Rollback, Release, TypeOK, FoundOK, InFlight,
     InOwn, InAudit, Waiting, Opened
<1>7. LogoutOK'
  BY DEF Inv, Expire, Goto, Rollback, Release, TypeOK, LogoutOK, InFlight,
     InOwn, InAudit, Waiting, Opened
<1>8. CommitOK'
  BY DEF Inv, Expire, Goto, Rollback, Release, TypeOK, CommitOK, Committed
<1> QED
  BY <1>1, <1>2, <1>3, <1>4, <1>5, <1>6, <1>7, <1>8 DEF Inv

LEMMA CrashStep ==
    ASSUME Inv, Crash
    PROVE  Inv'
<1>1. TypeOK'
  BY BoundAssumption DEF Inv, Crash, TypeOK, InFlight, InOwn, InAudit,
     Waiting, Answered
<1>2. ControlOK'
  BY DEF Inv, Crash, ControlOK
<1>3. TokensOK'
  BY DEF Inv, Crash, TokensOK
<1>4. SessionsOK'
  BY DEF Inv, Crash, TypeOK, SessionsOK, Live, InFlight, InOwn, InAudit,
     Waiting, Opened
<1>5. LocksOK'
  BY DEF Inv, Crash, LocksOK
<1>6. FoundOK'
  BY DEF Inv, Crash, TypeOK, FoundOK, InFlight, InOwn, InAudit, Waiting, Opened
<1>7. LogoutOK'
  BY DEF Inv, Crash, TypeOK, LogoutOK, InFlight, InOwn, InAudit, Waiting, Opened
<1>8. CommitOK'
  BY DEF Inv, Crash, TypeOK, CommitOK, Committed
<1> QED
  BY <1>1, <1>2, <1>3, <1>4, <1>5, <1>6, <1>7, <1>8 DEF Inv

LEMMA TickStep ==
    ASSUME Inv, Tick
    PROVE  Inv'
<1>1. TypeOK'
  BY BoundAssumption DEF Inv, Tick, TypeOK
<1>2. ControlOK'
  BY DEF Inv, Tick, ControlOK
<1>3. TokensOK'
  BY DEF Inv, Tick, TokensOK
<1>4. SessionsOK'
  BY DEF Inv, Tick, TypeOK, SessionsOK, Live, Opened
<1>5. LocksOK'
  BY DEF Inv, Tick, TypeOK, LocksOK, Live
<1>6. FoundOK'
  BY DEF Inv, Tick, FoundOK, Opened
<1>7. LogoutOK'
  BY DEF Inv, Tick, LogoutOK, Opened
<1>8. CommitOK'
  BY DEF Inv, Tick, TypeOK, CommitOK, Committed
<1> QED
  BY <1>1, <1>2, <1>3, <1>4, <1>5, <1>6, <1>7, <1>8 DEF Inv

----------------------------------------------------------------------------
(* The theorems *)

LEMMA InvInit == Init => Inv
<1> SUFFICES ASSUME Init PROVE Inv
  OBVIOUS
<1>1. TypeOK
  BY BoundAssumption DEF Init, TypeOK
<1>2. ControlOK /\ TokensOK
  BY DEF Init, ControlOK, TokensOK
<1>3. SessionsOK /\ LocksOK /\ FoundOK /\ LogoutOK /\ CommitOK
  BY DEF Init, SessionsOK, LocksOK, FoundOK, LogoutOK, CommitOK, Committed, Live
<1> QED
  BY <1>1, <1>2, <1>3 DEF Inv

LEMMA InvStep == Inv /\ [Next]_vars => Inv'
<1> SUFFICES ASSUME Inv, [Next]_vars PROVE Inv'
  OBVIOUS
<1>1. CASE UNCHANGED vars
  BY <1>1 DEF Inv, vars, TypeOK, ControlOK, TokensOK, SessionsOK, LocksOK,
              FoundOK, LogoutOK, CommitOK, Opened, Live
<1>2. CASE Quiescent
  BY <1>1, <1>2 DEF Quiescent
<1>3. ASSUME NEW r \in Request, Login(r) \/ Refresh(r) \/ Logout(r)
      PROVE  Inv'
  BY <1>3, LoginStep, RefreshStep, LogoutStep
<1>4. ASSUME NEW r \in Request, Timeout(r)
      PROVE  Inv'
  BY <1>4, GiveUpStep, ExpireStep DEF Timeout
<1>5. ASSUME NEW r \in Request, Statement(r)
      PROVE  Inv'
  <2>1. CASE Verify(r) \/ Open(r) \/ Authenticated(r)
    BY <2>1, VerifyStep, OpenStep, AuthenticatedStep
  <2>2. CASE SelectUser(r) \/ UpdateUser(r) \/ Sign(r) \/ InsertSession(r)
    BY <2>2, SelectUserStep, UpdateUserStep, SignStep, InsertSessionStep
  <2>3. CASE SelectSession(r) \/ Purge(r) \/ UpdateSession(r)
    BY <2>3, SelectSessionStep, PurgeStep, UpdateSessionStep
  <2>4. CASE SnapshotSessions(r) \/ DeleteSessions(r) \/ InsertAudit(r)
    BY <2>4, SnapshotSessionsStep, DeleteSessionsStep, InsertAuditStep
  <2>5. CASE CommitLogin(r) \/ CommitRefresh(r) \/ CommitLogout(r)
    BY <2>5, CommitLoginStep, CommitRefreshStep, CommitLogoutStep
  <2>6. CASE Reply(r)
    BY <2>6, ReplyStep
  <2> QED
    BY <1>5, <2>1, <2>2, <2>3, <2>4, <2>5, <2>6 DEF Statement
<1> QED
  BY <1>1, <1>2, <1>3, <1>4, <1>5, CrashStep, TickStep DEF Next

LEMMA Invariance == Spec => []Inv
BY InvInit, InvStep, PTL DEF Spec

\* Every variable keeps its type.
THEOREM TypeCorrect == Spec => []TypeOK
<1>1. Inv => TypeOK
  BY DEF Inv
<1> QED
  BY <1>1, Invariance, PTL

\* Once a logout is answered with success, the sessions its user had when it
\* arrived are gone and never come back, whatever logins, refreshes and other
\* logouts overlap it, and whatever times out or restarts.
THEOREM LogoutFinal == Spec => []LogoutIsFinal
<1>1. Inv => LogoutIsFinal
  BY DEF Inv, ControlOK, LogoutOK, CommitOK, Committed, LogoutIsFinal
<1> QED
  BY <1>1, Invariance, PTL
=============================================================================
