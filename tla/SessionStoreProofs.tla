------------------------- MODULE SessionStoreProofs -------------------------
(***************************************************************************)
(* Theorems about TenantSessions that need more than the invariant behind  *)
(* LogoutIsFinal: tokens that are dead stay dead, and the transactions     *)
(* implement SessionStore.                                                 *)
(***************************************************************************)
EXTENDS TenantSessionsProofs

USE DEF db, locals, history

----------------------------------------------------------------------------
(* A step of one request, and what it leaves alone. *)

Inserting == {"auditBegin", "auditInsert", "commit"}

OthersStay(r) ==
    /\ \A q \in Request \ {r} : /\ pc'[q] = pc[q]
                                /\ token'[q] = token[q]
                                /\ session'[q] = session[q]
                                /\ targets'[q] = targets[q]
    /\ UNCHANGED input

LocksStay(r) ==
    \A i \in Request : \A q \in Request \ {r} : rowLock'[i] = q <=> rowLock[i] = q

LEMMA StaleKept ==
    ASSUME StoreInv, NEW r \in Request, OthersStay(r),
           UNCHANGED <<sessions, presented, now, committed, stale>>,
           token'[r] = token[r],
           pc'[r] \in InFlight => pc[r] \in InFlight \cup {"idle"},
           r \in stale =>
               pc'[r] \in {"verify", "begin", "select", "unauthorized", "error", "lost"}
    PROVE  StaleOK'
<1>1. ASSUME NEW q \in stale, q \in Request
      PROVE  /\ input'[q].op = "refresh"
             /\ presented'[q] # None /\ Dead(presented[q])'
             /\ pc'[q] \in {"verify", "begin", "select", "unauthorized", "error", "lost"}
             /\ q \notin committed'
  <2>1. input[q].op = "refresh" /\ presented[q] # None /\ Dead(presented[q])
    BY DEF StoreInv, StaleOK
  <2>2. \A p \in Request : token'[p] = presented[q] =>
           pc'[p] \notin InFlight \/ p \in committed'
    BY DEF StoreInv, SignedOK, StaleOK, OthersStay, Dead
  <2>3. Dead(presented[q])'
    BY <2>1, <2>2 DEF Dead, Holding, Live
  <2> QED
    BY <1>1, <2>3 DEF StoreInv, StaleOK, OthersStay
<1>2. stale \subseteq Request
  BY DEF StoreInv, Inv, TypeOK
<1> QED
  BY <1>1, <1>2 DEF StaleOK

LEMMA WritersKept ==
    ASSUME StoreInv, NEW r \in Request, OthersStay(r), LocksStay(r),
           UNCHANGED sessions,
           input[r].op = "login" /\ pc'[r] \in Inserting =>
               pc[r] \in Inserting /\ token'[r] = token[r],
           input[r].op = "refresh" => pc'[r] # "commit"
    PROVE  WritersOK'
<1>1. \A q \in Request : \A t : q \in Writing(t)' => q \in Writing(t)
  <2> SUFFICES ASSUME NEW q \in Request, NEW t, q \in Writing(t)'
               PROVE  q \in Writing(t)
    OBVIOUS
  <2>1. CASE q = r
    BY <2>1 DEF OthersStay, Writing, Inserting
  <2>2. CASE q # r
    BY <2>2 DEF StoreInv, Inv, FoundOK, TypeOK, OthersStay, LocksStay, Writing
  <2> QED
    BY <2>1, <2>2
<1>2. ASSUME NEW q \in Request, q \in Writing(token[q])'
      PROVE  /\ Holding(token[q])' \subseteq {Row(q)'}
             /\ Writing(token[q])' \subseteq {q}
  <2>1. q \in Writing(token'[q]) /\ token[q] = token'[q]
    BY <1>1, <1>2 DEF Writing
  <2>2. Holding(token[q]) \subseteq {Row(q)} /\ Writing(token[q]) \subseteq {q}
    BY <2>1 DEF StoreInv, WritersOK
  <2>3. Holding(token[q])' = Holding(token[q])
    BY <2>1 DEF Holding, Live
  <2>4. Row(q)' = Row(q)
    BY <1>2 DEF OthersStay, Row, Writing
  <2>5. Writing(token[q])' \subseteq Writing(token[q])
    BY <1>1, <2>1 DEF Writing
  <2> QED
    BY <2>2, <2>3, <2>4, <2>5
<1> QED
  BY <1>2 DEF WritersOK

LEMMA LostKept ==
    ASSUME StoreInv, NEW r \in Request, OthersStay(r), LocksStay(r),
           UNCHANGED <<sessions, committed>>,
           input[r].op = "refresh" =>
               /\ pc'[r] \in {"sign", "purge", "update"} =>
                     session'[r] \in Live \/ LoggedOut(input[r].user)
               /\ pc'[r] = "commit" =>
                     rowLock'[session'[r]] = r \/ LoggedOut(input[r].user)
    PROVE  LostOK'
<1>1. \A u : LoggedOut(u) => LoggedOut(u)'
  BY DEF OthersStay, LoggedOut
<1>2. Live' = Live
  BY DEF Live
<1>3. ASSUME NEW q \in Request, input[q].op = "refresh", q # r
      PROVE  /\ pc'[q] \in {"sign", "purge", "update"} =>
                   session'[q] \in Live' \/ LoggedOut(input[q].user)'
             /\ pc'[q] = "commit" =>
                   rowLock'[session'[q]] = q \/ LoggedOut(input[q].user)'
  <2>1. pc'[q] = pc[q] /\ session'[q] = session[q]
    BY <1>3 DEF OthersStay
  <2>2. pc[q] = "commit" => session[q] \in Request
    BY <1>3 DEF StoreInv, Inv, TypeOK, FoundOK
  <2> QED
    BY <1>1, <1>2, <1>3, <2>2 DEF StoreInv, LostOK, LocksStay, OthersStay
<1>4. input[r].op = "refresh" =>
          /\ pc'[r] \in {"sign", "purge", "update"} =>
                session'[r] \in Live' \/ LoggedOut(input[r].user)'
          /\ pc'[r] = "commit" =>
                rowLock'[session'[r]] = r \/ LoggedOut(input[r].user)'
  BY <1>2 DEF OthersStay, LoggedOut
<1> QED
  BY <1>3, <1>4 DEF LostOK, OthersStay

\* A request that has written its token joins the others that have.
LEMMA WriterJoins ==
    ASSUME StoreInv, NEW r \in Request, OthersStay(r), LocksStay(r),
           UNCHANGED <<sessions, token, session>>,
           r \notin Writing(token[r]),
           ~Contended(token[r], Row(r), r)
    PROVE  WritersOK'
<1>1. ASSUME NEW q \in Request, q # r, NEW t, q \in Writing(t)'
      PROVE  q \in Writing(t)
  BY <1>1 DEF StoreInv, Inv, FoundOK, TypeOK, OthersStay, LocksStay, Writing
<1>2. ASSUME NEW q \in Request, q \in Writing(token[q])'
      PROVE  /\ Holding(token[q])' \subseteq {Row(q)'}
             /\ Writing(token[q])' \subseteq {q}
  <2>1. Row(q)' = Row(q) /\ Holding(token[q])' = Holding(token[q])
    BY DEF OthersStay, Row, Holding, Live
  <2>2. CASE q = r
    <3>1. Holding(token[r]) \subseteq {Row(r)} /\ Writing(token[r]) \subseteq {r}
      BY DEF Contended
    <3>2. ASSUME NEW p \in Writing(token[q])', p # r
          PROVE  FALSE
      BY <1>1, <2>2, <3>1, <3>2 DEF Writing
    <3> QED
      BY <2>1, <2>2, <3>1, <3>2
  <2>3. CASE q # r
    <3>1. q \in Writing(token[q])
      BY <1>1, <1>2, <2>3
    <3>2. Holding(token[q]) \subseteq {Row(q)} /\ Writing(token[q]) \subseteq {q}
      BY <3>1 DEF StoreInv, WritersOK
    <3>3. token[q] # token[r]
      BY <3>1 DEF Contended
    <3>4. r \notin Writing(token[q])'
      BY <3>3 DEF Writing
    <3> QED
      BY <1>1, <2>1, <3>2, <3>4 DEF Writing
  <2> QED
    BY <2>2, <2>3
<1> QED
  BY <1>2 DEF WritersOK

LEMMA TargetsKept ==
    ASSUME StoreInv, NEW r \in Request, OthersStay(r), LocksStay(r),
           UNCHANGED committed,
           targets'[r] = targets[r],
           \A i \in Request : rowLock'[i] = r /\ input[r].op = "logout" =>
               rowLock[i] = r \/ i \in targets[r]
    PROVE  TargetsOK'
BY DEF StoreInv, TargetsOK, OthersStay, LocksStay, Opened

----------------------------------------------------------------------------
(* Each action keeps what has been added to the invariant. *)

LEMMA LoginStore ==
    ASSUME StoreInv, NEW r \in Request, Login(r)
    PROVE  SignedOK' /\ StaleOK' /\ WritersOK' /\ LostOK' /\ TargetsOK'
<1>1. OthersStay(r)
  BY DEF Login, Goto, OthersStay
<1>2. LocksStay(r)
  BY DEF Login, LocksStay
<1>3. StaleOK'
  BY <1>1, StaleKept DEF StoreInv, StaleOK, Login
<1>4. WritersOK'
  BY <1>1, <1>2, WritersKept DEF Login, Goto, Inserting
<1>5. LostOK'
  BY <1>1, <1>2, LostKept DEF Login
<1>6. TargetsOK'
  BY <1>1, <1>2, TargetsKept DEF Login
<1>7. SignedOK'
  BY DEF StoreInv, SignedOK, Login, Goto
<1> QED
  BY <1>3, <1>4, <1>5, <1>6, <1>7

LEMMA RefreshStore ==
    ASSUME StoreInv, NEW r \in Request, Refresh(r)
    PROVE  SignedOK' /\ StaleOK' /\ WritersOK' /\ LostOK' /\ TargetsOK'
<1>1. OthersStay(r)
  BY DEF Refresh, Goto, OthersStay
<1>2. LocksStay(r)
  BY DEF Refresh, LocksStay
<1>3. StaleOK'
  <2>1. PICK t \in Issued :
          /\ presented' = [presented EXCEPT ![r] = t]
          /\ stale' = IF Dead(t) THEN stale \cup {r} ELSE stale
    BY DEF Refresh
  <2>2. t # None
    BY DEF StoreInv, SignedOK, Issued
  <2>3. r \notin stale /\ pc[r] = "idle" /\ token[r] = None /\ r \notin committed
    BY DEF StoreInv, Inv, CommitOK, Committed, StaleOK, SignedOK, Refresh
  <2>4. \A s : s # None /\ Dead(s) => Dead(s)'
    <3> SUFFICES ASSUME NEW s, s # None, Dead(s)
                 PROVE  Dead(s)'
      OBVIOUS
    <3>1. \A q \in Request : token'[q] = s => pc'[q] \notin InFlight \/ q \in committed'
      BY <1>1, <2>3 DEF Refresh, OthersStay, Dead
    <3> QED
      BY <3>1 DEF Refresh, Dead, Holding, Live
  <2>5. \A q \in stale : /\ input[q].op = "refresh" /\ q # r /\ q \in Request
                         /\ presented'[q] = presented[q] /\ pc'[q] = pc[q]
    BY <1>1, <2>1, <2>3 DEF StoreInv, StaleOK, Inv, TypeOK, OthersStay
  <2>6. Dead(presented[r])' <=> Dead(t)'
    BY <2>1 DEF StoreInv, Inv, TypeOK
  <2> QED
    BY <2>1, <2>2, <2>3, <2>4, <2>5, <2>6 DEF StoreInv, StaleOK, Inv, TypeOK, Refresh, Goto
<1>4. WritersOK'
  BY <1>1, <1>2, WritersKept DEF Refresh, Goto
<1>5. LostOK'
  BY <1>1, <1>2, LostKept DEF Refresh, Goto
<1>6. TargetsOK'
  BY <1>1, <1>2, TargetsKept DEF Refresh
<1>7. SignedOK'
  BY DEF StoreInv, SignedOK, Refresh, Goto
<1> QED
  BY <1>3, <1>4, <1>5, <1>6, <1>7

LEMMA LogoutStore ==
    ASSUME StoreInv, NEW r \in Request, Logout(r)
    PROVE  SignedOK' /\ StaleOK' /\ WritersOK' /\ LostOK' /\ TargetsOK'
<1>1. OthersStay(r)
  BY DEF Logout, Goto, OthersStay
<1>2. LocksStay(r)
  BY DEF Logout, LocksStay
<1>3. StaleOK'
  BY <1>1, StaleKept DEF StoreInv, StaleOK, Logout
<1>4. WritersOK'
  BY <1>1, <1>2, WritersKept DEF Logout
<1>5. LostOK'
  BY <1>1, <1>2, LostKept DEF Logout
<1>6. TargetsOK'
  BY <1>1, <1>2, TargetsKept DEF Logout
<1>7. SignedOK'
  BY DEF StoreInv, SignedOK, Logout, Goto
<1> QED
  BY <1>3, <1>4, <1>5, <1>6, <1>7

LEMMA VerifyStore ==
    ASSUME StoreInv, NEW r \in Request, Verify(r)
    PROVE  SignedOK' /\ StaleOK' /\ WritersOK' /\ LostOK' /\ TargetsOK'
<1>1. OthersStay(r)
  BY DEF Verify, Goto, OthersStay
<1>2. LocksStay(r)
  BY DEF Verify, LocksStay
<1>3. StaleOK'
  BY <1>1, StaleKept DEF Verify, Goto, InFlight
<1>4. WritersOK'
  BY <1>1, <1>2, WritersKept DEF Verify, Goto, Inserting
<1>5. LostOK'
  BY <1>1, <1>2, LostKept DEF Verify, Goto
<1>6. TargetsOK'
  BY <1>1, <1>2, TargetsKept DEF Verify
<1>7. SignedOK'
  BY DEF StoreInv, SignedOK, Verify, Goto
<1> QED
  BY <1>3, <1>4, <1>5, <1>6, <1>7

LEMMA OpenStore ==
    ASSUME StoreInv, NEW r \in Request, Open(r)
    PROVE  SignedOK' /\ StaleOK' /\ WritersOK' /\ LostOK' /\ TargetsOK'
<1>1. OthersStay(r)
  BY DEF StoreInv, Inv, TypeOK, Open, Goto, OthersStay
<1>2. LocksStay(r)
  BY DEF Open, LocksStay
<1>3. StaleOK'
  BY <1>1, StaleKept DEF StoreInv, Inv, TypeOK, StaleOK, Open, Goto, InFlight, Waiting
<1>4. WritersOK'
  BY <1>1, <1>2, WritersKept DEF StoreInv, Inv, TypeOK, Open, Goto, Inserting
<1>5. LostOK'
  BY <1>1, <1>2, LostKept DEF StoreInv, Inv, TypeOK, Open, Goto
<1>6. TargetsOK'
  BY <1>1, <1>2, TargetsKept DEF Open
<1>7. SignedOK'
  BY DEF StoreInv, Inv, TypeOK, SignedOK, Open, Goto
<1> QED
  BY <1>3, <1>4, <1>5, <1>6, <1>7

LEMMA AuthenticatedStore ==
    ASSUME StoreInv, NEW r \in Request, Authenticated(r)
    PROVE  SignedOK' /\ StaleOK' /\ WritersOK' /\ LostOK' /\ TargetsOK'
<1>1. OthersStay(r)
  BY DEF Authenticated, Goto, OthersStay
<1>2. LocksStay(r)
  BY DEF Authenticated, LocksStay
<1>3. StaleOK'
  BY <1>1, StaleKept DEF StoreInv, StaleOK, Authenticated, InFlight, InOwn
<1>4. WritersOK'
  BY <1>1, <1>2, WritersKept DEF Authenticated, Goto, Inserting
<1>5. LostOK'
  BY <1>1, <1>2, LostKept DEF Authenticated, Goto
<1>6. TargetsOK'
  BY <1>1, <1>2, TargetsKept DEF Authenticated
<1>7. SignedOK'
  BY DEF StoreInv, SignedOK, Authenticated, Goto
<1> QED
  BY <1>3, <1>4, <1>5, <1>6, <1>7

LEMMA SelectUserStore ==
    ASSUME StoreInv, NEW r \in Request, SelectUser(r)
    PROVE  SignedOK' /\ StaleOK' /\ WritersOK' /\ LostOK' /\ TargetsOK'
<1>1. OthersStay(r)
  BY DEF StoreInv, Inv, TypeOK, SelectUser, Goto, OthersStay
<1>2. LocksStay(r)
  BY DEF SelectUser, LocksStay
<1>3. StaleOK'
  BY <1>1, StaleKept DEF StoreInv, StaleOK, SelectUser, InFlight, InOwn
<1>4. WritersOK'
  BY <1>1, <1>2, WritersKept DEF StoreInv, Inv, TypeOK, SelectUser, Goto, Inserting
<1>5. LostOK'
  BY <1>1, <1>2, LostKept DEF SelectUser
<1>6. TargetsOK'
  BY <1>1, <1>2, TargetsKept DEF SelectUser
<1>7. SignedOK'
  BY DEF StoreInv, Inv, TypeOK, SignedOK, SelectUser, Goto
<1> QED
  BY <1>3, <1>4, <1>5, <1>6, <1>7

LEMMA UpdateUserStore ==
    ASSUME StoreInv, NEW r \in Request, UpdateUser(r)
    PROVE  SignedOK' /\ StaleOK' /\ WritersOK' /\ LostOK' /\ TargetsOK'
<1>1. OthersStay(r)
  BY DEF UpdateUser, Goto, OthersStay
<1>2. LocksStay(r)
  BY DEF UpdateUser, LocksStay
<1>3. StaleOK'
  BY <1>1, StaleKept DEF StoreInv, StaleOK, UpdateUser, InFlight, InOwn
<1>4. WritersOK'
  BY <1>1, <1>2, WritersKept DEF UpdateUser, Goto, Inserting
<1>5. LostOK'
  BY <1>1, <1>2, LostKept DEF StoreInv, Inv, ControlOK, UpdateUser
<1>6. TargetsOK'
  BY <1>1, <1>2, TargetsKept DEF UpdateUser
<1>7. SignedOK'
  BY DEF StoreInv, SignedOK, UpdateUser, Goto
<1> QED
  BY <1>3, <1>4, <1>5, <1>6, <1>7

LEMMA SignStore ==
    ASSUME StoreInv, NEW r \in Request, Sign(r)
    PROVE  SignedOK' /\ StaleOK' /\ WritersOK' /\ LostOK' /\ TargetsOK'
<1>1. OthersStay(r)
  BY DEF Sign, Goto, OthersStay
<1>2. LocksStay(r)
  BY DEF Sign, LocksStay
<1>3. StaleOK'
  <2>1. ASSUME NEW q \in stale
        PROVE  /\ q \in Request /\ q # r /\ Dead(presented[q]) /\ Dead(presented[q])'
    <3>1. /\ Dead(presented[q]) /\ q # r
          /\ presented[q] \in Token
      BY DEF StoreInv, StaleOK, Inv, TypeOK, Sign
    <3>2. token'[r] # presented[q]
      BY <3>1 DEF StoreInv, Inv, TypeOK, Sign, Dead
    <3> QED
      BY <1>1, <3>1 DEF StoreInv, Inv, TypeOK, Sign, OthersStay, Dead, Holding, Live
  <2> QED
    BY <1>1, <2>1 DEF StoreInv, StaleOK, Sign, OthersStay
<1>4. WritersOK'
  BY <1>1, <1>2, WritersKept DEF Sign, Goto, Inserting
<1>5. LostOK'
  BY <1>1, <1>2, LostKept DEF StoreInv, LostOK, Sign, Goto
<1>6. TargetsOK'
  BY <1>1, <1>2, TargetsKept DEF Sign
<1>7. SignedOK'
  <2>1. token' = [token EXCEPT ![r] = [user |-> input[r].user, iat |-> now]]
    BY DEF Sign
  <2>2. [user |-> input[r].user, iat |-> now] \in Token
    BY InputFields DEF StoreInv, Inv, TypeOK, Token
  <2>3. token'[r] # None
    BY <2>1, <2>2, NoneAssumption DEF StoreInv, Inv, TypeOK
  <2> QED
    BY <2>3 DEF StoreInv, SignedOK, Sign, Goto
<1> QED
  BY <1>3, <1>4, <1>5, <1>6, <1>7

LEMMA InsertSessionStore ==
    ASSUME StoreInv, NEW r \in Request, InsertSession(r)
    PROVE  SignedOK' /\ StaleOK' /\ WritersOK' /\ LostOK' /\ TargetsOK'
<1>1. OthersStay(r)
  BY DEF StoreInv, Inv, TypeOK, InsertSession, Rollback, Goto, OthersStay
<1>2. LocksStay(r)
  BY NoneAssumption DEF InsertSession, Rollback, Release, LocksStay
<1>3. StaleOK'
  BY <1>1, StaleKept DEF StoreInv, StaleOK, InsertSession, InFlight, InOwn
<1>4. WritersOK'
  <2>1. CASE Rollback(r, "error")
    BY <1>1, <1>2, <2>1, WritersKept DEF InsertSession, Rollback, Goto, Inserting
  <2>2. CASE ~Contended(token[r], r, r) /\ UNCHANGED rowLock
    <3>1. Row(r) = r /\ r \notin Writing(token[r])
      BY DEF StoreInv, Inv, ControlOK, InsertSession, Row, Writing
    <3> QED
      BY <1>1, <1>2, <2>2, <3>1, WriterJoins DEF InsertSession
  <2> QED
    BY <2>1, <2>2 DEF InsertSession
<1>5. LostOK'
  BY <1>1, <1>2, LostKept DEF StoreInv, Inv, ControlOK, InsertSession
<1>6. TargetsOK'
  BY <1>1, <1>2, TargetsKept DEF InsertSession, Rollback, Release
<1>7. SignedOK'
  BY DEF StoreInv, Inv, TypeOK, SignedOK, InsertSession, Rollback, Goto
<1> QED
  BY <1>3, <1>4, <1>5, <1>6, <1>7

LEMMA SelectSessionStore ==
    ASSUME StoreInv, NEW r \in Request, SelectSession(r)
    PROVE  SignedOK' /\ StaleOK' /\ WritersOK' /\ LostOK' /\ TargetsOK'
<1>1. OthersStay(r)
  BY DEF StoreInv, Inv, TypeOK, SelectSession, Goto, OthersStay
<1>2. LocksStay(r)
  BY DEF SelectSession, LocksStay
<1>3. StaleOK'
  <2>1. r \in stale => pc'[r] = "unauthorized"
    BY DEF StoreInv, Inv, TypeOK, StaleOK, Dead, SelectSession, Goto
  <2> QED
    BY <1>1, <2>1, StaleKept DEF SelectSession, InFlight, InOwn
<1>4. WritersOK'
  BY <1>1, <1>2, WritersKept DEF StoreInv, Inv, TypeOK, SelectSession, Goto
<1>5. LostOK'
  BY <1>1, <1>2, LostKept DEF StoreInv, Inv, TypeOK, SelectSession, Holding, Goto
<1>6. TargetsOK'
  BY <1>1, <1>2, TargetsKept DEF SelectSession
<1>7. SignedOK'
  BY DEF StoreInv, Inv, TypeOK, SignedOK, SelectSession, Goto
<1> QED
  BY <1>3, <1>4, <1>5, <1>6, <1>7

LEMMA PurgeStore ==
    ASSUME StoreInv, NEW r \in Request, Purge(r)
    PROVE  SignedOK' /\ StaleOK' /\ WritersOK' /\ LostOK' /\ TargetsOK'
<1>1. OthersStay(r)
  BY DEF Purge, Goto, OthersStay
<1>2. LocksStay(r)
  BY DEF Purge, LocksStay
<1>3. StaleOK'
  BY <1>1, StaleKept DEF StoreInv, StaleOK, Purge, InFlight, InOwn
<1>4. WritersOK'
  BY <1>1, <1>2, WritersKept DEF Purge, Goto, Inserting
<1>5. LostOK'
  BY <1>1, <1>2, LostKept DEF StoreInv, LostOK, Purge, Goto
<1>6. TargetsOK'
  BY <1>1, <1>2, TargetsKept DEF Purge
<1>7. SignedOK'
  BY DEF StoreInv, SignedOK, Purge, Goto
<1> QED
  BY <1>3, <1>4, <1>5, <1>6, <1>7

LEMMA UpdateSessionStore ==
    ASSUME StoreInv, NEW r \in Request, UpdateSession(r)
    PROVE  SignedOK' /\ StaleOK' /\ WritersOK' /\ LostOK' /\ TargetsOK'
<1>1. OthersStay(r)
  BY DEF StoreInv, Inv, TypeOK, UpdateSession, Rollback, Goto, OthersStay
<1>2. LocksStay(r)
  BY NoneAssumption DEF StoreInv, Inv, TypeOK, UpdateSession, Rollback, Release,
     LocksStay
<1>3. StaleOK'
  BY <1>1, StaleKept DEF StoreInv, StaleOK, UpdateSession, InFlight, InOwn
<1>4. WritersOK'
  <2>1. input[r].op = "refresh" /\ Row(r) = session[r] /\ r \notin Writing(token[r])
    BY DEF StoreInv, Inv, ControlOK, UpdateSession, Row, Writing
  <2>2. CASE Rollback(r, "error")
    BY <1>1, <1>2, <2>1, <2>2, WritersKept DEF UpdateSession, Rollback, Goto
  <2>3. CASE ~Contended(token[r], session[r], r)
    BY <1>1, <1>2, <2>1, <2>3, WriterJoins DEF UpdateSession
  <2>4. CASE session[r] \notin Live /\ UNCHANGED rowLock
    <3>1. rowLock'[session[r]] # r
      BY <2>4, NoneAssumption DEF UpdateSession
    <3>2. \A q \in Request : \A t : q \in Writing(t)' <=> q \in Writing(t)
      BY <2>1, <2>4, <3>1 DEF StoreInv, Inv, TypeOK, UpdateSession, Goto, Writing
    <3>3. ASSUME NEW q \in Request, q \in Writing(token[q])'
          PROVE  /\ Holding(token[q])' \subseteq {Row(q)'}
                 /\ Writing(token[q])' \subseteq {q}
      <4>1. q \in Writing(token[q])
        BY <3>2, <3>3 DEF Writing
      <4>2. Holding(token[q]) \subseteq {Row(q)} /\ Writing(token[q]) \subseteq {q}
        BY <4>1 DEF StoreInv, WritersOK
      <4>3. Holding(token[q])' = Holding(token[q]) /\ Row(q)' = Row(q)
        BY DEF UpdateSession, Holding, Live, Row
      <4> QED
        BY <3>2, <4>2, <4>3 DEF UpdateSession, Writing
    <3> QED
      BY <3>3 DEF WritersOK
  <2> QED
    BY <2>2, <2>3, <2>4 DEF UpdateSession
<1>5. LostOK'
  <2>1. input[r].op = "refresh" /\ session[r] \in Request
    BY DEF StoreInv, Inv, TypeOK, ControlOK, FoundOK, UpdateSession
  <2>2. CASE Rollback(r, "error")
    BY <1>1, <1>2, <2>2, LostKept DEF StoreInv, Inv, TypeOK, UpdateSession, Rollback,
       Goto
  <2>3. CASE session[r] \in Live /\ rowLock' = [rowLock EXCEPT ![session[r]] = r] /\ Goto(r, "commit")
    BY <1>1, <1>2, <2>1, <2>3, LostKept DEF StoreInv, Inv, TypeOK, UpdateSession
  <2>4. CASE session[r] \notin Live /\ Goto(r, "commit")
    <3>1. LoggedOut(input[r].user)
      BY <2>1, <2>4 DEF StoreInv, LostOK, UpdateSession
    <3> QED
      BY <1>1, <1>2, <3>1, LostKept DEF UpdateSession
  <2> QED
    BY <2>2, <2>3, <2>4 DEF UpdateSession
<1>6. TargetsOK'
  BY <1>1, <1>2, TargetsKept DEF StoreInv, Inv, ControlOK, UpdateSession
<1>7. SignedOK'
  BY DEF StoreInv, Inv, TypeOK, SignedOK, UpdateSession, Rollback, Goto
<1> QED
  BY <1>3, <1>4, <1>5, <1>6, <1>7

LEMMA SnapshotSessionsStore ==
    ASSUME StoreInv, NEW r \in Request, SnapshotSessions(r)
    PROVE  SignedOK' /\ StaleOK' /\ WritersOK' /\ LostOK' /\ TargetsOK'
<1>1. OthersStay(r)
  BY DEF SnapshotSessions, Goto, OthersStay
<1>2. LocksStay(r)
  BY DEF SnapshotSessions, LocksStay
<1>3. StaleOK'
  BY <1>1, StaleKept DEF StoreInv, StaleOK, SnapshotSessions, InFlight, InOwn
<1>4. WritersOK'
  BY <1>1, <1>2, WritersKept DEF SnapshotSessions, Goto, Inserting
<1>5. LostOK'
  BY <1>1, <1>2, LostKept DEF SnapshotSessions, Goto
<1>6. TargetsOK'
  <2>1. targets'[r] = Of(input[r].user) /\ rowLock' = rowLock
    BY DEF StoreInv, Inv, TypeOK, SnapshotSessions
  <2>2. \A i \in Of(input[r].user) : i \in Opened /\ input[i].user = input[r].user
    BY DEF StoreInv, Inv, SessionsOK, Of
  <2>3. pc[r] = "snapshot"
    BY DEF SnapshotSessions
  <2> QED
    BY <1>1, <2>1, <2>2, <2>3 DEF StoreInv, TargetsOK, OthersStay, SnapshotSessions, Opened
<1>7. SignedOK'
  BY DEF StoreInv, SignedOK, SnapshotSessions, Goto
<1> QED
  BY <1>3, <1>4, <1>5, <1>6, <1>7

LEMMA DeleteSessionsStore ==
    ASSUME StoreInv, NEW r \in Request, DeleteSessions(r)
    PROVE  SignedOK' /\ StaleOK' /\ WritersOK' /\ LostOK' /\ TargetsOK'
<1>1. OthersStay(r)
  BY DEF DeleteSessions, Goto, OthersStay
<1>2. LocksStay(r)
  BY NoneAssumption DEF DeleteSessions, LocksStay
<1>3. StaleOK'
  BY <1>1, StaleKept DEF StoreInv, StaleOK, DeleteSessions, InFlight, InOwn
<1>4. WritersOK'
  BY <1>1, <1>2, WritersKept DEF StoreInv, Inv, ControlOK, DeleteSessions
<1>5. LostOK'
  BY <1>1, <1>2, LostKept DEF StoreInv, Inv, TypeOK, ControlOK, LostOK,
     DeleteSessions, Goto, InOwn
<1>6. TargetsOK'
  BY <1>1, <1>2, TargetsKept DEF DeleteSessions
<1>7. SignedOK'
  BY DEF StoreInv, Inv, ControlOK, SignedOK, DeleteSessions, Goto
<1> QED
  BY <1>3, <1>4, <1>5, <1>6, <1>7

LEMMA InsertAuditStore ==
    ASSUME StoreInv, NEW r \in Request, InsertAudit(r)
    PROVE  SignedOK' /\ StaleOK' /\ WritersOK' /\ LostOK' /\ TargetsOK'
<1>1. OthersStay(r)
  BY DEF InsertAudit, Goto, OthersStay
<1>2. LocksStay(r)
  BY DEF InsertAudit, LocksStay
<1>3. StaleOK'
  BY <1>1, StaleKept DEF StoreInv, StaleOK, InsertAudit, InFlight, InAudit
<1>4. WritersOK'
  BY <1>1, <1>2, WritersKept DEF StoreInv, Inv, ControlOK, InsertAudit, Goto,
     Inserting
<1>5. LostOK'
  BY <1>1, <1>2, LostKept DEF StoreInv, Inv, ControlOK, InsertAudit, Goto
<1>6. TargetsOK'
  BY <1>1, <1>2, TargetsKept DEF InsertAudit
<1>7. SignedOK'
  BY DEF StoreInv, SignedOK, InsertAudit, Goto
<1> QED
  BY <1>3, <1>4, <1>5, <1>6, <1>7

LEMMA ReplyStore ==
    ASSUME StoreInv, NEW r \in Request, Reply(r)
    PROVE  SignedOK' /\ StaleOK' /\ WritersOK' /\ LostOK' /\ TargetsOK'
<1>1. OthersStay(r) /\ pc'[r] \in {"loggedIn", "refreshed", "loggedOut", "error"}
  BY InputFields DEF StoreInv, Inv, TypeOK, Reply, Goto, OthersStay
<1>2. LocksStay(r) /\ pc[r] = "reply" /\ r \in committed
  BY DEF StoreInv, Inv, CommitOK, Committed, Reply, LocksStay
<1>3. StaleOK'
  BY <1>1, <1>2, StaleKept DEF StoreInv, StaleOK, Reply, InFlight, InOwn, InAudit,
     Waiting
<1>4. WritersOK'
  BY <1>1, <1>2, WritersKept DEF Reply, Inserting
<1>5. LostOK'
  BY <1>1, <1>2, LostKept DEF Reply
<1>6. TargetsOK'
  BY <1>1, <1>2, TargetsKept DEF Reply
<1>7. SignedOK'
  <2>1. pc'[r] \in {"loggedIn", "refreshed"} => token[r] # None
    BY <1>2, InputFields DEF StoreInv, Inv, TypeOK, SignedOK, Reply, Goto
  <2> QED
    BY <1>1, <2>1 DEF StoreInv, SignedOK, Reply, OthersStay
<1> QED
  BY <1>3, <1>4, <1>5, <1>6, <1>7

LEMMA GiveUpStore ==
    ASSUME StoreInv, NEW r \in Request, GiveUp(r)
    PROVE  SignedOK' /\ StaleOK' /\ WritersOK' /\ LostOK' /\ TargetsOK'
<1>1. OthersStay(r)
  BY DEF StoreInv, Inv, TypeOK, GiveUp, Goto, OthersStay
<1>2. LocksStay(r)
  BY DEF GiveUp, LocksStay
<1>3. StaleOK'
  BY <1>1, StaleKept DEF StoreInv, Inv, TypeOK, StaleOK, GiveUp, Goto, InFlight,
     Waiting
<1>4. WritersOK'
  BY <1>1, <1>2, WritersKept DEF StoreInv, Inv, TypeOK, ControlOK, GiveUp, Goto,
     Inserting
<1>5. LostOK'
  BY <1>1, <1>2, LostKept DEF StoreInv, Inv, TypeOK, ControlOK, GiveUp, Goto
<1>6. TargetsOK'
  BY <1>1, <1>2, TargetsKept DEF GiveUp
<1>7. SignedOK'
  BY DEF StoreInv, Inv, TypeOK, SignedOK, GiveUp, Goto
<1> QED
  BY <1>3, <1>4, <1>5, <1>6, <1>7

LEMMA ExpireStore ==
    ASSUME StoreInv, NEW r \in Request, Expire(r)
    PROVE  SignedOK' /\ StaleOK' /\ WritersOK' /\ LostOK' /\ TargetsOK'
<1>1. OthersStay(r)
  BY DEF Expire, Rollback, Goto, OthersStay
<1>2. LocksStay(r)
  BY NoneAssumption DEF Expire, Rollback, Release, LocksStay
<1>3. StaleOK'
  BY <1>1, StaleKept DEF StoreInv, StaleOK, Expire, Rollback, Goto, InFlight
<1>4. WritersOK'
  BY <1>1, <1>2, WritersKept DEF StoreInv, Inv, TypeOK, Expire, Rollback, Goto,
     Inserting
<1>5. LostOK'
  BY <1>1, <1>2, LostKept DEF StoreInv, Inv, TypeOK, ControlOK, LostOK, Expire,
     Rollback, Release, Goto, InOwn
<1>6. TargetsOK'
  BY <1>1, <1>2, TargetsKept DEF Expire, Rollback, Release, InOwn
<1>7. SignedOK'
  BY DEF StoreInv, SignedOK, Expire, Rollback, Goto
<1> QED
  BY <1>3, <1>4, <1>5, <1>6, <1>7

\* What a commit may do to sessions and tokens that are presented elsewhere.
LEMMA CommitStale ==
    ASSUME StoreInv, NEW r \in Request, OthersStay(r),
           UNCHANGED <<presented, now, stale, token>>,
           pc[r] = "commit", committed' = committed \cup {r},
           \A i \in Request : sessions'[i] \in {None, sessions[i], token[r]}
    PROVE  StaleOK'
<1>1. r \notin stale /\ pc[r] \in InFlight /\ r \notin committed
  BY DEF StoreInv, Inv, CommitOK, Committed, StaleOK, InFlight, InOwn
<1>2. ASSUME NEW q \in stale
      PROVE  Dead(presented[q])'
  <2>1. Dead(presented[q]) /\ presented[q] # None
    BY DEF StoreInv, StaleOK
  <2>2. token[r] # presented[q]
    BY <1>1, <2>1 DEF Dead
  <2>3. Holding(presented[q])' = {}
    BY <2>1, <2>2 DEF Dead, Holding, Live
  <2> QED
    BY <2>1, <2>3 DEF Dead, OthersStay
<1>3. stale \subseteq Request
  BY DEF StoreInv, Inv, TypeOK
<1> QED
  BY <1>2, <1>3 DEF StoreInv, StaleOK, OthersStay

LEMMA CommitWriters ==
    ASSUME StoreInv, NEW r \in Request, OthersStay(r), LocksStay(r),
           UNCHANGED <<token, session>>,
           pc'[r] \notin Inserting,
           \A i \in Request : \/ sessions'[i] \in {None, sessions[i]}
                              \/ sessions'[i] = token[r] /\ r \in Writing(token[r])
    PROVE  WritersOK'
<1>1. ASSUME NEW q \in Request, NEW t, q \in Writing(t)'
      PROVE  q # r /\ q \in Writing(t)
  <2>1. q # r
    BY <1>1 DEF Writing, Inserting
  <2> QED
    BY <1>1, <2>1 DEF StoreInv, Inv, FoundOK, TypeOK, OthersStay, LocksStay, Writing
<1>2. ASSUME NEW q \in Request, q \in Writing(token[q])'
      PROVE  /\ Holding(token[q])' \subseteq {Row(q)'}
             /\ Writing(token[q])' \subseteq {q}
  <2>1. q # r /\ q \in Writing(token[q])
    BY <1>1, <1>2
  <2>2. Holding(token[q]) \subseteq {Row(q)} /\ Writing(token[q]) \subseteq {q}
    BY <2>1 DEF StoreInv, WritersOK
  <2>3. ~(token[r] = token[q] /\ r \in Writing(token[r]))
    BY <2>1, <2>2
  <2>4. Holding(token[q])' \subseteq Holding(token[q])
    BY <2>3 DEF Holding, Live
  <2>5. Row(q)' = Row(q)
    BY DEF OthersStay, Row
  <2>6. Writing(token[q])' \subseteq Writing(token[q])
    BY <1>1 DEF Writing
  <2> QED
    BY <2>2, <2>4, <2>5, <2>6
<1> QED
  BY <1>2 DEF WritersOK

LEMMA CommitLoginStore ==
    ASSUME StoreInv, NEW r \in Request, CommitLogin(r)
    PROVE  SignedOK' /\ StaleOK' /\ WritersOK' /\ LostOK' /\ TargetsOK'
<1>1. /\ OthersStay(r) /\ pc[r] = "commit" /\ pc'[r] = "reply"
      /\ committed' = committed \cup {r}
  BY DEF StoreInv, Inv, TypeOK, CommitLogin, Commit, Goto, OthersStay
<1>2. LocksStay(r) /\ \A i \in Request : rowLock'[i] # r
  BY NoneAssumption DEF CommitLogin, Commit, Release, LocksStay
<1>3. SignedOK'
  BY <1>1 DEF StoreInv, SignedOK, CommitLogin, Commit, OthersStay
<1>4. \A i \in Request : sessions'[i] = sessions[i] \/ sessions'[i] = token[r]
  BY DEF CommitLogin, Commit
<1>5. StaleOK'
  BY <1>1, CommitStale DEF CommitLogin, Commit
<1>6. WritersOK'
  BY <1>1, <1>2, CommitWriters DEF CommitLogin, Commit, Inserting, Writing
<1>7. LostOK'
  <2>1. sessions[r] = None /\ Live \subseteq Live'
    BY <1>1 DEF StoreInv, Inv, SessionsOK, CommitOK, Committed, Opened, CommitLogin,
       Live
  <2>2. \A u : LoggedOut(u) => LoggedOut(u)'
    BY <1>1 DEF OthersStay, LoggedOut, CommitLogin, Commit
  <2>3. ASSUME NEW q \in Request, input[q].op = "refresh"
        PROVE  /\ pc'[q] \in {"sign", "purge", "update"} =>
                     session'[q] \in Live' \/ LoggedOut(input[q].user)
               /\ pc'[q] = "commit" =>
                     rowLock'[session'[q]] = q \/ LoggedOut(input[q].user)
    <3>1. q # r /\ (pc[q] = "commit" => session[q] \in Request)
      BY <2>3 DEF StoreInv, Inv, TypeOK, FoundOK, CommitLogin, Commit
    <3> QED
      BY <1>1, <1>2, <2>1, <2>3, <3>1 DEF StoreInv, LostOK, LocksStay, OthersStay
  <2> QED
    BY <2>2, <2>3 DEF LostOK, CommitLogin, Commit
<1>8. TargetsOK'
  BY <1>1, <1>2 DEF StoreInv, TargetsOK, OthersStay, LocksStay, Opened, CommitLogin, Commit,
     Commit
<1> QED
  BY <1>3, <1>5, <1>6, <1>7, <1>8

LEMMA CommitRefreshStore ==
    ASSUME StoreInv, NEW r \in Request, CommitRefresh(r)
    PROVE  SignedOK' /\ StaleOK' /\ WritersOK' /\ LostOK' /\ TargetsOK'
<1>1. /\ OthersStay(r) /\ pc[r] = "commit" /\ pc'[r] = "reply"
      /\ committed' = committed \cup {r}
  BY DEF StoreInv, Inv, TypeOK, CommitRefresh, Commit, Goto, OthersStay
<1>2. LocksStay(r) /\ \A i \in Request : rowLock'[i] # r
  BY NoneAssumption DEF CommitRefresh, Commit, Release, LocksStay
<1>3. SignedOK'
  BY <1>1 DEF StoreInv, SignedOK, CommitRefresh, Commit, OthersStay
<1>4. \A i \in Request :
         \/ sessions'[i] = sessions[i]
         \/ sessions'[i] = token[r] /\ i \in Live /\ r \in Writing(token[r])
  <2>1. CASE rowLock[session[r]] = r
    <3>1. session[r] \in Request
      BY DEF StoreInv, Inv, TypeOK, FoundOK, CommitRefresh, Commit
    <3>2. session[r] \in Live
      BY <2>1, <3>1, NoneAssumption DEF StoreInv, Inv, LocksOK
    <3>3. r \in Writing(token[r])
      BY <2>1 DEF CommitRefresh, Commit, Writing
    <3> QED
      BY <3>2, <3>3 DEF CommitRefresh, Commit
  <2>2. CASE rowLock[session[r]] # r
    BY <2>2 DEF CommitRefresh, Commit
  <2> QED
    BY <2>1, <2>2
<1>5. StaleOK'
  BY <1>1, CommitStale DEF CommitRefresh, Commit
<1>6. WritersOK'
  BY <1>1, <1>2, <1>4, CommitWriters DEF CommitRefresh, Commit, Inserting
<1>7. LostOK'
  <2>1. token[r] # None
    BY DEF StoreInv, SignedOK, CommitRefresh, Commit
  <2>2. Live \subseteq Live'
    BY <1>4, <2>1 DEF Live
  <2>3. \A u : LoggedOut(u) => LoggedOut(u)'
    BY <1>1 DEF OthersStay, LoggedOut, CommitRefresh, Commit
  <2>4. ASSUME NEW q \in Request, input[q].op = "refresh"
        PROVE  /\ pc'[q] \in {"sign", "purge", "update"} =>
                     session'[q] \in Live' \/ LoggedOut(input[q].user)
               /\ pc'[q] = "commit" =>
                     rowLock'[session'[q]] = q \/ LoggedOut(input[q].user)
    <3>1. pc[q] = "commit" => session[q] \in Request
      BY <2>4 DEF StoreInv, Inv, TypeOK, FoundOK
    <3>2. CASE q = r
      BY <1>1, <3>2
    <3>3. CASE q # r
      BY <1>1, <1>2, <2>2, <2>4, <3>1 DEF StoreInv, LostOK, LocksStay, OthersStay
    <3> QED
      BY <3>2, <3>3
  <2> QED
    BY <2>3, <2>4 DEF LostOK, CommitRefresh, Commit
<1>8. TargetsOK'
  BY <1>1, <1>2 DEF StoreInv, TargetsOK, OthersStay, LocksStay, Opened, CommitRefresh, Commit,
     Commit
<1> QED
  BY <1>3, <1>5, <1>6, <1>7, <1>8

LEMMA CommitLogoutStore ==
    ASSUME StoreInv, NEW r \in Request, CommitLogout(r)
    PROVE  SignedOK' /\ StaleOK' /\ WritersOK' /\ LostOK' /\ TargetsOK'
<1>1. /\ OthersStay(r) /\ pc[r] = "commit" /\ pc'[r] = "reply"
      /\ committed' = committed \cup {r}
  BY DEF StoreInv, Inv, TypeOK, CommitLogout, Commit, Goto, OthersStay
<1>2. LocksStay(r) /\ \A i \in Request : rowLock'[i] # r
  BY NoneAssumption DEF CommitLogout, Commit, Release, LocksStay
<1>3. SignedOK'
  BY <1>1 DEF StoreInv, SignedOK, OthersStay, CommitLogout, Commit
<1>4. \A i \in Request :
         sessions'[i] = IF rowLock[i] = r THEN None ELSE sessions[i]
  BY DEF CommitLogout, Commit
<1>5. StaleOK'
  BY <1>1, CommitStale DEF CommitLogout, Commit
<1>6. WritersOK'
  BY <1>1, <1>2, CommitWriters DEF CommitLogout, Commit, Inserting
<1>7. LostOK'
  <2>1. \A u : LoggedOut(u) => LoggedOut(u)'
    BY <1>1 DEF OthersStay, LoggedOut
  <2>2. input[r] = [op |-> "logout", user |-> input[r].user]
    BY InputAssumption DEF StoreInv, Inv, TypeOK, CommitLogout, Commit
  <2>3. LoggedOut(input[r].user)'
    BY <1>1, <2>2 DEF OthersStay, LoggedOut
  <2>4. ASSUME NEW q \in Request, input[q].op = "refresh"
        PROVE  /\ pc'[q] \in {"sign", "purge", "update"} =>
                     session'[q] \in Live' \/ LoggedOut(input[q].user)'
               /\ pc'[q] = "commit" =>
                     rowLock'[session'[q]] = q \/ LoggedOut(input[q].user)'
    <3>1. q # r
      BY <2>4 DEF CommitLogout, Commit
    <3>2. /\ pc'[q] = pc[q] /\ session'[q] = session[q] /\ input' = input
      BY <1>1, <3>1 DEF OthersStay
    <3>3. ASSUME pc[q] \in {"sign", "purge", "update"}
          PROVE  session[q] \in Live' \/ LoggedOut(input[q].user)'
      <4>1. /\ session[q] \in Request
            /\ input[session[q]].user = input[q].user
        BY <2>4, <3>3 DEF StoreInv, Inv, TypeOK, FoundOK
      <4>2. CASE rowLock[session[q]] = r
        BY <2>3, <4>1, <4>2 DEF StoreInv, TargetsOK, CommitLogout, Commit
      <4>3. CASE rowLock[session[q]] # r
        <5>1. session[q] \in Live \/ LoggedOut(input[q].user)
          BY <2>4, <3>3 DEF StoreInv, LostOK
        <5>2. session[q] \in Live => session[q] \in Live'
          BY <1>4, <4>3 DEF Live
        <5> QED
          BY <2>1, <3>2, <5>1, <5>2
      <4> QED
        BY <4>2, <4>3
    <3>4. ASSUME pc[q] = "commit"
          PROVE  rowLock'[session[q]] = q \/ LoggedOut(input[q].user)'
      <4>1. session[q] \in Request
        BY <2>4, <3>4 DEF StoreInv, Inv, TypeOK, FoundOK
      <4>2. rowLock[session[q]] = q \/ LoggedOut(input[q].user)
        BY <2>4, <3>4 DEF StoreInv, LostOK
      <4> QED
        BY <1>2, <2>1, <3>1, <3>2, <4>1, <4>2 DEF LocksStay
    <3> QED
      BY <3>2, <3>3, <3>4
  <2> QED
    BY <2>4 DEF LostOK, CommitLogout, Commit
<1>8. TargetsOK'
  BY <1>1, <1>2 DEF StoreInv, TargetsOK, OthersStay, LocksStay, Opened, CommitLogout, Commit,
     Commit
<1> QED
  BY <1>3, <1>5, <1>6, <1>7, <1>8

LEMMA CrashStore ==
    ASSUME StoreInv, Crash
    PROVE  SignedOK' /\ StaleOK' /\ WritersOK' /\ LostOK' /\ TargetsOK'
<1>1. \A q \in Request : /\ pc[q] \in InFlight => pc'[q] = "lost"
                         /\ pc[q] \notin InFlight => pc'[q] = pc[q]
  BY DEF Crash
<1>2. \A q \in Request : pc'[q] \notin InFlight
  BY <1>1 DEF InFlight, InOwn, InAudit, Waiting
<1>3. SignedOK'
  BY DEF StoreInv, SignedOK, Crash
<1>4. StaleOK'
  <2>1. ASSUME NEW q \in stale
        PROVE  Dead(presented[q])'
    <3>1. Dead(presented[q])
      BY DEF StoreInv, StaleOK
    <3> QED
      BY <3>1 DEF Crash, Dead, Holding, Live
  <2> QED
    BY <2>1 DEF StoreInv, StaleOK, Inv, TypeOK, Crash
<1>5. WritersOK'
  BY <1>2 DEF WritersOK, Writing, InFlight, InOwn
<1>6. LostOK'
  BY <1>2 DEF LostOK, InFlight, InOwn
<1>7. TargetsOK'
  BY NoneAssumption DEF StoreInv, TargetsOK, Crash, Opened
<1> QED
  BY <1>3, <1>4, <1>5, <1>6, <1>7

LEMMA TickStore ==
    ASSUME StoreInv, Tick
    PROVE  SignedOK' /\ StaleOK' /\ WritersOK' /\ LostOK' /\ TargetsOK'
<1>1. SignedOK'
  BY DEF StoreInv, SignedOK, Tick
<1>2. StaleOK'
  <2>1. ASSUME NEW q \in stale
        PROVE  Dead(presented[q])'
    <3>1. Dead(presented[q]) /\ presented[q] \in Token
      BY DEF StoreInv, StaleOK, Inv, TypeOK
    <3>2. presented[q].iat < now'
      BY <3>1 DEF StoreInv, Inv, TypeOK, Tick, Dead, Token
    <3> QED
      BY <3>1, <3>2 DEF Tick, Dead, Holding, Live
  <2> QED
    BY <2>1 DEF StoreInv, StaleOK, Tick
<1>3. WritersOK'
  BY DEF StoreInv, WritersOK, Tick, Writing, Holding, Live, Row
<1>4. LostOK' /\ TargetsOK'
  BY DEF StoreInv, LostOK, TargetsOK, Tick, Live, LoggedOut, Opened
<1> QED
  BY <1>1, <1>2, <1>3, <1>4

----------------------------------------------------------------------------
(* The invariant, and DeadTokensStayDead. *)

LEMMA StoreInvInit == Init => StoreInv
<1> SUFFICES ASSUME Init PROVE StoreInv
  OBVIOUS
<1>1. SignedOK /\ StaleOK
  BY DEF Init, SignedOK, StaleOK
<1>2. WritersOK /\ LostOK /\ TargetsOK
  BY NoneAssumption DEF Init, WritersOK, Writing, LostOK, TargetsOK
<1> QED
  BY <1>1, <1>2, InvInit DEF StoreInv

LEMMA StoreInvStep == StoreInv /\ [Next]_vars => StoreInv'
<1> SUFFICES ASSUME StoreInv, [Next]_vars PROVE StoreInv'
  OBVIOUS
<1> DEFINE Added == SignedOK /\ StaleOK /\ WritersOK /\ LostOK /\ TargetsOK
<1>1. ASSUME UNCHANGED vars PROVE Added'
  <2>1. SignedOK' /\ StaleOK' /\ TargetsOK'
    BY <1>1 DEF StoreInv, vars, SignedOK, StaleOK, TargetsOK, Dead, Holding, Live,
       Opened
  <2>2. WritersOK' /\ LostOK'
    BY <1>1 DEF StoreInv, vars, WritersOK, LostOK, Writing, Holding, Live, Row,
       LoggedOut
  <2> QED
    BY <2>1, <2>2
<1>2. ASSUME Quiescent PROVE Added'
  BY <1>1, <1>2 DEF Quiescent
<1>3. ASSUME NEW r \in Request, Login(r) \/ Refresh(r) \/ Logout(r)
      PROVE  Added'
  BY <1>3, LoginStore, RefreshStore, LogoutStore
<1>4. ASSUME NEW r \in Request, Timeout(r)
      PROVE  Added'
  BY <1>4, GiveUpStore, ExpireStore DEF Timeout
<1>5. ASSUME NEW r \in Request, Statement(r)
      PROVE  Added'
  <2>1. CASE Verify(r) \/ Open(r) \/ Authenticated(r)
    BY <2>1, VerifyStore, OpenStore, AuthenticatedStore
  <2>2. CASE SelectUser(r) \/ UpdateUser(r) \/ Sign(r) \/ InsertSession(r)
    BY <2>2, SelectUserStore, UpdateUserStore, SignStore, InsertSessionStore
  <2>3. CASE SelectSession(r) \/ Purge(r) \/ UpdateSession(r)
    BY <2>3, SelectSessionStore, PurgeStore, UpdateSessionStore
  <2>4. CASE SnapshotSessions(r) \/ DeleteSessions(r) \/ InsertAudit(r)
    BY <2>4, SnapshotSessionsStore, DeleteSessionsStore, InsertAuditStore
  <2>5. CASE CommitLogin(r) \/ CommitRefresh(r) \/ CommitLogout(r)
    BY <2>5, CommitLoginStore, CommitRefreshStore, CommitLogoutStore
  <2>6. CASE Reply(r)
    BY <2>6, ReplyStore
  <2> QED
    BY <1>5, <2>1, <2>2, <2>3, <2>4, <2>5, <2>6 DEF Statement
<1>6. Added'
  BY <1>1, <1>2, <1>3, <1>4, <1>5, CrashStore, TickStore DEF Next
<1>7. Inv'
  BY InvStep DEF StoreInv
<1> QED
  BY <1>6, <1>7 DEF StoreInv

\* What one transaction may rely on between its statements, whatever runs beside
\* it: its token remains unique, and its session remains or its user has logged
\* out.  (refreshToken 139-174, logout 183-198)
THEOREM StoreInvariance == Spec => []StoreInv
BY StoreInvInit, StoreInvStep, PTL DEF Spec

\* A refresh token that no session held when it was presented, because it was
\* replaced or its sessions were logged out, never rotates a session, whatever
\* runs beside it and whether or not anybody was answered.  (refreshToken 139-174)
THEOREM DeadStayDead == Spec => []DeadTokensStayDead
<1>1. StoreInv => DeadTokensStayDead
  BY DEF StoreInv, StaleOK, DeadTokensStayDead
<1> QED
  BY <1>1, StoreInvariance, PTL

----------------------------------------------------------------------------
(* Every step is a step of the abstract store, or changes nothing of it. *)

LEMMA Statuses ==
    /\ Status("idle") = "none"
    /\ \A l \in InFlight : Status(l) = "pending"
    /\ \A l \in {"loggedIn", "refreshed", "loggedOut"} : Status(l) = "ok"
    /\ \A l \in {"unauthorized", "error", "lost"} : Status(l) = "refused"
BY DEF Status, InFlight, InOwn, InAudit, Waiting

LEMMA AnswerChange ==
    ASSUME NEW r \in Request, OthersStay(r)
    PROVE  /\ Answer[r] = Status(pc[r])
           /\ Answer' = [Answer EXCEPT ![r] = Status(pc'[r])]
BY DEF OthersStay, Answer

LEMMA ArrivalRefines ==
    ASSUME StoreInv, NEW r \in Request, Login(r) \/ Refresh(r) \/ Logout(r)
    PROVE  Store!Arrive(r)
<1>1. /\ OthersStay(r) /\ pc[r] = "idle" /\ pc'[r] \in InFlight
      /\ UNCHANGED <<sessions, input, committed>>
  BY DEF StoreInv, Inv, TypeOK, Login, Refresh, Logout, Goto, OthersStay, InFlight,
     Waiting
<1>2. Answer[r] = "none" /\ Answer' = [Answer EXCEPT ![r] = "pending"]
  BY <1>1, AnswerChange, Statuses
<1>3. before' = IF input[r].op = "logout"
                THEN [before EXCEPT ![r] = Of(input[r].user)] ELSE before
  BY DEF Login, Refresh, Logout
<1>4. Of(input[r].user) = Store!OpenFor(r)
  BY DEF Of, Live, Store!OpenFor, Store!Open
<1> QED
  BY <1>1, <1>2, <1>3, <1>4 DEF Store!Arrive

\* A step inside a transaction: the answer is pending, or it becomes a refusal.
LEMMA InnerRefines ==
    ASSUME StoreInv, NEW r \in Request, OthersStay(r),
           pc[r] \in InFlight,
           pc'[r] \in InFlight \cup {"unauthorized", "error"},
           UNCHANGED <<sessions, committed, before>>
    PROVE  Store!Refuse \/ UNCHANGED Store!vars
<1>1. Answer[r] = "pending" /\ UNCHANGED input
  BY AnswerChange, Statuses DEF OthersStay
<1>2. CASE pc'[r] \in InFlight
  <2>1. Answer' = Answer
    BY <1>1, <1>2, AnswerChange, Statuses DEF Answer
  <2> QED
    BY <1>1, <2>1 DEF Store!vars
<1>3. CASE pc'[r] \in {"unauthorized", "error"}
  <2>1. Answer' = [q \in Request |-> IF q \in {r} THEN "refused" ELSE Answer[q]]
    <3>1. Answer' = [Answer EXCEPT ![r] = "refused"]
      BY <1>3, AnswerChange, Statuses
    <3>2. Answer = [q \in Request |-> Answer[q]]
      BY DEF Answer
    <3> QED
      BY <3>1, <3>2
  <2> QED
    BY <1>1, <2>1 DEF Store!Refuse
<1> QED
  BY <1>2, <1>3

LEMMA StatementRefines ==
    ASSUME StoreInv, NEW r \in Request, Statement(r) \/ Timeout(r),
           ~CommitLogin(r), ~CommitRefresh(r), ~CommitLogout(r), ~Reply(r)
    PROVE  Store!Refuse \/ UNCHANGED Store!vars
<1>1. CASE Verify(r)
  <2>1. OthersStay(r)
    BY <1>1 DEF Verify, Goto, OthersStay
  <2> QED
    BY <1>1, <2>1, InnerRefines DEF Verify, Goto, InFlight, Waiting
<1>2. CASE Open(r)
  <2>1. OthersStay(r)
    BY <1>2 DEF StoreInv, Inv, TypeOK, Open, Goto, OthersStay
  <2> QED
    BY <1>2, <2>1, InnerRefines DEF StoreInv, Inv, TypeOK, Open, Goto, InFlight,
       InOwn, InAudit, Waiting
<1>3. CASE Authenticated(r)
  <2>1. OthersStay(r)
    BY <1>3 DEF Authenticated, Goto, OthersStay
  <2> QED
    BY <1>3, <2>1, InnerRefines DEF Authenticated, Goto, InFlight, InOwn, Waiting
<1>4. CASE SelectUser(r)
  <2>1. OthersStay(r)
    BY <1>4 DEF StoreInv, Inv, TypeOK, SelectUser, Goto, OthersStay
  <2> QED
    BY <1>4, <2>1, InnerRefines DEF StoreInv, Inv, TypeOK, SelectUser, Goto, InFlight,
       InOwn
<1>5. CASE UpdateUser(r)
  <2>1. OthersStay(r)
    BY <1>5 DEF UpdateUser, Goto, OthersStay
  <2> QED
    BY <1>5, <2>1, InnerRefines DEF UpdateUser, Goto, InFlight, InOwn
<1>6. CASE Sign(r)
  <2>1. OthersStay(r)
    BY <1>6 DEF Sign, Goto, OthersStay
  <2> QED
    BY <1>6, <2>1, InnerRefines DEF Sign, Goto, InFlight, InOwn
<1>7. CASE InsertSession(r)
  <2>1. OthersStay(r)
    BY <1>7 DEF StoreInv, Inv, TypeOK, InsertSession, Rollback, Goto, OthersStay
  <2> QED
    BY <1>7, <2>1, InnerRefines DEF StoreInv, Inv, TypeOK, InsertSession, Rollback,
       Goto, InFlight, InOwn
<1>8. CASE SelectSession(r)
  <2>1. OthersStay(r)
    BY <1>8 DEF StoreInv, Inv, TypeOK, SelectSession, Goto, OthersStay
  <2> QED
    BY <1>8, <2>1, InnerRefines DEF StoreInv, Inv, TypeOK, SelectSession, Goto,
       InFlight, InOwn
<1>9. CASE Purge(r)
  <2>1. OthersStay(r)
    BY <1>9 DEF Purge, Goto, OthersStay
  <2> QED
    BY <1>9, <2>1, InnerRefines DEF Purge, Goto, InFlight, InOwn
<1>10. CASE UpdateSession(r)
  <2>1. OthersStay(r)
    BY <1>10 DEF StoreInv, Inv, TypeOK, UpdateSession, Rollback, Goto, OthersStay
  <2> QED
    BY <1>10, <2>1, InnerRefines DEF StoreInv, Inv, TypeOK, UpdateSession, Rollback,
       Goto, InFlight, InOwn
<1>11. CASE SnapshotSessions(r)
  <2>1. OthersStay(r)
    BY <1>11 DEF SnapshotSessions, Goto, OthersStay
  <2> QED
    BY <1>11, <2>1, InnerRefines DEF SnapshotSessions, Goto, InFlight, InOwn
<1>12. CASE DeleteSessions(r)
  <2>1. OthersStay(r)
    BY <1>12 DEF DeleteSessions, Goto, OthersStay
  <2> QED
    BY <1>12, <2>1, InnerRefines DEF DeleteSessions, Goto, InFlight, InOwn
<1>13. CASE InsertAudit(r)
  <2>1. OthersStay(r)
    BY <1>13 DEF InsertAudit, Goto, OthersStay
  <2> QED
    BY <1>13, <2>1, InnerRefines DEF InsertAudit, Goto, InFlight, InOwn, InAudit
<1>14. CASE GiveUp(r)
  <2>1. OthersStay(r)
    BY <1>14 DEF StoreInv, Inv, TypeOK, GiveUp, Goto, OthersStay
  <2> QED
    BY <1>14, <2>1, InnerRefines DEF StoreInv, Inv, TypeOK, GiveUp, Goto, InFlight,
       InOwn, Waiting
<1>15. CASE Expire(r)
  <2>1. OthersStay(r)
    BY <1>15 DEF Expire, Rollback, Goto, OthersStay
  <2> QED
    BY <1>15, <2>1, InnerRefines DEF Expire, Rollback, Goto, InFlight, InAudit,
       Waiting
<1> QED
  BY <1>1, <1>2, <1>3, <1>4, <1>5, <1>6, <1>7, <1>8, <1>9, <1>10, <1>11, <1>12, <1>13,
     <1>14, <1>15 DEF Statement, Timeout

LEMMA CommitRefines ==
    ASSUME StoreInv, NEW r \in Request,
           CommitLogin(r) \/ CommitRefresh(r) \/ CommitLogout(r)
    PROVE  Store!Login(r) \/ Store!Refresh(r) \/ Store!Logout(r)
<1>1. /\ OthersStay(r) /\ pc[r] \in InFlight /\ pc'[r] \in InFlight
      /\ pc[r] = "commit" /\ committed' = committed \cup {r}
      /\ UNCHANGED <<input, before>>
  BY DEF StoreInv, Inv, TypeOK, CommitLogin, CommitRefresh, CommitLogout, Commit,
     Goto, OthersStay, InFlight, InOwn
<1>2. \A op : input[r].op = op => Store!Effect(r, op)
  <2>1. Answer[r] = "pending" /\ Answer' = Answer
    <3>1. Answer[r] = "pending" /\ Answer' = [Answer EXCEPT ![r] = "pending"]
      BY <1>1, AnswerChange, Statuses
    <3> QED
      BY <3>1 DEF Answer
  <2>2. r \notin committed
    BY <1>1 DEF StoreInv, Inv, CommitOK, Committed
  <2> QED
    BY <1>1, <2>1, <2>2 DEF Store!Effect
<1>3. input[r].op # "logout" =>
          token[r] \in Token /\ token[r].user = input[r].user
  BY DEF StoreInv, Inv, TypeOK, TokensOK, SignedOK, CommitLogin, CommitRefresh, Commit,
     CommitLogout, Commit
<1>4. r \in Writing(token[r]) =>
          \A j \in Store!Open \ {Row(r)} : sessions[j] # token[r]
  BY DEF StoreInv, WritersOK, Holding, Live, Store!Open
<1>5. CASE CommitLogin(r)
  <2>1. sessions[r] = None /\ Row(r) = r /\ r \in Writing(token[r])
    BY <1>1, <1>5 DEF StoreInv, Inv, SessionsOK, CommitOK, Committed, Opened,
       CommitLogin, Live, Row, Writing
  <2>2. Store!Give(r, r)
    BY <1>3, <1>4, <1>5, <2>1 DEF CommitLogin, Store!Give
  <2> QED
    BY <1>2, <1>5, <2>1, <2>2 DEF CommitLogin, Commit, Store!Login
<1>6. CASE CommitRefresh(r)
  <2>1. Row(r) = session[r] /\ session[r] \in Request
    BY <1>6 DEF StoreInv, Inv, TypeOK, FoundOK, CommitRefresh, Commit, Row
  <2>2. CASE rowLock[session[r]] = r
    <3>1. r \in Writing(token[r])
      BY <1>6, <2>2 DEF CommitRefresh, Commit, Writing
    <3>2. Store!Give(session[r], r)
      BY <1>3, <1>4, <1>6, <2>1, <2>2, <3>1 DEF CommitRefresh, Commit, Store!Give
    <3>3. session[r] \in Live
      BY <2>1, <2>2, NoneAssumption DEF StoreInv, Inv, LocksOK
    <3>4. sessions[session[r]].user = input[r].user
      BY <1>6, <3>3 DEF StoreInv, Inv, SessionsOK, FoundOK, CommitRefresh, Commit
    <3>5. session[r] \in Store!OpenFor(r)
      BY <3>3, <3>4 DEF Live, Store!OpenFor, Store!Open
    <3> QED
      BY <1>2, <1>6, <3>2, <3>5 DEF CommitRefresh, Commit, Store!Refresh
  <2>3. CASE rowLock[session[r]] # r
    <3>1. LoggedOut(input[r].user)
      BY <1>6, <2>3 DEF StoreInv, LostOK, CommitRefresh, Commit
    <3> QED
      BY <1>2, <1>6, <2>3, <3>1 DEF LoggedOut, CommitRefresh, Commit, Store!Refresh
  <2> QED
    BY <2>2, <2>3
<1>7. CASE CommitLogout(r)
  <2> DEFINE ended == {i \in Request : rowLock[i] = r}
  <2>1. ended \subseteq Store!OpenFor(r)
    <3> SUFFICES ASSUME NEW i \in Request, rowLock[i] = r
                 PROVE  i \in Store!OpenFor(r)
      OBVIOUS
    <3>1. i \in Live
      BY NoneAssumption DEF StoreInv, Inv, LocksOK
    <3>2. input[i].user = input[r].user
      BY <1>7 DEF StoreInv, TargetsOK, CommitLogout, Commit
    <3>3. sessions[i].user = input[r].user
      BY <3>1, <3>2 DEF StoreInv, Inv, SessionsOK
    <3> QED
      BY <3>1, <3>3 DEF Live, Store!OpenFor, Store!Open
  <2>2. before[r] \cap Store!Open \subseteq ended
    BY <1>7 DEF StoreInv, Inv, LogoutOK, CommitLogout, Commit, Store!Open
  <2>3. sessions' = [i \in Request |-> IF i \in ended THEN None ELSE sessions[i]]
    BY <1>7 DEF CommitLogout, Commit
  <2> HIDE DEF ended
  <2> QED
    BY <1>2, <1>7, <2>1, <2>2, <2>3 DEF CommitLogout, Commit, Store!Logout
<1> QED
  BY <1>5, <1>6, <1>7

LEMMA ReplyRefines ==
    ASSUME StoreInv, NEW r \in Request, Reply(r)
    PROVE  Store!Succeed(r) \/ Store!Refuse
<1>1. /\ OthersStay(r) /\ pc[r] = "reply" /\ pc[r] \in InFlight
      /\ UNCHANGED <<sessions, committed, before>>
  BY DEF StoreInv, Inv, TypeOK, Reply, Goto, OthersStay, InFlight
<1>2. r \in committed
  BY <1>1 DEF StoreInv, Inv, CommitOK, Committed
<1>3. CASE pc'[r] = "error"
  <2>1. Store!Refuse \/ UNCHANGED Store!vars
    BY <1>1, <1>3, InnerRefines
  <2>2. Answer'[r] # Answer[r]
    BY <1>1, <1>3, Statuses DEF Answer
  <2> QED
    BY <2>1, <2>2 DEF Store!vars
<1>4. CASE pc'[r] \in {"loggedIn", "refreshed", "loggedOut"}
  <2>1. Answer[r] = "pending" /\ Answer' = [Answer EXCEPT ![r] = "ok"]
    BY <1>1, <1>4, AnswerChange, Statuses
  <2> QED
    BY <1>1, <1>2, <2>1 DEF OthersStay, Store!Succeed
<1>5. pc'[r] \in {"loggedIn", "refreshed", "loggedOut", "error"}
  BY InputFields DEF StoreInv, Inv, TypeOK, Reply, Goto
<1> QED
  BY <1>3, <1>4, <1>5

LEMMA CrashRefines ==
    ASSUME StoreInv, Crash
    PROVE  Store!Refuse
<1> DEFINE refused == {r \in Request : Answer[r] = "pending"}
<1>1. \A r \in Request : pc[r] \in InFlight <=> Answer[r] = "pending"
  BY Statuses DEF StoreInv, Inv, TypeOK, Answer, Answered
<1>2. Answer' = [r \in Request |-> IF r \in refused THEN "refused" ELSE Answer[r]]
  <2>1. ASSUME NEW r \in Request, pc[r] \in InFlight
        PROVE  Answer'[r] = "refused"
    BY <2>1, Statuses DEF Crash, Answer
  <2>2. ASSUME NEW r \in Request, pc[r] \notin InFlight
        PROVE  Answer'[r] = Answer[r]
    BY <2>2 DEF Crash, Answer
  <2> QED
    BY <1>1, <2>1, <2>2 DEF Answer
<1> QED
  BY <1>2 DEF Crash, Store!Refuse

LEMMA StepRefines == StoreInv /\ [Next]_vars => [Store!Next]_Store!vars
<1> SUFFICES ASSUME StoreInv, [Next]_vars
             PROVE  [Store!Next]_Store!vars
  OBVIOUS
<1>1. ASSUME NEW r \in Request, Login(r) \/ Refresh(r) \/ Logout(r)
      PROVE  [Store!Next]_Store!vars
  BY <1>1, ArrivalRefines DEF Store!Next
<1>2. ASSUME NEW r \in Request, Statement(r) \/ Timeout(r)
      PROVE  [Store!Next]_Store!vars
  BY <1>2, CommitRefines, ReplyRefines, StatementRefines DEF Store!Next
<1>3. CASE Crash
  BY <1>3, CrashRefines DEF Store!Next
<1>4. CASE Tick
  BY <1>4 DEF Tick, Answer, Store!vars
<1>5. CASE UNCHANGED vars
  BY <1>5 DEF vars, Answer, Store!vars
<1> QED
  BY <1>1, <1>2, <1>3, <1>4, <1>5 DEF Next, Quiescent

\* Login, refresh and logout, in transactions of several statements that overlap,
\* wait for one another, time out, lose the acknowledgement of their COMMIT and
\* are cut off by restarts, are a store of sessions that each request changes at
\* one instant while it is pending: always before it succeeds, at most once when
\* it does not.  (auth.service.ts 82-198)
THEOREM StoreImplemented == Spec => ImplementsStore
<1>1. Init => Store!Init
  BY Statuses DEF Init, Store!Init, Answer
<1> QED
  BY <1>1, StoreInvariance, StepRefines, StoreInvInit, StoreInvStep, PTL DEF Spec,
     ImplementsStore, Store!Spec
=============================================================================
