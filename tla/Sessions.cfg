SPECIFICATION FairSpec
CONSTANTS
    Request = {r1, r2, r3}
    User = {u1}
    Input <- MCInput
    None = None
    Pool = 2
    TokenLife = 2
    SessionLife = 1
    MaxNow = 2
    MaxCrashes = 1
INVARIANT TypeOK
INVARIANT StoreInv
INVARIANT LogoutIsFinal
INVARIANT DeadTokensStayDead
PROPERTY ImplementsStore
PROPERTY EveryRequestAnswered
