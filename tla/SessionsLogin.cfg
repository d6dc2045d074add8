SPECIFICATION Spec
CONSTANTS
    Request = {r1, r2}
    User = {u1}
    Input <- MCInput
    None = None
    Pool = 3
    TokenLife = 2
    SessionLife = 1
    MaxNow = 0
    MaxCrashes = 0
PROPERTY LoginIsNotRefused
