SPECIFICATION Spec
CONSTANTS
    Seeder = {s1, s2}
    Request = {r1}
    MaxKills = 1
SYMMETRY Symmetry
INVARIANT TypeOK
INVARIANT SeedIsComplete
INVARIANT AccessFollowsPolicy
INVARIANT Inv
