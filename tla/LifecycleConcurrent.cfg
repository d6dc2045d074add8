SPECIFICATION MCOverlapSpec
CONSTANTS
    Request = {r1, r2, r3}
    Conn = {c1, c2}
    Slug <- MCSlug
    Schema <- MCSchema
    SchemaOf <- MCSchemaOf
    Domain = {"x.com"}
    Email = {"e1", "e2"}
    Public <- MCPublic
    None = None
    Input <- MCCreateDelete
    MaxInFlight = 2
    MaxStrays = 1
    MaxFaults = 0
    MaxCrashes = 0
SYMMETRY Symmetry
INVARIANT CreatedIsComplete
INVARIANT CreatedSurvives
INVARIANT RegistryAgreement
