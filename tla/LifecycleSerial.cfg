SPECIFICATION MCSpec
CONSTANTS
    Request = {r1, r2, r3}
    Conn = {c1, c2}
    Slug <- MCSlug
    Schema <- MCSchema
    SchemaOf <- MCSchemaOf
    Domain = {"x.com"}
    Email = {"e1", "e2"}
    Public <- MCPublic
    None = None
    Input <- MCAll
    MaxInFlight = 1
    MaxStrays = 1
    MaxFaults = 1
    MaxCrashes = 1
SYMMETRY Symmetry
INVARIANT TypeOK
INVARIANT CompletionInv
INVARIANT SerialInv
INVARIANT CreatedIsComplete
INVARIANT RegistryAgreement
PROPERTY ImplementsRegistry
