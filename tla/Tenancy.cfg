SPECIFICATION MCSpec
CONSTANTS
    r1 = r1
    r2 = r2
    d1 = d1
    d2 = d2
    c1 = c1
    c2 = c2
    Request <- MCRequest
    Conn = {c1, c2}
    Slug <- MCSlug
    Schema <- MCSchema
    SchemaOf <- MCSchemaOf
    Domain = {"x.com"}
    Email = {"e1"}
    Public <- MCPublic
    None = None
    Input <- MCInput
    MaxInFlight = 1
    MaxStrays = 1
    MaxFaults = 1
    MaxCrashes = 1
    Client = {d1, d2}
    Asks <- MCAsks
INVARIANT TenancyTypeOK
INVARIANT MigratedHasAuditLog
INVARIANT ServedByOwnTenant
INVARIANT ServiceInv
PROPERTY RightsMeanComplete
PROPERTY EverybodyAnswered
