SPECIFICATION Spec
CONSTANTS
    Request = {r1, r2, r3}
    Tenant <- MCTenant
    Email = {"e1", "e2"}
    Resident <- MCResident
    Input <- MCInput
    None = None
    MaxCrashes = 1
SYMMETRY Symmetry
INVARIANT TypeOK
INVARIANT Inv
 
PROPERTY ImplementsTable
