SPECIFICATION Spec
CONSTANTS
    Request = {r1, r2}
    Tenant <- MCTenant
    Email = {"e1", "e2"}
    Resident <- MCResident
    Input <- MCInput
    None = None
    MaxCrashes = 0
SYMMETRY Symmetry
PROPERTY RegistrationSucceeds
