SPECIFICATION Spec
CONSTANTS
    Clients = {c1}
    Officials = {o1, o2}
    Endpoints <- SerialEndpoints
    AssignedRoles <- SomeRoles
    Reporters <- AdminAndOfficials
    EventInputs = {}
    MaxEvents = 0
    MaxScore = 0
    MaxReportEvents = 0
    MayFail = TRUE
    Null = Null
    Undefined = Undefined
SYMMETRY OfficialSymmetry
INVARIANTS LockedLineupsApproved OfficialsHaveOneRole
PROPERTIES ImplementsLifecycle 
