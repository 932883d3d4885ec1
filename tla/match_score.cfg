SPECIFICATION Spec
CONSTANTS
    Clients = {c1}
    Officials = {o1}
    Endpoints <- ScoreEndpoints
    AssignedRoles <- SomeRoles
    Reporters <- AdminOnly
    EventInputs <- HomeBodies
    MaxEvents = 3
    MaxScore = 1
    MaxReportEvents = 1
    MayFail = FALSE
    Null = Null
    Undefined = Undefined
INVARIANTS ScoreFollowsEvents
