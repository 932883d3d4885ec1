SPECIFICATION ReportedSpec
CONSTANTS
    Clients = {c1, c2}
    Officials = {o1, o2}
    Endpoints <- RaceEndpoints
    AssignedRoles <- SomeRoles
    Reporters <- AdminOnly
    EventInputs = {}
    MaxEvents = 0
    MaxScore = 0
    MaxReportEvents = 0
    MayFail = TRUE
    Null = Null
    Undefined = Undefined
SYMMETRY ClientSymmetry
INVARIANTS LockedWasReady FinishedHasReports
