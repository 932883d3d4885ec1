SPECIFICATION WatchedSpec
CONSTANTS
    Clients = {c1, c2}
    TeamIds = {t1, t2, t3}
    requiredTeamCount = 2
    MaxBatches = 2
    MayFail = TRUE
SYMMETRY ScheduleSymmetry
INVARIANTS  CleanSlateUntilOverlap
PROPERTIES ScheduledTeamsAreApproved 
