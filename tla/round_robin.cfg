SPECIFICATION LoopSpec
CONSTANTS
    Teams <- TenTeams
    TeamCount = 10
    Orders <- SomeOrders
CHECK_DEADLOCK FALSE
INVARIANTS OncePerRound EveryoneHostsEveryone NeverRejected TeamsRest
