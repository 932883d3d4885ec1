SPECIFICATION Spec
CONSTANTS
    Clients = {c1}
    Players = {"p"}
    Teams <- Two
    Fixtures <- TwoRounds
    EventInputs <- OnePlayer
    MaxEvents = 2
    MaxReportEvents = 2
    MayFail = TRUE
    Null = Null
INVARIANTS ServedWhenPlayed OneRedCardPerMatch CardsAndSuspensionsAgree
PROPERTIES EvenYellowCardsSuspend
