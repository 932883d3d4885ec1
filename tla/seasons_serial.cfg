SPECIFICATION Spec
CONSTANTS
    Clients = {c1}
    Endpoints <- AllEndpoints
    MaxSeasons = 2
    Years = {1, 2}
    Days = {1, 2}
    Keys = {k1}
    Values = {v1, v2}
    DefaultValue = v1
    StatusInBody = FALSE
    Null = Null
    Undefined = Undefined
CHECK_DEADLOCK FALSE
INVARIANTS  CalendarHolds
PROPERTIES  RulesFrozen
