SPECIFICATION Spec
CONSTANTS
  c1 = c1
  c2 = c2
  Nil = Nil
  Clients <- MCClients
  Teams <- MCTeams
  Fixtures <- MCFixtures
  Scores <- MCScores
  WinPoints = 3
  DrawPoints = 1
  LossPoints = 0
  MaxCalls = 3
SYMMETRY Symmetry
INVARIANTS LotsOnlyBreakTies
PROPERTIES ConfirmedDrawIsFinal
CHECK_DEADLOCK FALSE
