SPECIFICATION Spec
CONSTANTS
  c1 = c1
  c2 = c2
  m1 = m1
  m2 = m2
  t1 = t1
  t2 = t2
  p1 = p1
  p2 = p2
  p3 = p3
  r1 = r1
  r2 = r2
  Nil = Nil
  Clients <- MCClients
  Managers <- MCManagers
  Teams <- MCTeams
  Players <- MCPlayers
  RequestIds <- MCRequestIds
  MaxRoster = 2
  MaxCalls = 4
  Desks <- MCDesks
SYMMETRY Symmetry
INVARIANTS OneClubPerPlayer  AddsOnePlayer
PROPERTIES NoSecondManager
CHECK_DEADLOCK FALSE
