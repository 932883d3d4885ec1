SPECIFICATION Spec
CONSTANTS
  c1 = c1
  c2 = c2
  t1 = t1
  t2 = t2
  t3 = t3
  Nil = Nil
  Clients <- MCClients
  Teams <- MCTeams
  Managed <- MCTeams
  TopTeams <- MCTop
  PromotedSlots = 1
  MaxRank = 1
  MaxRequests = 3
SYMMETRY Symmetry
 
PROPERTIES RefusalStands ReplacementFits
CHECK_DEADLOCK FALSE
