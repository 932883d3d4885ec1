SPECIFICATION Spec
CONSTANTS
  c1 = c1
  c2 = c2
  p1 = p1
  p2 = p2
  Nil = Nil
  Clients <- MCClients
  Passwords <- MCPasswords
  MaxUsers = 2
  MaxCodes = 2
  MaxSessions = 2
SYMMETRY Symmetry
INVARIANTS VerifiedSessions OneUsableCode ResetEndsSessions
CHECK_DEADLOCK FALSE
