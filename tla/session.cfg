SPECIFICATION TabSpec
CONSTANTS
  q1 = q1
  q2 = q2
  s1 = s1
  s2 = s2
  None = None
  Requests <- MCRequests
  Sessions <- MCSessions
  MaxIssued = 2
INVARIANTS WaitsForRefresh
PROPERTIES TokenOfTheUser SessionKept EveryRequestSettles RevocationArrives
CHECK_DEADLOCK FALSE
