SPECIFICATION Spec
CONSTANTS
  Nothing = Nothing
  tab1 = tab1
  tab2 = tab2
  other = other
  third = third
  a = a
  b = b
  c = c
  Requests <- MCRequests
  SessionIds <- MCSessionIds
  SessionOf <- MCSessionOf
  MaxSessions = 2
  VerbatimTurns = 1
INVARIANT
  TurnsDoNotInterleave
CHECK_DEADLOCK FALSE
