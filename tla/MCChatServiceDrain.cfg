SPECIFICATION Spec
CONSTANTS
  tab1 = tab1
  tab2 = tab2
  other = other
  a = a
  b = b
  Requests <- MCRequests
  SessionIds <- MCSessionIds
  SessionOf <- MCSessionOf
  MaxConcurrent = 2
  Threads = 2
  MaxProgress = 0
INVARIANT
  WorkersAreDrained
CHECK_DEADLOCK FALSE
