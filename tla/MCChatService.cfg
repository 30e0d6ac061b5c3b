SPECIFICATION Spec
CONSTANTS
  tab1 = tab1
  tab2 = tab2
  other = other
  a = a
  b = b
  Requests <- MCRequests
  SessionIds <- MCSessionIds
  SessionOf <- MCSessionOf
  MaxConcurrent = 2
  Threads = 2
  MaxProgress = 1
INVARIANTS
  TypeOK
  PermitsAreConserved
  CountersAddUp
  StreamTellsTheOutcome
PROPERTIES
  ImplementsStreams
CHECK_DEADLOCK FALSE
