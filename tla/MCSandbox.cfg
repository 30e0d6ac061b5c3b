SPECIFICATION Spec
CONSTANTS
  first = first
  second = second
  y = y
  foreign = foreign
  a = a
  b = b
  x = x
  Default = Default
  Unset = Unset
  Absent = Absent
  Torn = Torn
  Cells <- MCCells
  Sessions <- MCSessions
  SessionOf <- MCSessionOf
  Names <- MCNames
INVARIANTS
  TypeOK
  VariablesCarryOver
  TornByWritesOnly
CHECK_DEADLOCK FALSE
