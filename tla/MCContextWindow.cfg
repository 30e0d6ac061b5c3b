SPECIFICATION Spec
CONSTANTS
  dates = dates
  brand = brand
  currency = currency
  Keys <- MCKeys
  TextSizes <- MCTextSizes
  PinSizes <- MCPinSizes
  SummarySizes <- MCSummarySizes
  Room = 10
  SystemSize = 1
  HeaderSize = 1
  MaxPins = 2
  VerbatimTurns = 2
  FallbackTurns = 2
  MaxAsked = 4
INVARIANTS
  TypeOK
  ViewFits
  QuestionAndSummaryInView
  PinsReachTheModel
  NewestAreKept
CHECK_DEADLOCK FALSE
