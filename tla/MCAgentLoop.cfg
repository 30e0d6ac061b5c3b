SPECIFICATION Spec
CONSTANTS
  query = query
  docs = docs
  unknown = unknown
  n1 = n1
  n2 = n2
  Names <- MCNames
  Tools <- MCTools
  References <- MCReferences
  Raising <- MCRaising
  Numbers <- MCNumbers
  MaxSteps = 3
  MaxGroundingRetries = 1
  MaxRepairs = 1
  VerbatimTurns = 2
  FallbackTurns = 1
  MaxAsked = 2
INVARIANTS
  TypeOK
  AnswersRestOnQueries
  TwoFailuresEndTheTurn
  BlockedAnswersAreBounded
  TraceTellsTheOutcome
  QuestionInView
  LateCallsAreBounded
PROPERTIES
  TurnEnds
  ImplementsAgentTurn
CHECK_DEADLOCK FALSE
