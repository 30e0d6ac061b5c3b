SPECIFICATION Spec
CONSTANTS
  Metric <- MCMetric
  Dimension <- MCDimension
  Schema <- MCSchema
  Groups <- MCGroups
  Unstable <- MCUnstable
  NaiveValue <- MCNaiveValue
  Golden <- MCGolden
  Adversarial <- MCAdversarial
  MultiTurn <- MCMultiTurn
  AllowedTables = {"campaign_performance_daily", "customer_ltv", "channel_attribution"}
  ForbiddenFunctions = {"read_csv"}
  DefaultLimit = 5
  MaxLimit = 6
  MaxRendered = 2
  Touched = {"grounding", "metric_atoms", "star_check"}
  TouchedRows <- MCTouchedRows
  MaxEdits = 2
INVARIANTS NoControlGoesSilently BitesWhileItsRowsAreThere RepairPasses
