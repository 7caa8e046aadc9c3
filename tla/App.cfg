CONSTANTS
  None = None
  PreferredKinds <- MCPreferred
  PageSize = 2
  MaxName = 25
  ClusterKinds = {1, 2}
  Dummies <- MCDummies
  Scenarios <- MCScenarios
  MaxRevision = 4
SPECIFICATION Spec
INVARIANTS StoreStaysConsistent ViewsCatchUp OneTickChain
PROPERTY CursorSticks
CHECK_DEADLOCK FALSE
