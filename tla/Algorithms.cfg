SPECIFICATION AlgorithmsSpec
CONSTANTS
  None = None
  PreferredKinds <- MCPreferred
  PageSize = 2
  MaxDepth = 3
  MaxName = 0
  Objects <- MCObjects
  Compared <- MCCompared
  MatchKeys <- MCMatchKeys
  Arriving <- MCArriving
  MaxRevisions = 5
  WindowSize = 4
  MaxRows = 9
  Heights = {4, 7}
INVARIANTS
  PatchedStateIsLastVersion
  ChangeSetIsMinimal
  FastEqualityIsEquality
  PreviewIsFaithful
  TimelineIsNewestFirst
  LoopReportIsSound
  CursorIsDrawn
CHECK_DEADLOCK FALSE
