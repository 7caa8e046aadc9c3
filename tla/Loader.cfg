\* captures that are recorded headless and replayed, and captures that are
\* recorded and browsed at once, in a file that need not grow
SPECIFICATION FairLoaderSpec
CONSTANTS
  c1 = c1
  u1 = u1
  None = None
  Clients = {c1}
  Uids = {u1}
  Objects <- ThreeVersions
  Visible <- WithSpec
  DiffOf <- MCDiff
  ApplyTo <- MCApply
  ResourceVersion <- MCResourceVersion
  Intervals = {3}
  CacheCapacity = 1
  MaxRevisions = 4
  MaxCommits = 4
  Uses <- MCUses
  GrowsIn = {"headless"}
INVARIANTS
  DeliveredIsHistory
PROPERTIES
  LoadingEnds
  CallsReturn
