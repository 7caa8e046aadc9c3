\* collector and loader together, in a file that may have to grow
SPECIFICATION FairLoaderSpec
CONSTANTS
  c1 = c1
  u1 = u1
  None = None
  Clients = {c1}
  Uids = {u1}
  Objects <- TwoVersions
  Visible <- TwoVersions
  DiffOf <- MCDiff
  ApplyTo <- MCApply
  ResourceVersion <- MCResourceVersion
  Intervals = {2}
  CacheCapacity = 1
  MaxRevisions = 2
  MaxCommits = 2
  Uses = {{"interactive"}}
  GrowsIn = {"interactive"}
PROPERTIES
  LoadingEnds
