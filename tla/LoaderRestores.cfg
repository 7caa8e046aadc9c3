\* collector and loader together: the stored history itself
SPECIFICATION LoaderSpec
CONSTANTS
  c1 = c1
  u1 = u1
  None = None
  Clients = {c1}
  Uids = {u1}
  Objects <- ThreeVersions
  Visible <- ThreeVersions
  DiffOf <- MCDiff
  ApplyTo <- MCApply
  ResourceVersion <- MCResourceVersion
  Intervals = {3}
  CacheCapacity = 1
  MaxRevisions = 4
  MaxCommits = 4
  Uses = {{"interactive"}}
  GrowsIn = {}
INVARIANTS
  EveryRevisionRestores
