\* two clients, and two objects that compete for one cache entry; and one of
\* each, in a file that sessions with different snapshot intervals append to:
\* seven revisions, one more than the least common multiple of 2 and 3
SPECIFICATION Spec
CONSTANTS
  c1 = c1
  c2 = c2
  u1 = u1
  u2 = u2
  None = None
  Clients = {c1, c2}
  Uids = {u1, u2}
  Objects <- TwoVersions
  DiffOf <- MCDiff
  ApplyTo <- MCApply
  ResourceVersion <- MCResourceVersion
  Intervals = {2, 3}
  CacheCapacity = 1
  MaxRevisions = 7
  MaxCommits = 7
SYMMETRY SymmetryU
CONSTRAINT Explored
INVARIANTS
  HotStateIsLastRevision
  EveryRecordIsSound
  RestoredIsCommitted
  PreviousIsPredecessor
  NoResourceVersionTwice
  RestoreIsBounded
  CacheIsBounded
PROPERTIES
  ImplementsHistory
