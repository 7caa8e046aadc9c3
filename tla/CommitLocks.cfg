\* two callers and the janitor, two objects, as many lock addresses as can be
\* referred to at once
SPECIFICATION FairSpec
CONSTANTS
  Goroutines = {g1, g2}
  Objects = {o1, o2}
  Locks = {l1, l2, l3}
  None = None
INVARIANTS
  MutualExclusion
PROPERTIES
  ImplementsObjectMutex
  EveryCallerGetsIn
  SweepsEnd
