\* one client is enough: a rolled-back transaction leaves the counter ahead
SPECIFICATION Spec
CONSTANTS
  Clients = {c1}
  Uids = {u1}
  Records = {x}
  None = None
  Durable = TRUE
  Periodic = TRUE
  MaxRevisions = 2
INVARIANT
  LatestRevisionIsCommitted
