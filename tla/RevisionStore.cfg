\* the options of a production run, NoSync with a periodic Sync; three calls
\* compete for the one write transaction
SPECIFICATION FairSpec
CONSTANTS
  Clients = {c1, c2, c3}
  Uids = {u1}
  Records = {x, y}
  None = None
  Durable = TRUE
  Periodic = TRUE
  MaxRevisions = 3
INVARIANTS
  RevisionsAreContiguous
  PromisedRevisionsSurvive
  CounterAtMostOneAhead
PROPERTIES
  ImplementsRevisionLog
  WritesReturn
