CONSTANTS
  Files = {f1, f2}
  None = None
  MaxHistory = 1
  S2MayRead = FALSE
SPECIFICATION FairSpec
INVARIANTS NothingUsedAfterClose RecordsReadable
PROPERTY SessionsEnd
