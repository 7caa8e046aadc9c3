CONSTANTS
  Files = {f1, f2}
  None = None
  MaxHistory = 1
  S2MayRead = TRUE
SPECIFICATION Spec
INVARIANT RecordsReadable
