\* two callers of Add, one of which also removes watches; registration may fail
SPECIFICATION FairSpec
CONSTANTS
 Callers = {g1, g2}
 Removers = {g1}
 Gvrs = {v1}
 Watches = {w1, w2}
 None = None
 Buffer = 1
 MaxEvents = 2
 Busy = {w1}
 RegisterCanFail = TRUE
INVARIANTS
 ChannelIsSafe
 EventsAreConserved
 AddReturnsSynced
PROPERTIES
 WatchIsInOrder
 CallsReturnWhenStopped
 WaitersAreReleased
CHECK_DEADLOCK FALSE
