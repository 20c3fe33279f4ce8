\* Two documents, every kind of command, a third identity to move to, one failing call and one crash.
SPECIFICATION FairSpec
CONSTANTS
  a = a
  b = b
  c = c
  None = None
  Keys = {a, b, c}
  Documents = {a, b}
  PerDocumentLimit = 2
  HistoryLimit = 1
  Stored <- SmallStored
  Operations = {"persistSnapshot", "persistRaw", "migrate", "discard", "reconcileCommit"}
  FaultKinds = {"before", "after"}
  MaxCalls = 4
  MaxFaults = 1
  MaxCrashes = 1
INVARIANTS TypeOK RestartIsPossible ImportIsFaithful MemoryAgrees EveryCallIsHeldOnce
PROPERTIES StoreIsAtomic CallsAreAnswered
CHECK_DEADLOCK FALSE
