\* Two attempts, every kind of failure; fairness of the recovery lane, and no
\* symmetry, because of the liveness property.
SPECIFICATION FairSpec
CONSTANTS
  c1 = c1
  c2 = c2
  x = x
  y = y
  i1 = i1
  i2 = i2
  Nothing = Nothing
  Attempts = {c1, c2}
  Contents = {x, y}
  ForeignInodes = {i1, i2}
  Faults = {"candidate", "journalWrite", "journalSync", "swap", "flush", "readBack", "receiptWrite", "receiptSync", "unlink", "journalUnlink", "raw"}
  MaxExternal = 1
  MaxFaults = 1
  MaxCrashes = 1
CHECK_DEADLOCK FALSE
INVARIANTS TypeOK ForeignBytesStayReachable EvidenceIsKept
PROPERTIES KeepsPromise
  RecoveryStarts
