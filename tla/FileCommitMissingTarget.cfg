\* No call fails; another program may remove the file after a crash.
SPECIFICATION FairSpec
CONSTANTS
  c1 = c1
  c2 = c2
  x = x
  y = y
  i1 = i1
  i2 = i2
  Nothing = Nothing
  Attempts = {c1}
  Contents = {x, y}
  ForeignInodes = {i1}
  Faults = {}
  MaxExternal = 1
  MaxFaults = 1
  MaxCrashes = 1
CHECK_DEADLOCK FALSE
PROPERTIES
  UnswappedJournalIsConsumed
