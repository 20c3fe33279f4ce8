\* Only the directory sync of a new journal may fail.
SPECIFICATION Spec
CONSTANTS
  c1 = c1
  c2 = c2
  x = x
  y = y
  i1 = i1
  i2 = i2
  Nothing = Nothing
  Attempts = {c1}
  Contents = {x, y}
  ForeignInodes = {i1}
  Faults = {"journalSync"}
  MaxExternal = 1
  MaxFaults = 1
  MaxCrashes = 1
CHECK_DEADLOCK FALSE
INVARIANTS
  PreparedJournalOwnsCandidate
