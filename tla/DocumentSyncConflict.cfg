SPECIFICATION Spec
CONSTANTS
  None = None
  UserAtoms = {"u"}
  ExternalAtoms = {"x"}
  StoredTexts = {}
  StoredForeign = {}
  EntryLimit = 5
  MaxRevision = 2
  MaxExternal = 2
  MaxFaults = 0
  MaxCloses = 0
  MaxDecisions = 0
  FaultKinds = {}
  Requests = {}
INVARIANT ConflictTextIsHeld
CHECK_DEADLOCK FALSE
