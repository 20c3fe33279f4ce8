SPECIFICATION Spec
CONSTANTS
  None = None
  UserAtoms = {"u"}
  ExternalAtoms = {"x"}
  StoredTexts = {{"u"}}
  StoredForeign = {}
  EntryLimit = 5
  MaxRevision = 2
  MaxExternal = 1
  MaxFaults = 0
  MaxCloses = 1
  MaxDecisions = 1
  FaultKinds = {}
  Requests = {"restore"}
INVARIANT ObservationIsDecidedFirst
CHECK_DEADLOCK FALSE
