SPECIFICATION FairSpec
CONSTANTS
  None = None
  UserAtoms = {"u"}
  ExternalAtoms = {"x"}
  StoredTexts = {}
  StoredForeign = {}
  EntryLimit = 5
  MaxRevision = 2
  MaxExternal = 2
  MaxFaults = 0
  MaxCloses = 0
  MaxDecisions = 1
  FaultKinds = {}
  Requests = {"save", "retry", "restore", "discardRaw"}
INVARIANTS CommitIsTracked ObservationIsDecidedFirst
PROPERTY Converges
CHECK_DEADLOCK FALSE
