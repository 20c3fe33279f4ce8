SPECIFICATION Spec
CONSTANTS
  None = None
  UserAtoms = {"u"}
  ExternalAtoms = {"x"}
  StoredTexts = {{}, {"u"}}
  StoredForeign = {{"x"}}
  EntryLimit = 5
  MaxRevision = 1
  MaxExternal = 1
  MaxFaults = 1
  MaxCloses = 1
  MaxDecisions = 1
  FaultKinds = {"delete", "notStarted", "requiresSaveAs", "unknown", "read",
                "prepare", "recovery", "decode", "monitor"}
  Requests = {"save", "retry", "restore", "discardRaw", "cancelClose"}
INVARIANTS TypeOK NothingIsOwed PersistingIsUnderWay
  WritingIsUnderWay RecordsAreKnown
PROPERTIES ConflictIsHeldUntilStored DisplacedBytesAreTracked CloseIsSafe
CHECK_DEADLOCK FALSE
