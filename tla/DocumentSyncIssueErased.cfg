\* Two failures, and both kinds of records left in the store: a commit of
\* unknown outcome while a discard of displaced files fails.
SPECIFICATION Spec
CONSTANTS
  None = None
  UserAtoms = {"u"}
  ExternalAtoms = {"x"}
  StoredTexts = {{"u"}}
  StoredForeign = {{"x"}}
  EntryLimit = 5
  MaxRevision = 1
  MaxExternal = 0
  MaxFaults = 2
  MaxCloses = 0
  MaxDecisions = 2
  FaultKinds = {"unknown", "recovery"}
  Requests = {"restore", "discardRaw", "save"}
CHECK_DEADLOCK FALSE
INVARIANT FailedRecoveryIsShown
