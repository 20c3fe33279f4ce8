\* Two failures and a displaced file in the store: a discard of it fails, and
\* the commit that runs meanwhile has an unknown outcome.
SPECIFICATION Spec
CONSTANTS
  None = None
  UserAtoms = {"u"}
  ExternalAtoms = {"x"}
  StoredTexts = {{"u"}}
  StoredForeign = {{"x"}}
  EntryLimit = 5
  MaxRevision = 1
  MaxExternal = 0
  MaxFaults = 2
  MaxCloses = 0
  MaxDecisions = 3
  FaultKinds = {"unknown", "recovery"}
  Requests = {"save", "retry", "restore", "discardRaw"}
CHECK_DEADLOCK FALSE
INVARIANT UncertainCommitIsProvable
