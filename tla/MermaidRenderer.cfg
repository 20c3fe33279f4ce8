\* Three diagrams, two pending at a time, room for two of them.
SPECIFICATION FairSpec
CONSTANTS
  s1 = s1
  s2 = s2
  s3 = s3
  None = None
  Sources = {s1, s2, s3}
  DocumentOrder <- InOrder
  Documents <- Two
  Ids = {1, 2, 3, 4}
  MaxLate = 1
  Cost <- Costs
  MaxPending = 2
  MaxEntries = 2
  MaxCost = 3
  MaxTerminal = 2
  MaxAttempts = 2
  FailedBefore = {s1, s3}
  MaxResets = 1
INVARIANTS TypeOK EveryAwaitIsHeldOnce NobodyWaitsUntimed ReadyMeansLoaded AnswersAreOwn NoRenderIsTurnedAway CacheIsBounded
PROPERTIES ShownIsDecided RenderingSettles
CHECK_DEADLOCK FALSE
