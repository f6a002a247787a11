CONSTANTS
  g1 = g1
  g2 = g2
  Guid = {g1}
  NoRecord = NoRecord
  NoVersion = NoVersion
  NoItem = NoItem
  LoadsGivenUp = TRUE
  LoadsRepeated = TRUE
  ReadOnce = {}
  MaxRecords = 2
  MaxMerge = 2
  MaxRestarts = 0
  WriteResults <- AnyResult
SPECIFICATION FairSpec
INVARIANT HeldIsCached
PROPERTIES RecordedIsTried FlushIsConfirmed LoadIsAnswered
CHECK_DEADLOCK FALSE
