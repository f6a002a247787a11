CONSTANTS
  g1 = g1
  g2 = g2
  Guid = {g1}
  NoRecord = NoRecord
  NoVersion = NoVersion
  NoItem = NoItem
  LoadsGivenUp = TRUE
  LoadsRepeated = FALSE
  ReadOnce = {g1}
  MaxRecords = 3
  MaxMerge = 1
  MaxRestarts = 0
  WriteResults <- AnyResult
SPECIFICATION Spec
PROPERTY DroppedIsWritten
CHECK_DEADLOCK FALSE
