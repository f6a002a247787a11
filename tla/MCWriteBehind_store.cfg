CONSTANTS
  g1 = g1
  g2 = g2
  Guid = {g1}
  NoRecord = NoRecord
  NoVersion = NoVersion
  NoItem = NoItem
  LoadsGivenUp = FALSE
  LoadsRepeated = FALSE
  ReadOnce = {g1}
  MaxRecords = 4
  MaxMerge = 2
  MaxRestarts = 0
  WriteResults <- AnyResult
SPECIFICATION Spec
INVARIANTS OnceNotOlder ForgottenIsWritten
PROPERTY ImplementsStore
CHECK_DEADLOCK FALSE
