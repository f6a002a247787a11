CONSTANTS
  g1 = g1
  g2 = g2
  Guid = {g1, g2}
  NoRecord = NoRecord
  NoVersion = NoVersion
  NoItem = NoItem
  LoadsGivenUp = FALSE
  LoadsRepeated = FALSE
  ReadOnce = {}
  MaxRecords = 3
  MaxMerge = 2
  MaxRestarts = 1
  WriteResults <- AnyResult
SPECIFICATION Spec
INVARIANTS WriteBehindTypeOK InUseIsHeld ForgottenIsWritten
PROPERTY WrittenInOrder
CHECK_DEADLOCK FALSE
SYMMETRY Symmetry
