\* A player with a coin that gets a part, leaves or jumps; lists answered late.
SPECIFICATION FairSpec
CONSTANTS
  p1 = p1
  e1 = e1
  n1 = n1
  c1 = c1
  Player = {p1}
  Entity = {e1, n1, c1}
  Owner <- MCOwner
  Kind <- MCKind
  New = {n1}
  NoEntity = NoEntity
  NoVersion = NoVersion
  MaxVersion <- MCMaxVersion
  MaxBatches = 1
INVARIANTS
  EntityPoolTypeOK
  UpdatesAreKept
  GoneIsStored
  RequestsFitCache
  AnswersMatch
PROPERTIES
  LeaveIsFinished
\* The scene is idle when nobody is left and nothing changes.
CHECK_DEADLOCK FALSE
