\* Mutexes as on Windows; loads may fail.
SPECIFICATION FairSpec
CONSTANTS
  Client = {c1, c2}
  NoClient = NoClient
  RecursiveMutex = TRUE
  LoadsFail = TRUE
  MaxCloses = 1
INVARIANTS
  RoleEntranceTypeOK
  AnswersFindState
  OnlineIsNotFlushed
  GateAndMapAgree
PROPERTIES
  CallsReturn
  LeaveIsAnswered
  LogsOff
\* The system stops when the sessions have been closed.
CHECK_DEADLOCK FALSE
