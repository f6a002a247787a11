\* Mutexes as with pthreads: a second login stops.
SPECIFICATION FairSpec
CONSTANTS
  Client = {c1, c2}
  NoClient = NoClient
  RecursiveMutex = FALSE
  LoadsFail = FALSE
  MaxCloses = 1
PROPERTIES
  LogsOff
CHECK_DEADLOCK FALSE
