\* A pool that listens or connects: three connections at two addresses.
SPECIFICATION FairSpec
CONSTANTS
  s1 = s1
  s2 = s2
  Session = {s1, s2}
  NoSession = NoSession
  MaxConnections = 3
INVARIANTS
  NetcoreTypeOK
  ReferencedIsAllocated
  KnownIsAllocated
  ClosedIsKnownToOutput
PROPERTIES
  ClosedIsDeleted
  DeferredIsSent
CHECK_DEADLOCK FALSE
