\* A player that goes from gate to gate; connections may be lost.
SPECIFICATION FairSpec
CONSTANTS
  Player = {p1}
  Gate = {g1, g2}
  NoGate = NoGate
  RouteThread = {r1, r2}
  SerializeThread = {s1, s2}
  IndexLimit = 3
  EntersEarly = FALSE
  GatesFail = TRUE
  MaxPackets = 4
INVARIANTS
  TerminalOutputTypeOK
  InOrder
  RightGate
  NothingDropped
PROPERTIES
  PacketsArrive
\* The system stops when all packets have been written.
CHECK_DEADLOCK FALSE
