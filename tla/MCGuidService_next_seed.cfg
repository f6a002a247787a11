\* Ranges of different sizes, and the seed is used up.
SPECIFICATION Spec
CONSTANTS
  scene = scene
  charsys = charsys
  Client <- Clients
  RequestNo <- DifferentNo
  MaxIndex = 8
  SeedModulus = 4
  FirstSeed = 1
  FirstIndex = 0
  SaveResults <- Saves
  EarlyClients = FALSE
  MaxSeed = 3
  MaxRestarts = 0
INVARIANTS
  NoGuidTwice
CHECK_DEADLOCK FALSE
