\* Ranges of different sizes over three seeds, restarts and failed saves.
SPECIFICATION FairSpec
CONSTANTS
  scene = scene
  charsys = charsys
  Client <- Clients
  RequestNo <- DifferentNo
  MaxIndex = 7
  SeedModulus = 4
  FirstSeed = 1
  FirstIndex = 2
  SaveResults <- SavesMayFail
  EarlyClients = FALSE
  MaxSeed = 3
  MaxRestarts = 2
INVARIANTS
  GuidServiceTypeOK
  OnlyLastRangesTwice
PROPERTIES
  RangeArrives
CHECK_DEADLOCK FALSE
