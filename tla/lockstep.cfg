SPECIFICATION FairSpec
CONSTANTS
  ChunkCountMax = 8
  FileIdMax = 250
  BuildParameters <- SameBuild
  EasyMode = TRUE
  LockStep = TRUE
  FileSizes = {1, 3, 15}
  Senders = {"master"}
  IoFaults = {}
  LossyCodes <- AllButAcksAndStarts
  MaxFiles = 2
  MaxLosses = 3
  QueueMax = 1
PROPERTIES
  KeepsThePromise
  
  BothRunForGood
