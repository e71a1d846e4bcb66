SPECIFICATION FairSpec
CONSTANTS
  ChunkCountMax = 8
  FileIdMax = 250
  BuildParameters <- SameBuild
  EasyMode = FALSE
  LockStep = TRUE
  FileSizes = {1}
  Senders = {"master", "slave"}
  IoFaults = {}
  LossyCodes = {}
  MaxFiles = 2
  MaxLosses = 0
  QueueMax = 1
PROPERTY
  NotSilentForGood
