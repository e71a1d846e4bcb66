SPECIFICATION FairSpec
CONSTANTS
  ChunkCountMax = 8
  FileIdMax = 250
  BuildParameters <- SameBuild
  EasyMode = TRUE
  LockStep = TRUE
  FileSizes = {3}
  Senders = {"master"}
  IoFaults = {}
  LossyCodes = {"NEW_FILE_START"}
  MaxFiles = 1
  MaxLosses = 1
  QueueMax = 1
PROPERTY
  EveryFileArrives
