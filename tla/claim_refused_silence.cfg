SPECIFICATION FairSpec
CONSTANTS
  ChunkCountMax = 8
  FileIdMax = 250
  BuildParameters <- SameBuild
  EasyMode = TRUE
  LockStep = TRUE
  FileSizes = {17}
  Senders = {"master"}
  IoFaults = {}
  LossyCodes = {"SYNC_ACK"}
  MaxFiles = 1
  MaxLosses = 1
  QueueMax = 1
PROPERTY
  ResyncsAfterLoss
