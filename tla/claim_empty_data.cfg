SPECIFICATION Spec
CONSTANTS
  ChunkCountMax = 8
  FileIdMax = 250
  BuildParameters <- SameBuild
  EasyMode = TRUE
  LockStep = FALSE
  FileSizes = {3}
  Senders = {"master"}
  IoFaults = {}
  LossyCodes = {}
  MaxFiles = 1
  MaxLosses = 0
  QueueMax = 2
INVARIANT
  ReceivedIsWhole
