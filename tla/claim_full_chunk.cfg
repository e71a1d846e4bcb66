SPECIFICATION Spec
CONSTANTS
  ChunkCountMax = 8
  FileIdMax = 250
  BuildParameters <- SameBuild
  EasyMode = TRUE
  LockStep = TRUE
  FileSizes = {4}
  Senders = {"master"}
  IoFaults = {}
  LossyCodes = {}
  MaxFiles = 1
  MaxLosses = 0
  QueueMax = 1
INVARIANT
  ReceivedIsWhole
