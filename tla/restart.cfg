SPECIFICATION RestartSpec
CONSTANTS
  ChunkCountMax = 8
  FileIdMax = 250
  BuildParameters <- SameBuild
  EasyMode = TRUE
  LockStep = TRUE
  FileSizes = {3, 5}
  Senders = {"master", "slave"}
  IoFaults = {}
  LossyCodes <- AllFrames
  MaxFiles = 2
  MaxLosses = 2
  QueueMax = 1
  Restarting = {"master", "slave"}
  RestartsMax = 2
INVARIANTS
  MixesOnlyNamesakes
  NewFilesAreWhole
CHECK_DEADLOCK FALSE
