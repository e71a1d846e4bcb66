SPECIFICATION Spec
CONSTANTS
  ChunkCountMax = 8
  FileIdMax = 250
  BuildParameters <- SameBuild
  EasyMode = FALSE
  LockStep = FALSE
  FileSizes = {5}
  Senders = {"master", "slave"}
  IoFaults = {}
  LossyCodes <- AllFrames
  MaxFiles = 1
  MaxLosses = 1
  QueueMax = 2
INVARIANTS
  SenderHasAPlace
  NoMixing
  FeedbackIsSound
PROPERTY
  RewindSkipsNothing
