SPECIFICATION Spec
CONSTANTS
  ChunkCountMax = 8
  FileIdMax = 250
  BuildParameters <- SameBuild
  EasyMode = TRUE
  LockStep = FALSE
  FileSizes = {5, 17}
  Senders = {"master"}
  IoFaults = {"open", "read", "write"}
  LossyCodes <- AllFrames
  MaxFiles = 2
  MaxLosses = 2
  QueueMax = 2
INVARIANTS
  TypeOK
  SenderHasAPlace
  NoMixing
  FeedbackIsSound
  SlaveWordStands
PROPERTY
  RewindSkipsNothing
