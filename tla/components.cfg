SPECIFICATION ComponentsSpec
CONSTANTS
  ChunkCountMax = 8
  Builds <- SmallBuilds
  FileIdMax = 250
  ChunkSizes = {1, 2, 3}
  ChunkCounts = {1, 2, 3, 4, 5, 6, 7, 8, 9, 10, 17, 64, 73, 250}
  Dirty <- DirtyAtFirst
  Traffic <- MixedTraffic
  NoiseBytes = {90, 165}
  NoiseMax = 2
  EasyMode = TRUE
  DebugBuild = FALSE
  LivesMax = 4
INVARIANTS
  MasterAgrees
  
  WalkMatchesClosedForm
  OverlooksOnlyTheTail
  ChunksCoverTheFile
  TypeOK
  FramingCollectsOneFrame
  QuietLineDelivers
  HearsAgainSoon
  TargetTypeOK
  OnlyAbandonedFilesBlock
  DescriptorsAreBounded
PROPERTIES
  RenegotiationIsIdle
  OverrunsAfterLongLength
  IsALossyChannel
CHECK_DEADLOCK FALSE
