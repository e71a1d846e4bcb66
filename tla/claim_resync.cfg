SPECIFICATION FairSpec
CONSTANTS
  Traffic <- IdleTraffic
  NoiseBytes = {}
  NoiseMax = 2
PROPERTY
  HearsAgain
CHECK_DEADLOCK FALSE
