\* Four ports, regions large enough for every stream; numbers of four bits.
CONSTANTS
  kNumPseudoChannels = 4
  kRegionSize = 256
  BurstsPerPc <- MCBurstsPerPc
  BurstBytes <- MCBurstBytes
  MaxPerPort = 3
  Word = 16
  Configs <- MCConfigs
SPECIFICATION PlacementSpec
INVARIANTS TypeOK BoundedBypass StreamsDisjoint RoundRobinChunks Balanced
PROPERTIES PartitionReturns
