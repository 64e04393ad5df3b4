\* A writeback that the router has not forwarded when the loop ends.
CONSTANTS
  kNumPseudoChannels = 2
  kRegionSize = 64
  LocalBytesPerTick = 64
  GlobalBytesPerTick = 32
  kGlobalAddressBoundary = 100
  TsvLimitPerTick = 68
  kMaxWavesPerTick = 4
  Serialize = TRUE
  QueueDepth = 2
  MaxLatency = 2
  MaxCycles = 12
  MaxBursts = 2
  ClientCycles = 2
  MaxRuns = 1
  Ports = {0, 1}
  CallerBursts <- MCNone
  GatherBursts <- MCNone
  CoreBursts <- MCLoads
  WritebackBursts <- MCWritebacks
SPECIFICATION FairSpec
PROPERTY AllCompletedOnReturn
CHECK_DEADLOCK FALSE
