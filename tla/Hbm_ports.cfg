\* Three loaded ports that share a TSV cap of two lines per cycle; a burst of
\* three lines never passes it.
CONSTANTS
  kNumPseudoChannels = 3
  kRegionSize = 64
  LocalBytesPerTick = 64
  GlobalBytesPerTick = 32
  kGlobalAddressBoundary = 100
  TsvLimitPerTick = 128
  kMaxWavesPerTick = 2
  Serialize = FALSE
  QueueDepth = 3
  MaxLatency = 1
  MaxCycles = 6
  MaxBursts = 4
  ClientCycles = 2
  MaxRuns = 1
  CallerBursts <- MCMixedReads
  GatherBursts <- MCNone
  CoreBursts <- MCNone
  WritebackBursts <- MCNone
SPECIFICATION PortsSpec
INVARIANTS BoundedBypass
PROPERTIES HeadsComplete
CHECK_DEADLOCK FALSE
