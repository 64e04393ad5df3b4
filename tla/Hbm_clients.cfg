\* All four kinds of traffic on two ports, two runs, reads serialized, and a TSV
\* cap of one line and a small gather per cycle.
CONSTANTS
  kNumPseudoChannels = 2
  kRegionSize = 64
  LocalBytesPerTick = 64
  GlobalBytesPerTick = 32
  kGlobalAddressBoundary = 100
  TsvLimitPerTick = 68
  kMaxWavesPerTick = 4
  Serialize = TRUE
  QueueDepth = 2
  MaxLatency = 2
  MaxCycles = 6
  MaxBursts = 3
  ClientCycles = 2
  MaxRuns = 2
  Ports = {0, 1}
  CallerBursts <- MCLineReads
  GatherBursts <- MCGathers
  CoreBursts <- MCLoads
  WritebackBursts <- MCWritebacks
SPECIFICATION Spec
INVARIANTS TypeOK Accounting SerializedReads OracleBound NothingLostOrDuplicated
PROPERTIES ReturnedDrained WavesExhaustAdmission
CHECK_DEADLOCK FALSE
