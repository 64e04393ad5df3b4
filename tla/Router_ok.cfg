\* The ratio of the two rates is the code's (512 : 64 GB/s), and a line costs
\* the global queue two ticks.
CONSTANTS
  kNumPseudoChannels = 2
  kRegionSize = 64
  LocalBytesPerTick = 256
  GlobalBytesPerTick = 32
  kGlobalAddressBoundary = 100
  RequestBytes <- MCRequestBytes
  MaxRequests = 3
  RequestTicks = 2
  MaxTicks = 8
SPECIFICATION FairSpec
INVARIANTS TypeOK RateBound ClassOrder
PROPERTIES WorkConserving EveryRequestForwarded
CHECK_DEADLOCK FALSE
