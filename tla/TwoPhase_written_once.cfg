\* One vertex while other bursts are pending.
CONSTANTS
  kDimension = 16
  kPSAUDepth = 4
  MaxVertices = 1
  Value <- MCValue
  Zero <- MCZero
  Plus <- MCPlus
  MaxCutoffs = 0
SPECIFICATION Spec
INVARIANTS WrittenOnce
CHECK_DEADLOCK FALSE
