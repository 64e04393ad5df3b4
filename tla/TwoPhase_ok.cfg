\* Two vertices on arrays of the size in the code, with and without SIMD cores
\* that make the loop tick the arrays too; other traffic may keep a run going,
\* and one run may be cut off.
CONSTANTS
  kDimension = 16
  kPSAUDepth = 4
  MaxVertices = 2
  Value <- MCValue
  Zero <- MCZero
  Plus <- MCPlus
  MaxCutoffs = 1
SPECIFICATION FairSpec
INVARIANTS TypeOK MessageIsOwn HiddenIsOwn LoadedOnce
PROPERTIES ValveUnused EveryVertexFinishes DelaysByFour
CHECK_DEADLOCK FALSE
