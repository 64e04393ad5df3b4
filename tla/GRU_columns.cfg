\* The isolated unit test of the cell, in every dimension.
CONSTANTS
  kDimension = 4
  MaxTurns = 0
  h1 = h1  m1 = m1  none = none
  Vec <- MCVec
  NoVec <- none
  Matrix <- MCMatrix
SPECIFICATION Spec
INVARIANT GatesComplete
