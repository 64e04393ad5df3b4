\* Three vectors, each pushed into an empty feeder.
CONSTANTS
  kDimension = 5
  v1 = v1  v2 = v2  v3 = v3  w1 = w1  w2 = w2  none = none
  Vec <- MCVec
  NoVec <- none
  Matrix <- MCMatrix
  PushWhenEmpty = TRUE
SPECIFICATION WavefrontSpec
INVARIANT OutputsOnTime
