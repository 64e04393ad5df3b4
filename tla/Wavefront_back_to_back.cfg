\* A program that pushes whenever it reaches PUSH_ARR.
CONSTANTS
  kDimension = 4
  v1 = v1  v2 = v2  v3 = v3  w1 = w1  w2 = w2  none = none
  Vec <- MCVec
  NoVec <- none
  Matrix <- MCMatrix
  PushWhenEmpty = FALSE
SPECIFICATION WavefrontSpec
INVARIANT Aligned
