\* Evaluations one after another or given up half-way, with and without the loop
\* ticking the array; the owner turns away, or somebody else pushes, twice.
CONSTANTS
  kDimension = 3
  MaxTurns = 2
  h1 = h1  m1 = m1  none = none
  Vec <- MCVec
  NoVec <- none
  Matrix <- MCMatrix
SPECIFICATION FairSpec
INVARIANTS TypeOK LastColumnWhole GatesUnmixed
PROPERTIES EveryStartFinishes
