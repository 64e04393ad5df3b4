\* One core, four registers, two programs, of which the second may replace the
\* first at any time; the vertex program gathers on the same controller.
CONSTANTS
  NumRegs = 4
  kLanes = 2
  ObCap = 2
  DbCap = 2
  max_outstanding = 2
  VertexLanes = 1
  MaxBatches = 2
  MaxPrograms = 2
  Programs <- MCPrograms
  VertexBatches <- MCVertexBatches
  Writes <- MCWrites
  Garbled <- MCGarbled
  Val <- MCVal
  Zero = 0
  Addr = {1, 2}
  Loaded <- MCLoaded
  Fetched <- MCFetched
  Combine <- MCCombine
  TimeCode <- MCTimeCode
  GruLane <- MCGruLane
SPECIFICATION Spec
CHECK_DEADLOCK FALSE
INVARIANTS TypeOK CountersExact GatheredAll
PROPERTIES BatchCompletes FollowsISA EveryProgramEnds
