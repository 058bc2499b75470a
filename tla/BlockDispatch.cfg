SPECIFICATION FairSpec
CONSTANTS
  t1 = t1
  t2 = t2
  t3 = t3
  NumBlocks = 4
  Threads <- ThreeThreads
  PretraceSteps = 3
  MaxPasses = 2
  Options <- MCOptions
INVARIANT DispatchInv PassComplete ClassesInOrder AreaPartitioned
PROPERTY PassEnds
CHECK_DEADLOCK FALSE
