SPECIFICATION Spec
CONSTANTS
  NumBlocks = 5
  Workers = 3
  MaxStarts = 4
INVARIANT TraceInv ImageComplete ImageIsRecorded
PROPERTY RecordsKept
CHECK_DEADLOCK FALSE
