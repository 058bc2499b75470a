SPECIFICATION Spec
CONSTANTS
  Right = 8
  Bottom = 5
  Corners <- Areas
  BlockSizes <- Sizes
  StartSizes <- Starts
  EndSizes <- Ends
INVARIANT PreviewInv DisplayExact
CHECK_DEADLOCK FALSE
