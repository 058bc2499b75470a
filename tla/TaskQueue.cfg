SPECIFICATION FairSpec
CONSTANTS
  Plan <- RenderPlan
  Codes = {kParseErr}
  kNoError = kNoError
  kUncategorizedError = kUncategorizedError
  kUserAbortErr = kUserAbortErr
  kDone = kDone
INVARIANT QueueInv SyncBarrier NoFailureAfterDone
PROPERTY VerdictMeansQuiet ImplementsPlan JobEnds StopCompletes
CHECK_DEADLOCK FALSE
