SPECIFICATION FairSpec
CONSTANTS
  Plan <- ParserPlan
  Codes = {kParseErr}
  kNoError = kNoError
  kUncategorizedError = kUncategorizedError
  kUserAbortErr = kUserAbortErr
  kDone = kDone
PROPERTY TeardownCompletes
CHECK_DEADLOCK FALSE
