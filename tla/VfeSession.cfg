\* One thread shuts the session down, another asks for a pause or a resume,
\* everything may fail.
SPECIFICATION SessionSpec
CONSTANTS
  Closers = {c1}
  Failures = {"povms", "context", "backend"}
  EventMask = {"renderShutdown"}
  Users = {u1}
  MaxCalls = 2
INVARIANTS
  SessionInv
  RequestInv
  ShutdownComplete
PROPERTY ShutdownReturns
\* A session ends.
CHECK_DEADLOCK FALSE
