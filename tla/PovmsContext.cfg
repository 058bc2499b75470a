SPECIFICATION Spec
CONSTANTS
  frontend = frontend
  backend = backend
  parser = parser
  Servers <- MCServers
  Tasks = {parser}
  Asks <- MCAsks
  Tells <- MCTells
  Stoppers = {backend}
  MaxCalls = 2
  MaxNotes = 1
INVARIANT ContextInv
PROPERTY ImplementsRequestReply CallsEnd
CHECK_DEADLOCK FALSE
