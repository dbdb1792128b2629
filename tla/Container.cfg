SPECIFICATION Spec
CONSTANTS
  saver = saver
  client = client
  tools = tools
  agent = agent
  reader = reader
  bad = bad
  turn = turn
  other = other
  Providers <- Graph
  Scope <- GraphScope
  Deps <- GraphDeps
  Gens <- Teardowns
  Eager <- AtStart
  Calls = {turn, other}
  Wants <- Requests
  Where <- Contexts
  MaxFaults = 1
INVARIANT OneInstance
INVARIANT NothingLeaks
PROPERTY CallsEnd
CHECK_DEADLOCK FALSE
