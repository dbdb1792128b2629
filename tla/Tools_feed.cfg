SPECIFICATION ToolSpec
CONSTANTS
  MaxRounds = 2
  MaxForks = 2
  MaxFaults = 1
  MaxInput = 2
  PipeRoom = 1
  MaxRows = 3
  Limit = 2
  Capacities = {1, 3}
PROPERTY CallEnds
CHECK_DEADLOCK FALSE
