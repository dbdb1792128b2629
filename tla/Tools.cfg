SPECIFICATION ApartSpec
CONSTANTS
  MaxRounds = 2
  MaxForks = 2
  MaxFaults = 1
  MaxInput = 2
  PipeRoom = 1
  MaxRows = 3
  Limit = 2
  Capacities = {1, 3}
  GrepRequests <- MCGreps
  WindowRequests <- MCWindows
  ListRequests <- MCLists
  HitRequests <- MCHits
  WholeRequests <- MCWholes
  Reader = {r1}
  DocRequests <- MCDocRequests
  Locales <- ThreeLocales
INVARIANT AnswerIsFaithful
 
INVARIANT GrepIsExact
INVARIANT SearchShowsHits
INVARIANT UnreadableIsTrue
PROPERTY StopEndsCall
PROPERTY PumpedCallEnds
CHECK_DEADLOCK FALSE
