SPECIFICATION ApartSpec
CONSTANTS
  MaxRounds = 1
  MaxForks = 0
  MaxFaults = 0
  MaxInput = 1
  PipeRoom = 1
  MaxRows = 0
  Limit = 1
  Capacities = {1}
  GrepRequests = {}
  WindowRequests = {}
  ListRequests = {}
  HitRequests = {}
  WholeRequests = {}
  Reader = {r1, r2}
  DocRequests <- NeedLocale
  Locales <- ThreeLocales
INVARIANT LocaleIsRestored
CHECK_DEADLOCK FALSE
