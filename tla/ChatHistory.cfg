SPECIFICATION ApartSpec
CONSTANTS
  q1 = q1
  q2 = q2
  c1 = c1
  c2 = c2
  c3 = c3
  data = data
  chart = chart
  Questions <- TwoQuestions
  Calls <- ThreeCalls
  ForeignCalls <- Foreign
  ToolOf <- ToolOfCall
  Names <- TwoNames
  ChartName = chart
  HistoryMessages = 2
  MaxAnswers = 2
  MaxUploads = 1
  MaxEdits = 1
  MaxFaults = 1
  MaxResumes = 1
  ann = ann  staff = staff  ex = ex  r1 = r1  r2 = r2
  User = {ann}
  Group = {staff, ex}
  Role = {r1, r2}
  Tab = {x, y}
  Thread = {h}
  Conf <- Providers
  Chained <- LocalFirst
  RowId = {k}
  MaxLogins = 2
  MaxChanges = 2
  MaxOutages = 1
  MaxWrites = 3
  Task = {a, b}
  Name = {n}
  Target = {g}
  MaxSaves = 2
  MaxTasks = 3
  Bodies <- MCBodies
  DrainBytes = 1
  Sends = 1
SYMMETRY Alike
CONSTRAINT Bounds
INVARIANT ReplayAgrees
INVARIANT ModelSeesWholeExchanges
 
PROPERTY StepsAreClosed
 
INVARIANT RolesAreFresh
 
INVARIANT OrphansAreLate
INVARIANT GrantsFollowRows
INVARIANT UploadIsWhole
CHECK_DEADLOCK FALSE
