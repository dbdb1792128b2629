SPECIFICATION ApartSpec
CONSTANTS
  p1 = p1  p2 = p2  p3 = p3
  c1 = c1  a1 = a1  c2 = c2
  h1 = h1  h2 = h2
  Page = {p1, p2, p3}
  Chunk = {c1, a1, c2}
  PageOf <- MCPageOf
  Attached = {a1}
  Content = {h1, h2}
  k1 = k1
  Collection = {k1}
  NoRow = NoRow
  Workers = 2
  BatchSize = 1
  Strategy = {"none", "incremental", "full", "page"}
  ForceUpdate = {FALSE, TRUE}
  Versions <- MCVersions
  Listing <- MCListing
  FirstOrigin <- MCFirstOrigin
  Earlier = 2
  FirstRows <- MCFirstRows
  MaxRuns = 3
  MaxEdits = 1
  MaxFaults = 1
  q1 = q1  q2 = q2  q3 = q3
  x1 = x1  x2 = x2
  None = None
  WikiPage = {q1, q2, q3}
  Attachment = {x1, x2}
  AttachedTo <- MCAttachedTo
  Unreadable = {x1}
  PageWorkers = 2
  PageLimit = 1
  RetryAttempts = 2
  FirstSpace <- MCFirstSpace
  Pruned = {FALSE, TRUE}
  Forced = {FALSE, TRUE}
  Asked <- MCAsked
  Wanted <- MCWanted
  MaxChanges = 1
  Sources <- MCSources
  Jobs <- MCJobs
  Nodes <- MCNodes
  MaxNodes = 5
  Files <- MCFiles
  Encodings <- MCEncodings
 
PROPERTY CleanupSparesTheRest
PROPERTY RunEnds
 
INVARIANT ChunksAreWhole
 
PROPERTY IngestEnds
CHECK_DEADLOCK FALSE
