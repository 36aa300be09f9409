CONSTANTS
  p1 = p1
  p2 = p2
  d1 = d1
  d2 = d2
  page = page
  q1 = q1
  q2 = q2
  q3 = q3
  o1 = o1
  o2 = o2
  o3 = o3
  early = early
  Processes = {p1, p2}
  NoBody = NoBody
  None = None
  Approved = Approved
  Changed = Changed
  Ends = 2
  MaxReads = 2
  Datasets <- MCDatasets
  Configs = {1, 2}
  MaxSelections = 3
  MaxInputs = 2
  MaxOutcomes = 1
  Sources <- MCSources
  Pinned <- MCPinned
  Directories = {d1, d2}
  Opens = 1
  Closes = 2
  MaxClock = 4
  MaxComments = 1
  Over = Over
  Hours = 2
  MaxRuns = 3
  MaxDispatches = 1
  NoJob = NoJob
  Members <- MCMembers
  Lists <- MCLists
  Rows <- MCRows
  Docs <- MCDocs
  Leads <- MCLeads
  Retained = {q2}
  Oversized = {o1}
  MaxStarts = 3
  PeriodicLimit = 4
  Latest = 1
  PerSeries = 1
  OwnershipLimit = 3
  MaxRequests = 4
  CircuitLimit = 2
SPECIFICATION MCSpec
INVARIANTS CoverageIsEarned ReadsAreAlone BoundIsOneComparison ResultsHold AttestedWasPublished
CHECK_DEADLOCK FALSE
