\* Two slots, three deliveries and three runs: duplicates in either slot.  Seven jobs of
\* the deployment: each stage once, or a few of them again after a failure.
SPECIFICATION MCSpec
CONSTANTS
  Slots = {0, 3}
  Events = {e1, e2, e3}
  Runs = {r1, r2, r3}
  Fresh = 0
  Late = 1
  Day = 2
  MaxTime = 5
  MaxJobs = 7
  d1 = d1
  d2 = d2
  d3 = d3
  Datasets = {d1, d2}
  ReadDatasets = {d3}
  Results <- Warns
  Expected = {"candidates"}
  DayLength = 2
  StaleAfter = 1
  MaxRuns = 3
  PairingTime = 2
  ReadTime = 1
  None = None
SYMMETRY Symmetry
INVARIANTS SlotRunsOnce ClosedIsEarned  StatusIsTrue
CHECK_DEADLOCK FALSE
