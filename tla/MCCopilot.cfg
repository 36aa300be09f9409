\* A provider that asks for two tools at a time, of each kind, and fails at will; one
\* reviewer with batches of one or two; two cases; three profiles and three commands.
SPECIFICATION MCSpec
CONSTANTS
  governance = governance
  metrics = metrics
  h1 = h1
  h2 = h2
  Tools = {"get_study_summary", "get_experiment_results", "get_governance_status", "get_forward_diagnostic"}
  Live = {"get_governance_status", "get_forward_diagnostic"}
  Configured = {"get_study_summary", "get_experiment_results", "get_governance_status"}
  Routes <- TwoRoutes
  Unknown = "place_order"
  MaxToolCalls = 2
  MaxRetries = 1
  TraceLimit = 2
  RetryLimit = 1
  MaxDuration = 1
  MaxContext = 6
  MaxCalls = 2
  MaxVersion = 2
  MaxClock = 1
  ReviewCases = {governance, metrics}
  Answers = {h1, h2}
  Reviewers = {"ann"}
  Minimum = 2
  ReviewRuns = 2
  MaxEntries = 2
  ReviewTime = 2
  Corpus <- TwoCases
  MaxRuns <- OneBaseline
  MaxSnapshot = 2
  MaxPackets = 2
  Profiles <- DefaultProfiles
  PanelRuns = 3
  PanelSnapshots = 3
SYMMETRY Interchangeable
INVARIANTS   ScoreIsAttributed ZeroMeansEveryProfile
CHECK_DEADLOCK FALSE
