\* Two request contracts over two interrupted cycles of the checkpoint, and the four
\* other components at the bounds of MCEvidence.
SPECIFICATION MCSpec
CONSTANTS
  q1 = q1
  q2 = q2
  Requests = {q1, q2}
  Early = {submissions}
  Late = {bars}
  Docs = {d1}
  b1 = b1
  b2 = b2
  old = old
  small = small
  Fetched <- MCFetched
  Legacy <- MCLegacy
  SizeOf <- MCSizeOf
  Absent = Absent
  Torn = Torn
  Damaged = Damaged
  Versions = {"v1", "v2"}
  MaxCycles = 2
  MaxDamage = 1
  Runs = {"r1", "r2"}
  Hosts = {"h1", "h2"}
  NoHost = "none"
  StaleAfter = 0
  FailedRunWindow = 1
  EvidenceTime = 2
  MaxFaults = 2
  MaxRot = 1
  MaxRepairs = 1
  MaxAudits = 1
  Checks = {"c1"}
  Required = {"c1"}
  Manifests <- SomeManifests
  Outcomes = {"ready"}
  Builders = {"w1"}
  Second = 2
  MaxAge = 1
  Skew = 1
  PlatformTime = 3
  Datasets <- AllSets
  Frozen <- FrozenSet
  Models = {"m1", "m2"}
  Paths = {"p1", "p2"}
  Rows = 2
  MissingDelta = 1
  Minima = {2}
  NotSupplied <- Nothing
SYMMETRY Symmetry
CONSTRAINT UntilPublished
INVARIANTS VerifiedIsGenuine Certified MirrorIsTold 
PROPERTIES FinalIsImmutable
CHECK_DEADLOCK FALSE
