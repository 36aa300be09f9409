\* Evidence and registrations written by two racing sessions.
SPECIFICATION MCSpec
CONSTANTS
  s1 = s1
  s2 = s2
  r1 = r1
  r2 = r2
  None = None
  Sessions = {s1, s2}
  Runs = {r1, r2}
  DatasetRequests <- OneDataset
  ModelRequests <- OneModel
  RunRequests <- ForecastThenSettle
  ForecastBatches <- MCForecasts
  LabelBatches <- MCLabels
  CheckBatches <- NoBatch
  ArtifactRequests = {}
SYMMETRY SessionSymmetry
INVARIANTS OneForecastOneLabel PointInTime LabelsMature AuditTrail
PROPERTIES AppendOnly ImplementsLedger
