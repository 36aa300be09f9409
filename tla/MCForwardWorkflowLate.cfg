\* The recording time of a forecast against its entry.
SPECIFICATION LateSpec
CONSTANTS
  f1 = f1
  f2 = f2
  s1 = s1
  t1 = t1
  t2 = t2
  None = None
  Commands = {f1}
  Forecasting = {f1}
  Training <- MCTraining
  Model <- MCModel
  Bundles <- FaultBundles
  Moments = {1}
  Tolerance = 1
  MaxTime = 3
  MaxFaults = 0
  Ephemeral = TRUE
CHECK_DEADLOCK FALSE
PROPERTIES RecordedBeforeEntry
