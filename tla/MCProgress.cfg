\* Liveness under the fairness of each component.
SPECIFICATION ProgressSpec
CONSTANTS
  f1 = f1
  f2 = f2
  s1 = s1
  t1 = t1
  t2 = t2
  None = None
  Commands = {f1, f2}
  Forecasting = {f1, f2}
  Training <- MCTraining
  Model <- MCModel
  Bundles <- FaultBundles
  Moments = {1, 3}
  Tolerance = 1
  MaxTime = 3
  MaxFaults = 1
  Ephemeral = TRUE
CHECK_DEADLOCK FALSE
PROPERTIES CommandsStop SilenceSurfaces  AdmittedIsAnswered
