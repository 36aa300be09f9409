\* The components at small bounds: four scored filings with ties over three months, in
\* blocks of two; two reports and two reviewers of one history;
\* three sessions, two to a month; five filings over four years of four moments and two
\* commands at a time.
SPECIFICATION MCSpec
CONSTANTS
  w1 = w1
  w2 = w2
  symbolA = symbolA
  symbolB = symbolB
  None = None
  Items = {1, 2, 3, 4}
  Values = {0, 1, 2}
  Span = 3
  BlockMonths = 2
  MinimumMonths = 2
  Forecasts <- MCForecasts
  Returns <- MCReturns
  Official = 4
  Horizons = {2, 3}
  Minima = {2}
  Reviewers = {w1, w2}
  MaxDay = 4
  MaxReports = 2
  Symbols = {symbolA, symbolB}
  Sessions <- TakeTurns
  MonthLength = 2
  Horizon = 1
  MinHistory = 1
  UniverseSize = 1
  MaxAge = 2
  Spans = {90, 365}
  Ages = {1}
  Usable = {90}
  Days = 3
  MaxFilings = 2
  MaxReleases = 1
  MaxDatasets = 1
  Rows = 5
  Moments = {0, 2, 4, 6, 8, 10, 12, 14}
  Lags = {1, 3}
  YearLength = 4
  Configs <- TwoConfigs
  Development = 0
  Validation = 1
  AsOf = 16
  HoldoutShare = 3
  Families = {"moe", "simple"}
  Runs = {w1, w2}
SYMMETRY Symmetry
INVARIANTS BootstrapIsExact AcknowledgedIsEvidence NothingLooksAhead 
PROPERTIES FirstForecastStays
CHECK_DEADLOCK FALSE
