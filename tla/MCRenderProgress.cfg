CONSTANTS
  Counts = {0, 1, 3}
  Annotations = {0, 2}
  Uncounted = {TRUE, FALSE}
  Weights = {1, 2}
  Steps = {0, 30, 50, 200}
  Threshold = 2
SPECIFICATION ProgressSpec
INVARIANTS ReportsSound CutShortIsReported
PROPERTIES PageReturns
