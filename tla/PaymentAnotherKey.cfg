SPECIFICATION HistorySpec
CONSTANTS
  MaxKeys = 3
  MaxCards = 3
  MaxTotals = 0
  OpenKinds <- NoKinds
  Repeats = 0
  AutoRetries = 0
INVARIANTS NeverAnotherKey
CHECK_DEADLOCK FALSE
