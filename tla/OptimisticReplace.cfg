SPECIFICATION FairSpec
CONSTANTS
  Me = Me
  Undefined = Undefined
  Null = Null
  v1 = v1
  v2 = v2
  x1 = x1
  x2 = x2
  Variables <- ReplaceVariables
  Docs <- ReplaceDocs
  Apply <- ReplaceApply
  Optimistic <- ReplaceApply
  Reconcile = FALSE
  Debounce = TRUE
  RefetchMayFail = TRUE
  RefetchMidWrite = FALSE
  MaxCalls = 6
INVARIANTS NothingOutstandingWhenSettled ShowsLatestCall LastClickIsLastWrite
PROPERTIES EveryCallSettles Converges
CHECK_DEADLOCK FALSE
