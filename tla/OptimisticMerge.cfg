SPECIFICATION Spec
CONSTANTS
  Me = Me
  Undefined = Undefined
  Null = Null
  v1 = v1
  v2 = v2
  x1 = x1
  x2 = x2
  Variables <- MergeVariables
  Docs <- MergeDocs
  Apply <- MergeApply
  Optimistic <- MergeOptimistic
  Reconcile = TRUE
  Debounce = FALSE
  RefetchMayFail = TRUE
  RefetchMidWrite = FALSE
  MaxCalls = 5
INVARIANTS SettledIsServer
PROPERTY ImplementsScreen
CHECK_DEADLOCK FALSE
