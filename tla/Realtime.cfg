SPECIFICATION FairHistorySpec
CONSTANTS
  orders = orders
  items = items
  Models <- MCModels
  Boards <- TwoBoards
  Watches <- MCWatches
  MaxChanges = 1
  MaxDrops = 1
  MaxFrames = 2
  MaxFetches = 2
  MaxAttempts = 2
INVARIANTS HubHearsThePage NothingMissed
PROPERTIES CatchesUp
CHECK_DEADLOCK FALSE
