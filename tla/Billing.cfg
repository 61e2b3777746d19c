SPECIFICATION HistorySpec
CONSTANTS
    LastSub = 2
    AtOnce = 2
    Requests = 2
    StarterLimit = 1
    PaidLimit = 2
    MaxChanges = 1
    MaxFaults = 1
    MaxFree = 1
    MaxAmount = 2
INVARIANTS RowsFollowStripe OvershootIsBounded
PROPERTIES CanceledStays
CHECK_DEADLOCK FALSE
