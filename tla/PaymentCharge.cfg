SPECIFICATION FairHistorySpec
CONSTANTS
  MaxKeys = 2
  MaxCards = 2
  MaxTotals = 1
  OpenKinds <- SomeKinds
  Repeats = 1
  AutoRetries = 1
INVARIANTS NoKeyBesideTheUnknown ApprovedIsPaid OneKeyPerCard
PROPERTIES UnknownStays LeftStaysLeft NeverStuck
CHECK_DEADLOCK FALSE
