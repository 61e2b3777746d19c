SPECIFICATION FairHistorySpec
CONSTANTS
  Handlers = {h1, h2}
  MaxReconnectAttempts = 2
  MaxSockets = 3
INVARIANTS OneConnectionPerChannel SubscribersAreHeard
PROPERTIES IdleSocketCloses SubscribersReconnect
CHECK_DEADLOCK FALSE
