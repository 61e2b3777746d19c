SPECIFICATION ProviderFairSpec
CONSTANTS
    Urls = {1, 2, 3}
    MaxAttempts = 3
    MaxMoves = 8
    MaxCalls = 3
    MaxSkips = 2
INVARIANTS OneSocket OpenIsKept OpenIsTrue
PROPERTIES Recovers
CHECK_DEADLOCK FALSE
