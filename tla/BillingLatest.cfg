SPECIFICATION Spec
CONSTANTS
    LastSub = 1
    AtOnce = 1
    Requests = 1
    StarterLimit = 1
    PaidLimit = 1
    MaxChanges = 0
    MaxFaults = 0
    MaxFree = 0
    MaxAmount = 1
INVARIANT GuardReadsLatest
CHECK_DEADLOCK FALSE
