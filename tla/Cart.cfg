SPECIFICATION FairSpec
CONSTANTS
    MaxOps = 3
    MaxCarts = 3
    MaxLost = 1
    MaxLoads = 1
INVARIANTS OneCart QuietIsServer ClearForgetsIdle
PROPERTIES NothingElseRollsBack QueueDrains
CHECK_DEADLOCK FALSE
