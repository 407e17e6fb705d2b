SPECIFICATION FairMaintainSpec
CONSTANTS
    Maintainers = {"m1", "m2"}
    NoOne = "none"
    TTL = 6
    MaxDelay = 1
    MaxFailures = 2
    MaxStarts = 2
INVARIANTS ToldMeansHeld
PROPERTIES EventuallyHeld RemoveReturns
CHECK_DEADLOCK FALSE
