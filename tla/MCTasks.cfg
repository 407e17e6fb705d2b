SPECIFICATION FairSpec
CONSTANTS
    Executors = {"e1", "e2"}
    Stagers = {"s1"}
    NoOne = "none"
    ConvergenceInterval = 1
    TimeToClaim = 1
    MaxFaults = 1
    MaxDesires = 1
    MaxCrashes = 1
INVARIANTS StartedAtMostOnce
PROPERTIES ResultStays FailedOnlyIfLapsed EventuallyResolved
CHECK_DEADLOCK FALSE
