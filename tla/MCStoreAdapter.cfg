SPECIFICATION Spec
CONSTANTS
    Keys = {"k1", "k2"}
    Values = {"v"}
    NoValue = "none"
    Machines <- Two
    FirstLeader = "m2"
    Requests <- CallerRequests
    Callers = {"a"}
    Watcher <- AWatcher
    KeyOrder <- Order
    poolSize = 2
    Arguments <- Args
    MaxKeys = 2
    MaxCalls = 1
    MaxFaults = 2
INVARIANTS NilMeansApplied AppliedOnce NotReachableMeansTried
PROPERTIES CallsReturn
CHECK_DEADLOCK FALSE
