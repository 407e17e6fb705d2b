SPECIFICATION FairConvergeSpec
CONSTANTS
    Executors = {"e1"}
    Guids = {1, 2, 3, 4, 5, 6, 7}
    MaxInstances = 1
    Workers = {"w1"}
    MaxChanges = 2
    MaxFaults = 1
PROPERTIES KicksChangeNothing EventuallyConverged
CHECK_DEADLOCK FALSE
