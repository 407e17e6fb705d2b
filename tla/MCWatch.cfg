SPECIFICATION Spec
CONSTANTS
    Writes = {"valid", "invalid", "delete", "compareAndDelete"}
    MaxEvents = 3
    MaxErrors = 2
    MaxClears = 1
INVARIANTS DeliveredInOrder OldWatchesEnded
PROPERTIES ImplementsFeed KeepsWatching
CHECK_DEADLOCK FALSE
