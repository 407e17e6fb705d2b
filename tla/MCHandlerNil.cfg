SPECIFICATION Spec
CONSTANTS
    Leftovers <- MCLeftovers
    Processes = {p1}
    Guids = {g1}
    Workers = {w1}
    NoGuid = NoGuid
    MaxInstances = 1
    Deletes = {"change"}
    MaxWrites = 2
    MaxTimeouts = 0
    MaxRestarts = 0
INVARIANTS
    NeverPanics
CHECK_DEADLOCK FALSE
