SPECIFICATION Spec
CONSTANTS
    Leftovers <- MCLeftovers
    Processes = {p1}
    Guids = {g1, g2}
    Workers = {w1, w2}
    NoGuid = NoGuid
    MaxInstances = 2
    Deletes = {"remove", "change"}
    MaxWrites = 2
    MaxTimeouts = 1
    MaxRestarts = 1
INVARIANTS TypeOK StopsOnlyWhenCovered GuidNamesOneIndex CleanMeansCovered DrainedOnExit
PROPERTIES OnlyOvertakenContradict ReauctionOnlyAfterLostAnswer Drains
CHECK_DEADLOCK FALSE
