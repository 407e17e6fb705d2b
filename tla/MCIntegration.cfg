SPECIFICATION Spec
CONSTANTS
    Members = {"handler"}
    MaxSignals = 2
    MaxPanics = 1
    numNodes = 2
    MaxSpecs = 2
    MaxSlow = 2
INVARIANTS ExitTellsTruth BailsOutOnlyInVain StartedMeansUp
PROPERTIES SpecsEnd
CHECK_DEADLOCK FALSE
