SPECIFICATION Spec
CONSTANTS
    MaxActuals = 4
    MaxIndex = 3
    MaxDesired = 3
    Guids <- MCGuids
    NumDesireds <- MCNumDesireds
    Inputs <- MCInputs
INVARIANTS
    ComputesReconcile
    IndicesIncreasing
CHECK_DEADLOCK FALSE
