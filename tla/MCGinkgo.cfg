SPECIFICATION Spec
CONSTANTS
    MaxNodes = 2
    MaxEdits = 2
    Depth = 2
    Packages <- MCPackages
    Imports <- MCImports
    Invocations <- MCInvocations
INVARIANTS VerdictTellsTruth ReportsAddUp SharedSetup Unwound
CHECK_DEADLOCK FALSE
PROPERTIES SuiteEnds WatchCatchesUp
