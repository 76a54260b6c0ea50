SPECIFICATION Spec
CONSTANTS
    Lines <- MCLines
    MaxRuns = 2
INVARIANTS
    LeavesDeviceClean
    ExitTellsTruth
PROPERTIES
    ToolEnds
CHECK_DEADLOCK FALSE
