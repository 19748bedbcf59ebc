SPECIFICATION Spec
CONSTANTS
    Commands <- MCCommands
    Op <- MCOp
    Source <- MCSource
    Dest <- MCDest
    Mode <- MCMode
    Target <- MCTarget
    Order <- MCOrder
    Paths <- MCPaths
    Pairs = {"pair"}
    Suffix = "suffix"
    FaultSets <- MCFaultSets
    MaxCrashes = 1
INVARIANTS TypeOK FailedChangedNothing NoTempLeft RemovedIsNotRead NothingTorn
CHECK_DEADLOCK FALSE
