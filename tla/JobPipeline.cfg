SPECIFICATION Spec
CONSTANTS
    Failed = Failed
    Broken = Broken
    Blank = Blank
    Sources <- MCSources
    LimitPerSource = 2
    Loops = {1, 2}
    Manual = Manual
    Boards <- MCBoards
    MaxRuns = 3
    MaxStops = 1
INVARIANT DiscoveryIsIsolated
INVARIANT ReportsMatchTheTable
INVARIANT OneLoopWhileRunning
PROPERTY RunsEnd
CHECK_DEADLOCK FALSE
