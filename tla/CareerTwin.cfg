SPECIFICATION Spec
CONSTANTS
    Requests = {r1, r2, r3}
    Levels = {0, 1, 2}
    Score <- MCScore
    Known = 1
    MaxTick = 5
SYMMETRY Symmetry
INVARIANT StreakDaysWereActive
INVARIANT CountMatchesHistory
CHECK_DEADLOCK FALSE
