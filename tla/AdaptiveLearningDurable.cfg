SPECIFICATION LearningSpec
CONSTANTS
    Skills = {s1}
    Calls = {c1, c2}
    Askers = {}
    Intervals <- MCIntervals
    CompressAfter = 1
    MaxDay = 3
    MaxRows = 2
    MaxMissions = 0
    MaxConfident = 2
SYMMETRY Symmetry
CHECK_DEADLOCK FALSE
INVARIANT ReviewsAreDurable
