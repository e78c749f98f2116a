SPECIFICATION LearningSpec
CONSTANTS
    Skills = {s1}
    Calls = {c1, c2}
    Askers = {c1, c2}
    Intervals <- MCIntervals
    CompressAfter = 1
    MaxDay = 3
    MaxRows = 3
    MaxMissions = 3
    MaxConfident = 3
SYMMETRY Symmetry
CONSTRAINT Apart
INVARIANTS
    LadderFollowsReviews
    ServesToday
CHECK_DEADLOCK FALSE
