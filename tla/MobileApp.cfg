SPECIFICATION Spec
CONSTANTS
    MaxCalls = 2
    MaxRetries = 1
    Lessons = {"l1"}
    Tracks <- MCTrack
    Required = {"l1"}
    Closed = Closed
    Loading = Loading
    Error = Error
    Absent = Absent
    Readable = {0, 2}
    MaxVersion = 2
INVARIANT SendingMeansPending
INVARIANT ShownIsCached
PROPERTY NothingLoadsForever
CHECK_DEADLOCK FALSE
