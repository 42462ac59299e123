SPECIFICATION Spec
CONSTANTS
    Sizes <- MCHeavy
    Window = 12
    MaxStops = 2
    MaxFailures = 2
    Interval = 6
    MaxRecords = 10
    MaxClosures = 1
CHECK_DEADLOCK FALSE
INVARIANTS SessionCanBeOpened
