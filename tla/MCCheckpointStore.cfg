SPECIFICATION Spec
CONSTANTS
    Sizes <- MCSizes
    Window = 8
    MaxStops = 2
    MaxFailures = 2
    Interval = 3
    MaxRecords = 10
    MaxClosures = 1
CHECK_DEADLOCK FALSE
INVARIANTS TypeOK SessionCanBeOpened ResumesFromNewest CloseFindsWorkerQuiet
PROPERTIES BackpressureHolds CallReturns
