SPECIFICATION Spec
CONSTANTS
    e1 = e1
    e2 = e2
    e3 = e3
    Events <- MCEvents
    Width <- MCWidth
    Garbage = Garbage
    NoEvent = NoEvent
    MaxStops = 2
CHECK_DEADLOCK FALSE
INVARIANTS TypeOK NeverFaulted WorkerQuietWhenNothingPending UnadoptedTailIsCandidate
PROPERTIES ImplementsDurableLog CallsReturn
