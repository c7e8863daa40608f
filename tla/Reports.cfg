\* Two handlers, three rows, three changes of status, four of these, two seconds.
SPECIFICATION Spec
CONSTANTS
    h1 = h1
    h2 = h2
    Threads = {h1, h2}
    Ids = {1}
    NoActor = NoActor
    Severities = {"high"}
    Kinds <- SomeKinds
    Filters <- SomeFilters
    Windows <- SomeWindows
    Asked <- SomeLimits
    Cap <- Caps
    Faulty <- StepFails
    MaxRows = 3
    MaxClock = 1
    MaxPatches = 3
    MaxMade = 4
SYMMETRY Symmetry
INVARIANTS TypeOK PagesCover WindowFinal LastAnswerHolds

\* The clock and the rows end.
CHECK_DEADLOCK FALSE
