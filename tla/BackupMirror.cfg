\* A directory with a file, and .nas-meta; all calls may fail.
SPECIFICATION Spec
CONSTANTS
    Paths <- P
    Trees <- OneTree
    Sizes <- TwoSizes
    DeleteFromBackup = TRUE
    Faulty <- AnyFault
    MaxChanges = 2
    MaxRuns = 2
INVARIANTS TypeOK MirrorConverges
PROPERTIES GoodStays RemovesOrphansOnly

\* The runs end.
CHECK_DEADLOCK FALSE
