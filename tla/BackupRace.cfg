\* A file that is written while it is copied; no call fails.
SPECIFICATION Spec
CONSTANTS
    Paths <- P
    Trees <- OneTree
    Sizes <- OneSize
    DeleteFromBackup = FALSE
    Faulty <- NoFault
    MaxChanges = 1
    MaxRuns = 2
INVARIANTS ChangedCopied

\* The runs end.
CHECK_DEADLOCK FALSE
