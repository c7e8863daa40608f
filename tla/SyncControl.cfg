CONSTANTS
    c1 = c1
    c2 = c2
    None = None
    Cut = Cut
    Callers = {c1, c2}
    NumFiles = 2
    DeleteFromBackup = TRUE
    CronMinutes <- Never
    Faulty <- RunFaults
    Crashes = TRUE
    Interval = FALSE
    MaxCalls = 3
    MaxChanges = 0
    MaxMinute = 0
    MaxStarts = 2
SPECIFICATION Spec
SYMMETRY Symmetry
INVARIANT TypeOK
INVARIANT StateTellsRun
INVARIANT PartialExplained
INVARIANT CancelSticks
INVARIANT NoPartialMirror
INVARIANT PausedIsStill
INVARIANT LastRunIsLastRow
CHECK_DEADLOCK FALSE
