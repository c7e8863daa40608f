CONSTANTS
    c1 = c1
    c2 = c2
    None = None
    Cut = Cut
    Callers = {c1, c2}
    NumFiles = 1
    DeleteFromBackup = TRUE
    CronMinutes <- Never
    Faulty <- NoFault
    Crashes = FALSE
    Interval = FALSE
    MaxCalls = 3
    MaxChanges = 0
    MaxMinute = 0
    MaxStarts = 1
SPECIFICATION Spec
SYMMETRY Symmetry
INVARIANT CancelAbandons
CHECK_DEADLOCK FALSE
