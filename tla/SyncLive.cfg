CONSTANTS
    c1 = c1
    None = None
    Cut = Cut
    Callers = {c1}
    NumFiles = 1
    DeleteFromBackup = TRUE
    CronMinutes <- Minute0
    Faulty <- HashFault
    Crashes = FALSE
    Interval = TRUE
    MaxCalls = 2
    MaxChanges = 1
    MaxMinute = 0
    MaxStarts = 1
SPECIFICATION FairSpec
PROPERTY RequestServed
PROPERTY ShutdownEnds
PROPERTY DriftTold
CHECK_DEADLOCK FALSE
