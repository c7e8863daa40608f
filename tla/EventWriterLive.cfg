\* Liveness and refinement: statements may fail, the process may be killed.
SPECIFICATION FairSpec
CONSTANTS
    Threads = {t1, t2}
    MaxQueueSize = 2
    FlushBatchSize = 2
    Faulty <- StatementFaults
    Crashes = TRUE
    MaxEvents = 2
    MaxClock = 0
    MaxStarts = 2
    NoStamp = NoStamp
PROPERTIES ImplementsAuditLog ShutdownEnds

\* The process stops for good when it was started MaxStarts times.
CHECK_DEADLOCK FALSE
