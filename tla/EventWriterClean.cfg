\* The database works and nothing kills the process from outside.
SPECIFICATION Spec
CONSTANTS
    Threads = {t1, t2}
    MaxQueueSize = 2
    FlushBatchSize = 1
    Faulty <- NoFault
    Crashes = FALSE
    MaxEvents = 4
    MaxClock = 1
    MaxStarts = 2
    NoStamp = NoStamp
SYMMETRY Symmetry
INVARIANTS ThreadOrder DrainedBeforeExit DurableAtRest AnalyzesCommitted BacklogBound

\* The process stops for good when it was started MaxStarts times.
CHECK_DEADLOCK FALSE
