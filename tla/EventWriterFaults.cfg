\* Every SQLite call may fail, the process may be killed and is started twice.
SPECIFICATION Spec
CONSTANTS
    Threads = {t1, t2}
    MaxQueueSize = 2
    FlushBatchSize = 2
    Faulty <- AnyFault
    Crashes = TRUE
    MaxEvents = 3
    MaxClock = 0
    MaxStarts = 2
    NoStamp = NoStamp
SYMMETRY Symmetry
INVARIANTS TypeOK AcceptanceOrder ExactlyOnce Owned
PROPERTIES AppendOnly

\* The process stops for good when it was started MaxStarts times.
CHECK_DEADLOCK FALSE
