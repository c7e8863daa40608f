\* Two threads, three requests, on a directory with a file.
SPECIFICATION Spec
CONSTANTS
    t1 = t1
    t2 = t2
    Threads = {t1, t2}
    NoRequest = NoRequest
    Paths <- P
    Trees <- SomeTrees
    Faulty <- SomeFail
    MaxRequests = 3
SYMMETRY Symmetry
INVARIANTS TypeOK LogReplays EveryChangeTold

\* The requests end.
CHECK_DEADLOCK FALSE
