\* Three failures a few minutes apart and three more.
SPECIFICATION Spec
CONSTANTS
    Bursts <- Guesses
    OldRows <- NoRows
    TrustedIps <- Trusted
    Pauses <- Steps
    Faulty <- NoFault
    Midnight = 5000
    MaxBursts = 2
    MaxTime = 1400
    MaxStarts = 1
INVARIANTS AlertMeansBurst

\* The clock ends.
CHECK_DEADLOCK FALSE
