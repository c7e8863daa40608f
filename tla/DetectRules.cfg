\* Bursts of seven kinds around midnight, on a database from before the migration,
\* with two starts at which alerts.db or ALTER TABLE may fail.
SPECIFICATION Spec
CONSTANTS
    Bursts <- Attacks
    OldRows <- Old
    TrustedIps <- Trusted
    Pauses <- Steps
    Faulty <- StartFaults
    Midnight = 1101
    MaxBursts = 3
    MaxTime = 1300
    MaxStarts = 2
INVARIANTS TypeOK CooldownHolds
PROPERTIES EventsStored BurstNoticed BurstEscalates LoginAttackNoticed

\* The process is not started more than MaxStarts times, and the clock ends.
CHECK_DEADLOCK FALSE
