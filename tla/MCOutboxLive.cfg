\* One event with three tries, two publishers, faults that stop: sweeps act on
\* old id lists, and everything settles.
SPECIFICATION FairSpec
CONSTANTS
    Events = {e1}
    Workers = {w1, w2}
    MaxRetries = 3
    LeaseDuration = 2
    Concurrency = 1
    SweepBatch = 1
    Dialect = "sqlite"
    MaxFaults = 2
PROPERTIES
    SettledIsFinal
    LiveLeaseNotStolen
    EventuallySettled
