\* PostgreSQL, fewer stale jobs than one sweep batch.
SPECIFICATION FairSpec
CONSTANTS
    Jobs = {j1, j2}
    Workers = {w1}
    MaxAttempts = 2
    LeaseDuration = 1
    RetryBackoff = 1
    Concurrency = 1
    SweepBatch = 2
    Kinds = {"learning"}
    Dialects = {"postgres"}
    MaxFaults = 1
PROPERTY EveryJobGetsItsTurn
