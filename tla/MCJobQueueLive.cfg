\* One job, two workers, faults that stop: the job ends.
SPECIFICATION FairSpec
CONSTANTS
    Jobs = {j1}
    Workers = {w1, w2}
    MaxAttempts = 2
    LeaseDuration = 2
    RetryBackoff = 1
    Concurrency = 1
    SweepBatch = 1
    Kinds = {"learning", "eval"}
    Dialects = {"sqlite", "postgres"}
    MaxFaults = 2
PROPERTY EventuallyFinished
