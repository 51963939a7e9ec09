\* A worker that outlives its lease.
SPECIFICATION ExtractionSpec
CONSTANTS
    Jobs = {j1}
    Workers = {w1, w2}
    MaxAttempts = 2
    LeaseDuration = 1
    RetryBackoff = 1
    Concurrency = 1
    SweepBatch = 1
    Kinds = {"learning"}
    Dialects = {"sqlite"}
    MaxFaults = 0
    Texts = {t1}
SYMMETRY Symmetry
PROPERTY RemovesPreviousOnly
