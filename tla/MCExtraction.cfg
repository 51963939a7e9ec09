\* Two workers and a job that proposes two texts, through failures and crashes.
SPECIFICATION ExtractionSpec
CONSTANTS
    Jobs = {j1}
    Workers = {w1, w2}
    MaxAttempts = 2
    LeaseDuration = 1
    RetryBackoff = 1
    Concurrency = 1
    SweepBatch = 1
    Kinds = {"learning"}
    Dialects = {"sqlite"}
    MaxFaults = 1
    Texts = {t1, t2}
SYMMETRY Symmetry
INVARIANTS
    ExtractionTypeOK
    RetryReplacesProposals
    SucceededIsLatest
PROPERTY DecidedIsKept
