\* Two workers share two rows of either queue: takeovers, late verdicts, sweeps
\* that act on old id lists, failures and crashes.
SPECIFICATION Spec
CONSTANTS
    Jobs = {j1, j2}
    Workers = {w1, w2}
    MaxAttempts = 2
    LeaseDuration = 1
    RetryBackoff = 1
    Concurrency = 2
    SweepBatch = 2
    Kinds = {"learning", "eval"}
    Dialects = {"sqlite"}
    MaxFaults = 1
SYMMETRY Symmetry
INVARIANTS
    TypeOK
    StartsBounded
    AttemptsCharged
    VerdictByLatestClaim
PROPERTIES
    VerdictFinal
    LiveLeaseNotStolen
    ExecutesOneAtATime
