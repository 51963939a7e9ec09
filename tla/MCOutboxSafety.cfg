\* Two publisher processes share two rows, claimed and swept in batches:
\* takeovers, late acknowledgements, crashes and errors.
SPECIFICATION Spec
CONSTANTS
    Events = {e1, e2}
    Workers = {w1, w2}
    MaxRetries = 2
    LeaseDuration = 2
    Concurrency = 2
    SweepBatch = 2
    Dialect = "sqlite"
    MaxFaults = 2
SYMMETRY Symmetry
INVARIANTS
    TypeOK
    ClaimsChargedOnce
    PublishedByLatestClaim
    PublishedWasReceived
    DeadLetterAfterBudget
PROPERTY DeliversAtLeastOnce
