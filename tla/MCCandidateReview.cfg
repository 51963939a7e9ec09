\* Four requests race on two candidates in a space that holds two records.
SPECIFICATION Spec
CONSTANTS
    Candidates = {c1, c2}
    Requests = {r1, r2, r3, r4}
    NoCandidate = NoCandidate
    NoMemory = NoMemory
    MaxRecords = 2
SYMMETRY Symmetry
CHECK_DEADLOCK FALSE
INVARIANTS
    TypeOK
    QuotaHeld
    OneRecordPerCandidate
    ApprovalAnswersRecord
PROPERTIES
    RejectionIsFinal
    PromotesAtomically
