\* An approval and a rejection of one candidate.
SPECIFICATION Spec
CONSTANTS
    Candidates = {c1}
    Requests = {r1, r2}
    NoCandidate = NoCandidate
    NoMemory = NoMemory
    MaxRecords = 0
CHECK_DEADLOCK FALSE
INVARIANT TargetMeansApproved
