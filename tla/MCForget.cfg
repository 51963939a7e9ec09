\* One request of each kind sweeps two records page by page while records and
\* candidates are written and two replicas append one event.
SPECIFICATION Spec
CONSTANTS
    EventIds = {e1}
    Payloads = {p1, p2}
    Users = {u1, u2}
    Requests = {r1, r2}
    None = None
    RecordIds = {1, 2}
    Candidates = {1}
    Forgets = {f1}
    Scopes = {"memory", "space", "user", "query", "all"}
    Subject = u1
    PageSize = 1
SYMMETRY Symmetry
CHECK_DEADLOCK FALSE
INVARIANTS
    TypeOK
    LedgerAgrees
    AcceptedIsStored
    SweepIsComplete
    InterruptedIsTraced
