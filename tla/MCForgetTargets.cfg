\* A record is deleted, then forgotten by its id.
SPECIFICATION Spec
CONSTANTS
    EventIds = {e1}
    Payloads = {p1, p2}
    Users = {u1, u2}
    Requests = {r1, r2}
    None = None
    RecordIds = {1, 2}
    Candidates = {1}
    Forgets = {f1}
    Scopes = {"memory"}
    Subject = u1
    PageSize = 1
SYMMETRY Symmetry
CHECK_DEADLOCK FALSE
INVARIANT TargetsErased
