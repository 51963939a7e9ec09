\* Three records with two identities and one event, merged one by one by two
\* operations that may die and be repeated, beside writers and rebuilds.
SPECIFICATION Spec
CONSTANTS
    RecordIds = {m1, m2, m3}
    Texts = {t1, t2}
    Events = {e1}
    Operations = {o1, o2}
    BatchLimit = 1
    MaxRecords = 0
    None = None
SYMMETRY Symmetry
CHECK_DEADLOCK FALSE
INVARIANTS
    TypeOK
    ChainsEnd
    LinksAgree
    ResultExact
    SearchSeesActive
    ForgottenNotIndexed
PROPERTIES
    DoneMeansDistinct
    EvidenceKept
