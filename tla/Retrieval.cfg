CONSTANTS
    d1 = d1
    d2 = d2
    x1 = x1
    x2 = x2
    x3 = x3
    x4 = x4
    i1 = i1
    i2 = i2
    all = all
    dept = dept
    sales = sales
    audits = audits
    Calls = {c1}
    Creators = {k1, k2}
    Documents = {d1, d2}
    Chunks = {x1, x2, x3, x4}
    Tokens = {all, dept}
    Everyone = all
    Purposes = {sales, audits}
    Contracts <- MCContracts
    Requests <- MCRequests
    Indexes = {i1, i2}
    Holds <- MCHolds
    DocumentOf <- MCDocumentOf
    ChunkAcl <- MCChunkAcl
    Restricted = {x4}
    Suspicious = {x1}
    Score <- MCScore
    MaxTopK = 3
    Oversampling = 2
    MaxCandidates = 3
    None = None
SYMMETRY CreatorSymmetry
SPECIFICATION Spec
INVARIANTS
    TypeOK
    EvidenceIsPermitted
    EvidenceIsBest
    ModelSeesReleasable
    RecordTellsAnswer
PROPERTIES
    OneContract
    KeepsPromise
CHECK_DEADLOCK FALSE
