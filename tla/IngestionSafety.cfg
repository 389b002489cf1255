\* Every operation, three calls at once.  The calls of a client that only repeats
\* what is done change nothing, so the system may stop.
CONSTANTS
    j1 = j1
    d1 = d1
    Calls = {c1, c2, c3}
    Runs = {r1, r2}
    Jobs = {j1}
    Keys = {k1, k2}
    Datasets = {d1}
    Hashes = {h1}
    Target <- MCTarget
    Operations <- AllOperations
    None = None
SYMMETRY Symmetry
SPECIFICATION Spec
INVARIANTS
    TypeOK
    VersionNumbering
    EventsMatchVersions
    OneRunPerKey
    ResultIsAVersion
    WaitsAreAcyclic
PROPERTIES
    OnlyStaleSavesUndo
    StoppedRunsStay
    ImplementsCatalog
CHECK_DEADLOCK FALSE
