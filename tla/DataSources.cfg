CONSTANTS
    Sources = {s1, s2}
    Jobs = {j1, j2}
    Calls = {c1, c2, c3}
    Schemas = {x1, x2}
    None = None
SYMMETRY Symmetry
SPECIFICATION Spec
INVARIANTS
    TypeOK
    JobsBindTested
    DiscoveryFollowsTest
CHECK_DEADLOCK FALSE
