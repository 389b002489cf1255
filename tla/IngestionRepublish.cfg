CONSTANTS
    j1 = j1
    d1 = d1
    Calls = {c1,c2,c3}
    Runs = {r1}
    Jobs = {j1}
    Keys = {k1}
    Datasets = {d1}
    Hashes = {h1,h2}
    Target <- MCTarget
    Operations <- AllOperations
    None = None
SYMMETRY Symmetry
SPECIFICATION Spec
INVARIANT OneVersionPerRun
