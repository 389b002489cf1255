CONSTANTS
    j1 = j1
    d1 = d1
    Calls = {c1, c2}
    Runs = {r1, r2}
    Jobs = {j1}
    Keys = {k1, k2}
    Datasets = {d1}
    Hashes = {h1}
    Target <- MCTarget
    Operations <- AllOperations
    None = None
SPECIFICATION FairSpec
PROPERTY EveryCallReturns
CHECK_DEADLOCK FALSE
