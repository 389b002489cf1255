CONSTANTS
    r1 = r1
    r2 = r2
    r3 = r3
    MaxVersions = 2
    Calls = {c1}
    Datasets = {d1}
    Dataset = d1
    Entries <- MCEntries
    Rows <- MCRows
    Region <- MCRegion
    Grants <- MCGrants
    Commands <- MCCommands
    DefaultLimit = 2
    MaximumLimit = 2
    NoLimit = NoLimit
CONSTRAINT VersionBound
SPECIFICATION Spec
INVARIANT AuditNamesVersion
CHECK_DEADLOCK FALSE
