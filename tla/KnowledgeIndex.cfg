CONSTANTS
    Documents = {d1, d2}
    Processors = {p1, p2}
    Publishers = {q1, q2}
    Readers = {s1}
    MaxIndex = 2
    ChunkIsKey = FALSE
    MaxAtWork = 2
    Window = 4
    Overlap = 1
    Mark = {a, Blank}
    Blank = Blank
    Files <- MCFiles
SYMMETRY Symmetry
CONSTRAINT WorkBound
SPECIFICATION ChunkedSpec
INVARIANTS
    TypeOK
    PublishedIsActive
    ActiveIsPublished
    IndexedIsSearchable
    NewerIsComplete
    ChunksAreComplete
PROPERTIES
    UnsharedIsImmutable
    ImplementsPublications
CHECK_DEADLOCK FALSE
