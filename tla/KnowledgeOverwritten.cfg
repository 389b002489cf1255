CONSTANTS
    Documents = {d1, d2}
    Processors = {p1, p2}
    Publishers = {q1}
    Readers = {}
    MaxIndex = 2
    ChunkIsKey = FALSE
SYMMETRY Symmetry
SPECIFICATION Spec
PROPERTY PublishedIsImmutable
CHECK_DEADLOCK FALSE
