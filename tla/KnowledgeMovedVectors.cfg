CONSTANTS
    Documents = {d1, d2}
    Processors = {p1}
    Publishers = {q1}
    Readers = {}
    MaxIndex = 2
    ChunkIsKey = TRUE
SYMMETRY Symmetry
SPECIFICATION Spec
PROPERTY PublishedIsImmutable
CHECK_DEADLOCK FALSE
