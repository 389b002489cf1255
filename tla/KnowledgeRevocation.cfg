CONSTANTS
    Documents = {d1, d2}
    Processors = {p1}
    Publishers = {q1}
    Readers = {s1}
    MaxIndex = 2
    ChunkIsKey = FALSE
SYMMETRY Symmetry
SPECIFICATION Spec
INVARIANT RevocationIsImmediate
CHECK_DEADLOCK FALSE
