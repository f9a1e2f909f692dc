\* Rows of two embedding model versions for one source version.
CONSTANTS
    Jobs = {j1, j2}
    Models = {m1, m2}
    NChunks = 1
    MaxAcl = 1
    Expectations = {0}
    Overlapping = FALSE
SPECIFICATION Spec
SYMMETRY Symmetry
PROPERTY DeletionReachesAllChunks
CHECK_DEADLOCK FALSE
