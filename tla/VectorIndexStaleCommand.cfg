\* The jobs of the source run one after the other.
CONSTANTS
    Jobs = {j1, j2}
    Models = {m1}
    NChunks = 2
    MaxAcl = 2
    Expectations = {0, 1, 2}
    Overlapping = FALSE
SPECIFICATION Spec
SYMMETRY Symmetry
PROPERTY AclNeverRegresses
CHECK_DEADLOCK FALSE
