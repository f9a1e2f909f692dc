CONSTANTS
    Jobs = {j1, j2, j3}
    Models = {m1}
    NChunks = 2
    MaxAcl = 1
    Expectations = {0}
    Overlapping = TRUE
SPECIFICATION FairSpec
INVARIANT PendingIsOwed
PROPERTY TombstonesStay
PROPERTY PendingResolved
CHECK_DEADLOCK FALSE
