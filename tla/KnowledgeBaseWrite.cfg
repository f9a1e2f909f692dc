CONSTANTS
    Articles = {demo, new1, new2}
    Demo = {demo}
    SameKey = {new1, new2}
    Versions = {v1, v2, v3}
    Proposals = {p1, p2, p3}
    Callers = {c1, c2}
    Backends = {"memory", "postgres"}
    Missing = Missing
    Original = Original
SPECIFICATION Spec
SYMMETRY Symmetry
INVARIANT PublishedHasSource
INVARIANT ExecutedOnce
INVARIANT UniqueKeys
PROPERTY TransactionsApproved
CHECK_DEADLOCK FALSE
