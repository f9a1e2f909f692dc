CONSTANTS
    Articles = {demo, new1, new2}
    Demo = {demo}
    SameKey = {new1, new2}
    Versions = {v1, v2}
    Proposals = {p1, p2}
    Callers = {c1, c2}
    Backends = {"memory"}
    Missing = Missing
    Original = Original
SPECIFICATION Spec
PROPERTY ChangesApproved
CHECK_DEADLOCK FALSE
