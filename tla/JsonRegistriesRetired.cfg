\* A pipeline that was built before its model version is retired.
CONSTANTS
    Requests = {r1, r2}
    Registries = {"embedding_models", "tenant_policies"}
    Keys = {k1, k2}
    SeededKeys = {k1}
    Classes = {"internal"}
    MaxPending = 2
    Missing = Missing
    Garbled = Garbled
SPECIFICATION RegSpec
SYMMETRY Symmetry
PROPERTY RetiredIsNotUsed
CHECK_DEADLOCK FALSE
