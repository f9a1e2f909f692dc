CONSTANTS
    Requests = {r1, r2, r3}
    Registries = {"embedding_models", "tenant_policies"}
    Keys = {k1, k2}
    SeededKeys = {k1}
    Classes = {"internal"}
    MaxPending = 2
    Missing = Missing
    Garbled = Garbled
SPECIFICATION RegSpec
SYMMETRY Symmetry
INVARIANT EntriesAreAudited
INVARIANT IndexedWasApproved
PROPERTY FinishedSurvivesRestart
PROPERTY ChangesStay
CHECK_DEADLOCK FALSE
