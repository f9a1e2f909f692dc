\* Two administrators at a time.
CONSTANTS
    Admins = {a1, a2}
    Seeded = TRUE
    Manifest = TRUE
SPECIFICATION Spec
SYMMETRY Symmetry
INVARIANT ComplianceAccessKept
INVARIANT ChangesAreAudited
PROPERTY FinalUnlessStale
CHECK_DEADLOCK FALSE
