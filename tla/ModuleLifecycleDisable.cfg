\* One administrator.
CONSTANTS
    Admins = {a1}
    Seeded = TRUE
    Manifest = TRUE
SPECIFICATION Spec
INVARIANT EnabledCanBeDisabled
CHECK_DEADLOCK FALSE
