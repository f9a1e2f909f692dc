\* Two administrators at a time.
CONSTANTS
    Admins = {a1, a2}
    Seeded = TRUE
    Manifest = TRUE
SPECIFICATION Spec
PROPERTY DecommissionedIsFinal
CHECK_DEADLOCK FALSE
