CONSTANTS
    Callers = {c1, c2}
    KeyIds = {"k1", "k2"}
    Tokens <- MCTokens
    OutagePolicies = {"fail_closed", "use_stale_keys"}
    RefreshInterval = 1
    StaleGrace = 1
    MaxCallTime = 1
    Never = Never
SPECIFICATION Spec
PROPERTY PublishedIsTrusted
PROPERTY TrustEnds
PROPERTY TokenAcceptedOnce
PROPERTY VerificationsEnd
