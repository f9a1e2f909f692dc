CONSTANTS
    Sessions = {s1, s2, s3}
    Tenants = {t1, t2}
    Events = {e1, e2}
    Genesis = Genesis
    Free = Free
SPECIFICATION FairSpec
INVARIANT ChainVerifies
INVARIANT NoSequenceConflict
INVARIANT EvidenceHolds
PROPERTY ImplementsAuditLog
PROPERTY EveryCallEnds
CHECK_DEADLOCK FALSE
