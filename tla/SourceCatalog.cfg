CONSTANTS
    Contents = {"content"}
    KeyVersions = {1}
    PolicyIds <- MCPolicyIds
    Policies <- MCPolicies
    Policy <- MCPolicy
    Buckets <- MCBuckets
    Bucket <- MCBucket
    Versions = {v1, v2, v3}
    Object <- MCObject
    Drafts <- MCDrafts
    Forms = {TRUE, FALSE}
    Absent = Absent
    Requests = {r1, r2, r3}
    Backends = {"memory", "postgres"}
    MaxPending = 2
    MaxReceipts = 1
    MaxRestarts = 1
SPECIFICATION Spec
SYMMETRY Symmetry
INVARIANT StoredIsReadable
INVARIANT OnlyFailuresLeaveContent
PROPERTY HoldEndsByReleaseOrAdd
PROPERTY ImplementsSourceVersions
CHECK_DEADLOCK FALSE
