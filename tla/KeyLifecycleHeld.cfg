\* Two versions of one data class, one of them under a legal hold.
CONSTANTS
    Contents = {"content"}
    KeyVersions = {1, 2}
    PolicyIds <- MCPolicies
    Policies <- MCPolicies
    Policy <- MCPolicy
    Buckets <- MCBuckets
    Bucket <- MCBucket
    Versions = {v1, v2, v3}
    Object <- MCObject
    Drafts <- MCDrafts
    Forms = {TRUE}
    Absent = Absent
    ShreddableClasses = {"internal", "personal", "confidential", "ai_prompt", "ai_output", "voice_transcript"}
    MinKeyVersion = 1
    MaxDays = 1
    MaxRestarts = 1
SPECIFICATION Spec
SYMMETRY Symmetry
PROPERTY HeldStaysReadable
CHECK_DEADLOCK FALSE
