--------------------------- MODULE RetentionRules ---------------------------
(***************************************************************************)
(* The decisions on one source object version: which metadata a record can *)
(* have, what the write guard refuses, which retention manifest the policy *)
(* set gives it, and whether the bucket of that manifest can hold it.      *)
(* These are functions of the metadata and of two policy files; the        *)
(* modules about versions, storage and keys build on them.                 *)
(*                                                                         *)
(* A timestamp counts days.  Hashes are abstracted to whether they fit:    *)
(* "intact" is true of a record whose content hash and manifest hash are   *)
(* those of its content and metadata.                                      *)
(***************************************************************************)
EXTENDS Integers, FiniteSets

CONSTANTS
    Contents,       \* bytes of a source object
    KeyVersions,    \* versions a KMS key can have
    PolicyIds,      \* retention policy ids a record can name
    Policies,       \* those in the retention policy file
    Policy,         \* the policy with each id
    Buckets,        \* ids in the storage policy file
    Bucket,         \* the profile of each bucket
    Versions,       \* source version ids
    Object,         \* the object each of them is a version of
    Drafts,         \* metadata that callers add an object with
    Forms,          \* time forms of legal hold commands: canonical (TRUE) or another
    Absent          \* no such version

DataClasses ==
    {"public", "internal", "personal", "confidential", "gobd", "legal_hold", "ai_prompt",
     "ai_output", "rag_chunk", "embedding", "voice_transcript"}
ObjectTypes == {"document", "mail", "attachment", "comment", "wiki", "procedure_doc"}
LifecycleStates ==
    {"working", "saved_version", "business_record", "worm_evidence", "restricted",
     "deleted", "cryptoshredded"}
LockModes == {"none", "governance", "compliance"}

\* The classes and the lifecycle states that no early deletion is ever allowed for.
ProtectedClasses == {"gobd", "legal_hold"}
RecordStates == {"business_record", "worm_evidence"}

KeyRefs == [class: DataClasses, version: KeyVersions]

Metadata ==
    [class: DataClasses, type: ObjectTypes, lifecycle: LifecycleStates, policy: PolicyIds,
     hold: BOOLEAN,             \* legal_hold_state is ACTIVE
     key: KeyRefs,              \* kms_key_ref
     created: Nat,              \* created_at_utc
     canonical: BOOLEAN,        \* the timestamps are written as isoformat and Z write them
     parented: BOOLEAN,         \* parent_object_id is given
     rfc822: BOOLEAN,           \* mime_type is message/rfc822
     chained: BOOLEAN,          \* audit_chain_ref is not audit:none
     content: Contents, intact: BOOLEAN]

RetentionPolicies ==
    [classes: SUBSET DataClasses, types: SUBSET ObjectTypes,
     lifecycles: SUBSET LifecycleStates,
     days: Nat,                 \* 0 when retention_mode is not fixed_days
     holdAllowed: BOOLEAN, worm: BOOLEAN, lock: LockModes, bucket: Buckets,
     early: BOOLEAN]            \* cryptoshred_allowed_before_retention_end

BucketProfiles ==
    [types: SUBSET ObjectTypes, lifecycles: SUBSET LifecycleStates, lock: LockModes,
     holdSupported: BOOLEAN]

\* What the validators of a retention policy and of a bucket profile accept.
ConsistentPolicy(p) ==
    /\ p.classes # {} /\ p.types # {} /\ p.lifecycles # {}
    /\ p.worm <=> p.lock # "none"
    /\ p.early => p.classes \cap ProtectedClasses = {}

ConsistentBucket(b) ==
    /\ b.types # {} /\ b.lifecycles # {}
    /\ b.lock # "none" => b.holdSupported

\* The policy files are loaded through the validators of the whole set.
CompletePolicySet ==
    /\ \E p \in Policies : Policy[p].worm
    /\ \E p \in Policies : Policy[p].days = 0
CompleteBuckets == \E b \in Buckets : Bucket[b].lock # "none"

ASSUME PoliciesAssumption ==
    /\ KeyVersions \subseteq Nat
    /\ Policies \subseteq PolicyIds
    /\ Policy \in [Policies -> RetentionPolicies]
    /\ \A p \in Policies : ConsistentPolicy(Policy[p])
    /\ CompletePolicySet
    /\ Bucket \in [Buckets -> BucketProfiles]
    /\ \A b \in Buckets : ConsistentBucket(Bucket[b])
    /\ CompleteBuckets

ASSUME VersionsAssumption ==
    /\ Absent \notin Metadata
    /\ Drafts \subseteq Metadata
    /\ Forms \subseteq BOOLEAN

-----------------------------------------------------------------------------
\* SourceObjectMetadata can only be constructed with these.
WellFormed(m) ==
    /\ m.type \in {"attachment", "comment"} => m.parented
    /\ m.type = "mail" => m.rfc822
    /\ m.hold => m.lifecycle \notin {"deleted", "cryptoshredded"}
    /\ m.lifecycle = "worm_evidence" => m.chained

\* SourceObjectWriteGuard.validate_before_write
GuardAccepts(m) == m.key.class = m.class /\ m.intact

RequiresWorm(m) == m.lifecycle \in RecordStates \/ m.class \in ProtectedClasses

AppliesTo(p, m) ==
    m.class \in p.classes /\ m.type \in p.types /\ m.lifecycle \in p.lifecycles

\* What a legal hold command makes of the version it names: a copy that is hashed again.
\* The time of the command, in the form (canonical or not) it comes in, becomes the
\* copy's updated_at_utc.
HeldUnmarked(m, form) == [m EXCEPT !.canonical = @ /\ form, !.intact = TRUE]
Held(m, form) == [m EXCEPT !.hold = TRUE, !.canonical = @ /\ form, !.intact = TRUE]
Released(m, p, form) ==
    [m EXCEPT !.hold = FALSE, !.policy = p, !.canonical = @ /\ form, !.intact = TRUE]

\* The new version has to differ from the one that the command names.
MayFollow(v, w) == v # w /\ Object[v] = Object[w]

\* build_retention_manifest raises unless this holds.
Retainable(m) ==
    /\ m.policy \in Policies
    /\ LET p == Policy[m.policy] IN
       /\ RequiresWorm(m) => p.worm
       /\ AppliesTo(p, m)
       /\ m.hold => p.holdAllowed

\* The retention manifest of a record: until when it is kept (0 for no date), and what
\* is forbidden before that.
RetentionManifest(m) ==
    LET p == Policy[m.policy] IN
    [until |-> IF p.days = 0 THEN 0 ELSE m.created + p.days,
     hold |-> m.hold,
     blocked |-> m.hold \/ p.worm,
     early |-> ~m.hold /\ p.early,
     worm |-> p.worm, lock |-> p.lock, bucket |-> p.bucket]

\* build_storage_object_manifest: the bucket of the manifest must fit the record...
BucketFits(m) ==
    LET r == RetentionManifest(m)
        b == Bucket[r.bucket]
    IN  /\ m.type \in b.types
        /\ m.lifecycle \in b.lifecycles
        /\ b.lock = r.lock
        /\ r.hold /\ r.lock # "none" => b.holdSupported

ObjectLockHold(m) == m.hold /\ Bucket[RetentionManifest(m).bucket].holdSupported

\* ... and an object lock needs a date or a legal hold, which cannot do without a lock.
LockConsistent(m) ==
    LET r == RetentionManifest(m) IN
    IF r.lock = "none" THEN ~ObjectLockHold(m) ELSE r.until # 0 \/ ObjectLockHold(m)

Storable(m) == BucketFits(m) /\ LockConsistent(m)

\* Rows keep timestamps as points in time; what is read back is written in one form, so
\* that the manifest hash of metadata in another form no longer fits.
ReadBack(m) == [m EXCEPT !.canonical = TRUE, !.intact = @ /\ m.canonical]
=============================================================================
