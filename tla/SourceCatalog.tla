---------------------------- MODULE SourceCatalog ----------------------------
(***************************************************************************)
(* Source object repositories and the legal hold service that writes       *)
(* through them.  InMemorySourceObjectRepository keeps records in          *)
(* dictionaries; PgSourceObjectRepository puts the content into a content  *)
(* store, which is in memory, and then inserts storage manifest and        *)
(* metadata in one transaction.  Calls of several threads or processes     *)
(* interleave between these steps, and a restart can come at any time.     *)
(*                                                                         *)
(* Calls that are refused before their first step change nothing and are   *)
(* left out.  A row stands for a metadata row with its storage manifest,   *)
(* which is a function of the metadata and of the policy files.            *)
(***************************************************************************)
EXTENDS RetentionRules

CONSTANTS
    Requests,       \* calls, each made once
    Backends,       \* repositories a deployment can have
    MaxPending,     \* bound on the calls that are under way at the same time
    MaxReceipts,    \* bound on the receipts
    MaxRestarts     \* bound on the restarts

ASSUME CatalogAssumption ==
    /\ Backends \subseteq {"memory", "postgres"}
    /\ MaxPending \in Nat /\ MaxReceipts \in Nat /\ MaxRestarts \in Nat

VARIABLES
    backend,        \* chosen when the process is deployed
    rows,           \* metadata of each version, and when it was persisted
    objects,        \* content store: bucket, version in the object key, content
    receipts,       \* versions with a source object write receipt
    call,           \* where each request is
    clock,          \* counts transactions
    restarts, restartedAt

vars == <<backend, rows, objects, receipts, call, clock, restarts, restartedAt>>

NoRow == [meta |-> Absent, at |-> 0]
\* A receipt is hashed and names its object version, of which there is one receipt.
WriteReceipts == Versions
Steps == {"put", "begin", "commit", "check", "store", "manifest"}
Nowhere == [pc: {"new", "ok", "lost"}]
Failures == [pc: {"failed"}, to: Versions, meta: Metadata, at: Nat]
Calls ==
    [pc: Steps, op: {"add", "place", "release"}, to: Versions, meta: Metadata,
     at: Nat,               \* persisted_at_utc of the row it writes
     proof: BOOLEAN]        \* source_object_write_receipt_hash is given

TypeOK ==
    /\ backend \in Backends
    /\ rows \in [Versions -> [meta: Metadata, at: Nat] \cup {NoRow}]
    /\ objects \subseteq Buckets \X Versions \X Contents
    /\ receipts \subseteq WriteReceipts
    /\ call \in [Requests -> Calls \cup Failures \cup Nowhere]
    /\ clock \in Nat /\ restarts \in Nat /\ restartedAt \in Nat

Init ==
    /\ backend \in Backends
    /\ rows = [v \in Versions |-> NoRow]
    /\ objects = {}
    /\ receipts = {}
    /\ call = [r \in Requests |-> [pc |-> "new"]]
    /\ clock = 0
    /\ restarts = 0
    /\ restartedAt = 0

-----------------------------------------------------------------------------
Present(v) == rows[v].meta # Absent
Pg == backend = "postgres"

ContentOf(v, m) == <<RetentionManifest(m).bucket, v, m.content>>

\* get: the row, then the content by its storage manifest; hashes are verified again.
RecordMatches(v) == ReadBack(rows[v].meta).intact
ContentMatches(v) == ContentOf(v, rows[v].meta) \in objects
Readable(v) == Present(v) /\ (Pg => RecordMatches(v) /\ ContentMatches(v))

LatestOf(o) ==
    CHOOSE v \in Versions :
        /\ Object[v] = o /\ Present(v)
        /\ \A w \in Versions : Object[w] = o /\ Present(w) => rows[w].at <= rows[v].at

AppendReceipt(v) ==
    /\ v \notin receipts /\ Cardinality(receipts) < MaxReceipts
    /\ receipts' = receipts \cup {v}
    /\ UNCHANGED <<backend, rows, objects, call, clock, restarts, restartedAt>>

-----------------------------------------------------------------------------
Begins(r, op, to, m, proof) ==
    /\ call[r].pc = "new"
    /\ Cardinality({q \in Requests : call[q].pc \in Steps}) < MaxPending
    /\ WellFormed(m)
    /\ GuardAccepts(m)
    /\ Pg => Retainable(m)
    /\ call' = [call EXCEPT ![r] = [pc |-> IF Pg THEN "put" ELSE "check", op |-> op, to |-> to,
                                     meta |-> m, at |-> 0, proof |-> proof]]
    /\ UNCHANGED <<backend, rows, objects, receipts, clock, restarts, restartedAt>>

Add(r, v, m, proof) == (proof => Pg) /\ Begins(r, "add", v, m, proof)

\* The legal hold service reads the version that the command names, whichever it is.
PlaceHoldOn(r, v, w, form) ==
    /\ Readable(v) /\ ~rows[v].meta.hold
    /\ MayFollow(v, w)
    /\ Begins(r, "place", w, Held(rows[v].meta, form), FALSE)

ReleaseOfAny(r, v, w, p, form) ==
    /\ Readable(v)
    /\ MayFollow(v, w)
    /\ Begins(r, "release", w, Released(rows[v].meta, p, form), FALSE)
ReleaseHoldOf(r, v, w, p, form) ==
    /\ Readable(v) /\ rows[v].meta.hold
    /\ MayFollow(v, w)
    /\ Begins(r, "release", w, Released(rows[v].meta, p, form), FALSE)

At(r, pc) == call[r].pc = pc
GoTo(r, pc) == call' = [call EXCEPT ![r].pc = pc]
Fail(r) ==
    call' = [call EXCEPT ![r] = [pc |-> "failed", to |-> @.to, meta |-> @.meta, at |-> @.at]]

\* The content store keeps a content under a name made of bucket, key and hash, so that
\* putting it again changes nothing.  The storage manifest is built afterwards.
PutOncePerContent(r) ==
    /\ At(r, "put")
    /\ objects' = IF \E c \in objects : c[3] = call[r].meta.content
                   THEN objects ELSE objects \cup {ContentOf(call[r].to, call[r].meta)}
    /\ IF Storable(call[r].meta) THEN GoTo(r, "begin") ELSE Fail(r)
    /\ UNCHANGED <<backend, rows, receipts, clock, restarts, restartedAt>>
PutInEveryBucket(r) ==
    /\ At(r, "put")
    /\ objects' = objects \cup (Buckets \X {call[r].to} \X {call[r].meta.content})
    /\ IF Storable(call[r].meta) THEN GoTo(r, "begin") ELSE Fail(r)
    /\ UNCHANGED <<backend, rows, receipts, clock, restarts, restartedAt>>
Put(r) ==
    /\ At(r, "put")
    /\ objects' = objects \cup {ContentOf(call[r].to, call[r].meta)}
    /\ IF Storable(call[r].meta) THEN GoTo(r, "begin") ELSE Fail(r)
    /\ UNCHANGED <<backend, rows, receipts, clock, restarts, restartedAt>>

\* persisted_at_utc is now(), the start of the transaction.
Begin(r) ==
    /\ At(r, "begin")
    /\ clock' = clock + 1
    /\ call' = [call EXCEPT ![r].pc = "commit", ![r].at = clock + 1]
    /\ UNCHANGED <<backend, rows, objects, receipts, restarts, restartedAt>>

Stored(r, time) ==
    rows' = [rows EXCEPT ![call[r].to] = [meta |-> call[r].meta, at |-> time]]

Succeed(r) == call' = [call EXCEPT ![r] = [pc |-> "ok"]]
AfterStore(r) == IF call[r].op = "add" THEN Succeed(r) ELSE GoTo(r, "manifest")

\* The primary key refuses a second row, a foreign key a receipt that does not exist.
Insertable(r) == ~Present(call[r].to) /\ (call[r].proof => call[r].to \in receipts)

Commit(r) ==
    /\ At(r, "commit")
    /\ Insertable(r)
    /\ Stored(r, call[r].at)
    /\ AfterStore(r)
    /\ UNCHANGED <<backend, objects, receipts, clock, restarts, restartedAt>>

\* A violated constraint or a connection lost before the commit rolls the transaction back.
InsertFails(r) ==
    /\ At(r, "commit")
    /\ Fail(r)
    /\ UNCHANGED <<backend, rows, objects, receipts, clock, restarts, restartedAt>>

\* In memory, the version is looked up and stored by separate statements of a thread.
Check(r) ==
    /\ At(r, "check")
    /\ IF Present(call[r].to) THEN Fail(r) ELSE GoTo(r, "store")
    /\ UNCHANGED <<backend, rows, objects, receipts, clock, restarts, restartedAt>>

Store(r) ==
    /\ At(r, "store")
    /\ clock' = clock + 1
    /\ Stored(r, clock + 1)
    /\ AfterStore(r)
    /\ UNCHANGED <<backend, objects, receipts, restarts, restartedAt>>

\* The legal hold service builds the retention manifest after it has added the version.
Manifest(r) ==
    /\ At(r, "manifest")
    /\ IF Retainable(call[r].meta) THEN Succeed(r) ELSE Fail(r)
    /\ UNCHANGED <<backend, rows, objects, receipts, clock, restarts, restartedAt>>

Restart ==
    /\ restarts < MaxRestarts
    /\ restarts' = restarts + 1
    /\ restartedAt' = clock
    /\ objects' = {}
    /\ call' = [r \in Requests |->
                 IF call[r].pc \in Steps \cup {"failed"} THEN [pc |-> "lost"] ELSE call[r]]
    /\ IF Pg THEN UNCHANGED <<rows, receipts>>
             ELSE rows' = [v \in Versions |-> NoRow] /\ receipts' = {}
    /\ UNCHANGED <<backend, clock>>

Step(r) ==
    Put(r) \/ Begin(r) \/ Commit(r) \/ InsertFails(r) \/ Check(r) \/ Store(r) \/ Manifest(r)

Next ==
    \/ \E v \in Versions : AppendReceipt(v)
    \/ \E r \in Requests, v \in Versions, m \in Drafts, proof \in BOOLEAN : Add(r, v, m, proof)
    \/ \E r \in Requests, v, w \in Versions, form \in Forms : PlaceHoldOn(r, v, w, form)
    \/ \E r \in Requests, v, w \in Versions, p \in PolicyIds, form \in Forms :
          ReleaseHoldOf(r, v, w, p, form)
    \/ \E r \in Requests : Step(r)
    \/ Restart

Spec == Init /\ [][Next]_vars
-----------------------------------------------------------------------------
(* With PostgreSQL, a version that was stored can be read and passes the same *)
(* hash checks again, as long as its timestamps have the form that the        *)
(* database gives back and the content store has not been restarted since.    *)
StoredIsReadable ==
    Pg => \A v \in Versions :
             Present(v) /\ rows[v].meta.canonical /\ rows[v].at > restartedAt => Readable(v)

(* With PostgreSQL, a call that reports an error has not written a version:   *)
(* the retention manifest is built before the first write and not only after. *)
FailureLeavesNoVersion ==
    Pg => \A r \in Requests, v \in Versions :
             At(r, "failed") /\ call[r].at # 0 => rows[v].at # call[r].at

(* Content that no stored version refers to was put by a call that failed or  *)
(* is still under way; a successful one leaves nothing behind.                *)
OnlyFailuresLeaveContent ==
    \A c \in objects :
        \/ \E v \in Versions : Present(v) /\ ContentOf(v, rows[v].meta) = c
        \/ \E r \in Requests :
              call[r].pc \in Steps \cup {"failed"} /\ ContentOf(call[r].to, call[r].meta) = c

(* A stored business record or version of a protected class is in a bucket    *)
(* with an object lock, and under a legal hold the lock carries the hold.     *)
RecordsAreLocked ==
    Pg => \A v \in Versions :
             Present(v) /\ RequiresWorm(rows[v].meta) =>
                LET m == rows[v].meta IN
                /\ Bucket[RetentionManifest(m).bucket].lock # "none"
                /\ m.hold => ObjectLockHold(m)

Restarting == restarts' # restarts

(* A stored version never changes, unless two threads have both found it      *)
(* missing in the repository in memory.                                       *)
VersionsWrittenOnce ==
    [][\A v \in Versions :
         Present(v) => \/ rows'[v] = rows[v]
                       \/ ~Pg /\ Restarting
                       \/ ~Pg /\ \E r \in Requests : At(r, "store") /\ call[r].to = v]_vars

LatestHeld(o) ==
    /\ \E v \in Versions : Object[v] = o /\ Present(v)
    /\ rows[LatestOf(o)].meta.hold

(* The latest version of an object stops being under legal hold only when a   *)
(* release or an added version is stored: placing another hold, on whichever  *)
(* version, never does it.                                                    *)
HoldEndsByReleaseOrAdd ==
    [][\A v \in Versions :
         LatestHeld(Object[v]) /\ ~LatestHeld(Object[v])' =>
            \/ Restarting
            \/ \E r \in Requests : /\ call[r].pc \in Steps /\ call[r].op \in {"release", "add"}
                                   /\ rows'[call[r].to] # rows[call[r].to]]_vars

(* The repository over PostgreSQL implements the store of versions that are   *)
(* written once, with holds placed and released by writing another version.   *)
Catalog == INSTANCE SourceVersions WITH versions <- [v \in Versions |-> rows[v].meta]
ImplementsSourceVersions ==
    /\ Catalog!NoVersions
    /\ [][Pg => [Catalog!VersionsNext]_([v \in Versions |-> rows[v].meta])]_vars

=============================================================================
