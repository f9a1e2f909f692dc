---------------------------- MODULE VectorIndex ----------------------------
(***************************************************************************)
(* The chunk rows of ONE source version in collabio.vector_embedding_chunks *)
(* and the jobs that write them: VectorIndexWorker.reindex_source and       *)
(* propagate_deletion over PgvectorStore, driven by SourceIndexingPipeline, *)
(* next to the single-chunk lifecycle transition an operator can ask for.   *)
(*                                                                         *)
(* Every store call opens a connection of its own and commits before it    *)
(* returns, so one call is one atomic step and the calls of two jobs       *)
(* interleave.  A job is a record that remembers which call comes next; it *)
(* runs once, so what it did stays visible after it ended.                 *)
(***************************************************************************)
EXTENDS Integers

CONSTANTS
    Jobs,           \* jobs handed to the workers, each runs at most once
    Models,         \* embedding model versions; a store is built for one of them
    NChunks,        \* the chunker names its chunks 1..NChunks ("chunk-0000", ...)
    MaxAcl,         \* bound on the authoritative ACL version
    Expectations,   \* what commands carry as expected_acl_version; 0 stands for None
    Overlapping     \* may two jobs of this source run at the same time?

ASSUME ConstantsAssumption ==
    /\ NChunks \in Nat \ {0}
    /\ MaxAcl \in Nat \ {0}
    /\ Expectations \subseteq 0..MaxAcl
    /\ Overlapping \in BOOLEAN

VARIABLES
    rows,       \* the table: row of each (model version, chunk), or NoRow
    job,        \* the jobs' progress
    aclNow,     \* ACL version in the authoritative source metadata
    touched     \* rows an operator has transitioned by hand

vars == <<rows, job, aclNow, touched>>

Chunks == 1..NChunks
AclVersions == 1..MaxAcl
Unnamed == 0
LifecycleStates ==
    {"active", "reindex_pending", "restricted", "deleted", "cryptoshredded"}
DeletionTargets == {"deleted", "cryptoshredded"}
Row == [state: LifecycleStates, acl: AclVersions]
NoRow == [state |-> "absent", acl |-> 0]

\* next counts the store calls of a job: 0 = the first call (the mark of a
\* reindex, the transition of a deletion), i \in 1..size = the upsert of chunk i,
\* size + 1 = delete_reindex_orphans, and beyond it nothing is left to call.
\* command is history: whether the command of a reindex named the ACL version that
\* the source had when the job began.
Job == [status: {"new", "running", "completed", "failed"},
        kind: {"reindex", "deletion"},
        model: Models,
        size: 0..NChunks,
        acl: 0..MaxAcl,
        command: {"fresh", "stale"},
        target: DeletionTargets,
        next: 0..(NChunks + 2)]

Running(j) == job[j].status = "running"
Reindex(j) == job[j].kind = "reindex"
AllCallsDone(j) ==
    job[j].next = IF Reindex(j) THEN job[j].size + 2 ELSE 1

TypeOK ==
    /\ rows \in [Models \X Chunks -> Row \cup {NoRow}]
    /\ job \in [Jobs -> Job]
    /\ aclNow \in AclVersions
    /\ touched \subseteq (Models \X Chunks)

Init ==
    /\ rows = [k \in Models \X Chunks |-> NoRow]
    /\ job \in [Jobs -> {[status |-> "new", kind |-> "reindex", model |-> m,
                          size |-> 0, acl |-> 0, command |-> "stale",
                          target |-> "deleted", next |-> 0] : m \in Models}]
    /\ aclNow = 1
    /\ touched = {}

-----------------------------------------------------------------------------
\* The ACL of the source changes in the authoritative metadata.
ChangeAcl ==
    /\ aclNow < MaxAcl
    /\ aclNow' = aclNow + 1
    /\ UNCHANGED <<rows, job, touched>>

MayBegin(j) ==
    /\ job[j].status = "new"
    /\ Overlapping \/ \A other \in Jobs : ~Running(other)

\* RepositorySourceResolver answers with the version it was built with, which the
\* source may have left behind, and so may the command, which was made earlier still
\* or later.  The two are compared with each other, here and again by the worker,
\* and with nothing else; a command that names no version accepts any.
AnyAclAccepted(expected, resolved) == TRUE
AclAccepted(expected, resolved) == expected # Unnamed => resolved = expected

Standing(expected) == IF expected = aclNow THEN "fresh" ELSE "stale"

\* index_source: resolve, chunk and embed, then reindex_source validates the
\* command and records vector.reindex.started.  What is refused has written nothing.
BeginReindex(j, size, expected, resolved) ==
    /\ MayBegin(j)
    /\ AclAccepted(expected, resolved)
    /\ job' = [job EXCEPT ![j] = [@ EXCEPT !.status = "running", !.kind = "reindex",
                                           !.size = size, !.acl = resolved,
                                           !.command = Standing(expected)]]
    /\ UNCHANGED <<rows, aclNow, touched>>

BeginDeletion(j, target) ==
    /\ MayBegin(j)
    /\ job' = [job EXCEPT ![j] = [@ EXCEPT !.status = "running",
                                           !.kind = "deletion", !.target = target]]
    /\ UNCHANGED <<rows, aclNow, touched>>

CallReturned(j) == job' = [job EXCEPT ![j].next = @ + 1]

\* UPDATE ... SET lifecycle_state = 'reindex_pending' ... AND lifecycle_state = 'active'
MarkOnlyLeftovers(j, k) == rows[k].state = "active" /\ k[2] > job[j].size
Markable(j, k) == rows[k].state = "active"

MarkSourceForReindex(j) ==
    /\ Running(j) /\ Reindex(j)
    /\ job[j].next = 0
    /\ rows' = [k \in DOMAIN rows |->
                 IF k[1] = job[j].model /\ Markable(j, k)
                 THEN [rows[k] EXCEPT !.state = "reindex_pending"]
                 ELSE rows[k]]
    /\ CallReturned(j)
    /\ UNCHANGED <<aclNow, touched>>

\* INSERT ... ON CONFLICT DO UPDATE ... WHERE lifecycle_state IN ('active',
\* 'reindex_pending'): on any other row the statement changes nothing, and the
\* worker does not look at how many rows it wrote.
AnyRowUpsertable(row) == TRUE
Upsertable(row) == row.state \in {"absent", "active", "reindex_pending"}

IndexedRow(j) == [state |-> "active", acl |-> job[j].acl]

UpsertEmbedding(j) ==
    LET k == <<job[j].model, job[j].next>> IN
    /\ Running(j) /\ Reindex(j)
    /\ job[j].next \in 1..job[j].size
    /\ rows' = IF Upsertable(rows[k])
               THEN [rows EXCEPT ![k] = IndexedRow(j)]
               ELSE rows
    /\ CallReturned(j)
    /\ UNCHANGED <<aclNow, touched>>

\* UPDATE ... SET 'deleted' WHERE 'reindex_pending' AND NOT chunk_id = ANY(keep)
KeepOneMore(j, chunk) == chunk <= job[j].size + 1
Kept(j, chunk) == chunk <= job[j].size

DeleteReindexOrphans(j) ==
    /\ Running(j) /\ Reindex(j)
    /\ job[j].next = job[j].size + 1
    /\ rows' = [k \in DOMAIN rows |->
                 IF /\ k[1] = job[j].model
                    /\ ~Kept(j, k[2])
                    /\ rows[k].state = "reindex_pending"
                 THEN [rows[k] EXCEPT !.state = "deleted"]
                 ELSE rows[k]]
    /\ CallReturned(j)
    /\ UNCHANGED <<aclNow, touched>>

\* propagate_deletion: one unconditional UPDATE over the rows of the source
\* version that belong to the model version of the worker's store.
TransitionSourceLifecycle(j) ==
    /\ Running(j) /\ ~Reindex(j)
    /\ job[j].next = 0
    /\ rows' = [k \in DOMAIN rows |->
                 IF k[1] = job[j].model /\ rows[k] # NoRow
                 THEN [rows[k] EXCEPT !.state = job[j].target]
                 ELSE rows[k]]
    /\ CallReturned(j)
    /\ UNCHANGED <<aclNow, touched>>

\* The completed event is recorded; it reports len(command.chunks) as written.
Complete(j) ==
    /\ Running(j)
    /\ AllCallsDone(j)
    /\ job' = [job EXCEPT ![j].status = "completed"]
    /\ UNCHANGED <<rows, aclNow, touched>>

\* A store call raises, before or after its commit reached the database, or the
\* process dies between two calls.  The committed calls are not undone and
\* nothing in the code runs the job again.
Fail(j) ==
    /\ Running(j)
    /\ job' = [job EXCEPT ![j].status = "failed"]
    /\ UNCHANGED <<rows, aclNow, touched>>

\* PgvectorStore.transition_lifecycle: unconditional, any target state.
TransitionLifecycle(k, state) ==
    /\ rows[k] # NoRow
    /\ rows' = [rows EXCEPT ![k].state = state]
    /\ touched' = touched \cup {k}
    /\ UNCHANGED <<job, aclNow>>

Step(j) ==
    \/ MarkSourceForReindex(j)
    \/ UpsertEmbedding(j)
    \/ DeleteReindexOrphans(j)
    \/ TransitionSourceLifecycle(j)
    \/ Complete(j)

Next ==
    \/ ChangeAcl
    \/ \E j \in Jobs :
        \/ \E size \in Chunks, expected \in Expectations, resolved \in 1..aclNow :
              BeginReindex(j, size, expected, resolved)
        \/ \E target \in DeletionTargets : BeginDeletion(j, target)
        \/ Step(j)
        \/ Fail(j)
    \/ \E k \in Models \X Chunks, state \in LifecycleStates : TransitionLifecycle(k, state)

Spec == Init /\ [][Next]_vars

\* A running job's thread keeps being scheduled; it may still fail or crash.
FairSpec == Spec /\ \A j \in Jobs : WF_vars(Step(j))
-----------------------------------------------------------------------------
\* A reindex job owes a call for chunk c: it has marked and has neither reached
\* the upsert of c nor, when c is not one of its chunks, the orphan cleanup.
Owes(j, c) ==
    /\ Reindex(j)
    /\ job[j].next >= 1
    /\ IF c <= job[j].size THEN job[j].next <= c ELSE job[j].next <= job[j].size + 1

(* Every row a reindex has hidden is owed to a job that will show it again or    *)
(* delete it, or whose failure explains why it is still hidden: two overlapping *)
(* reindexes never leave a row hidden that nobody will look at any more.         *)
PendingIsOwed ==
    \A k \in Models \X Chunks :
        rows[k].state = "reindex_pending" =>
            \/ k \in touched
            \/ \E j \in Jobs :
                /\ job[j].model = k[1]
                /\ job[j].status \in {"running", "failed"}
                /\ Owes(j, k[2])

(* A restricted, deleted or cryptoshredded row becomes searchable again by an   *)
(* operator's explicit transition only, never by a reindex, in whatever order   *)
(* the calls of reindexes and deletions reach the database.                     *)
TombstonesStay ==
    [][\A k \in Models \X Chunks :
        /\ rows[k].state \in {"restricted", "deleted", "cryptoshredded"}
        /\ rows'[k].state \in {"active", "reindex_pending"}
        => k \in touched']_vars

(* While the jobs of a source run one after the other, the searchable rows of a *)
(* model version carry one ACL version, in the middle of a reindex and after a  *)
(* failed one too: the mark hides the old rows before the first new one shows.  *)
VisibleAclUniform ==
    \A k, other \in Models \X Chunks :
        /\ k[1] = other[1]
        /\ rows[k].state = "active" /\ k \notin touched
        /\ rows[other].state = "active" /\ other \notin touched
        => rows[k].acl = rows[other].acl

(* While the jobs run one after the other, a row gets an older ACL version than  *)
(* it has from a job only whose command named no version, or one that the source *)
(* had already left when the job began: a resolver that was built too early is   *)
(* found out by the command's version, whatever failed before and whatever the   *)
(* source changes to while the job runs.                                         *)
OnlyStaleCommandsRegress ==
    [][\A k \in Models \X Chunks : rows'[k].acl < rows[k].acl =>
        \E j \in Jobs :
            /\ Running(j) /\ Reindex(j) /\ job[j].model = k[1]
            /\ job[j].command = "stale"]_vars

(* A row hidden by a reindex is searchable or deleted in the end, unless a job  *)
(* failed or an operator hid it.                                                *)
PendingResolved ==
    \A k \in Models \X Chunks :
        rows[k].state = "reindex_pending"
            ~> \/ rows[k].state # "reindex_pending"
               \/ k \in touched
               \/ \E j \in Jobs : job[j].status = "failed"

(* VECTOR_INDEX_MODEL.md: "acl_version is copied from authoritative source       *)
(* metadata", so that a row would not go back to an older one.  Neither the       *)
(* pipeline nor the upsert compares with what the source, or the row, has now.   *)
AclNeverRegresses ==
    [][\A k \in Models \X Chunks : rows[k].acl <= rows'[k].acl]_vars

(* VECTOR_INDEX_MODEL.md: propagate_deletion "moves all chunks for a source     *)
(* version to deleted or cryptoshredded".  The UPDATE is restricted to the      *)
(* model version of the worker's store.                                         *)
DeletionReachesAllChunks ==
    [][\A j \in Jobs : TransitionSourceLifecycle(j) =>
        \A k \in Models \X Chunks :
            rows'[k] = NoRow \/ rows'[k].state \in DeletionTargets]_vars
=============================================================================
