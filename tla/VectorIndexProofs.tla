------------------------- MODULE VectorIndexProofs -------------------------
(* Proofs about VectorIndex for every set of jobs and models, every number of *)
(* chunks and every bound on the ACL version.                                 *)
EXTENDS VectorIndex, TLAPS

Keys == Models \X Chunks

\* Every action of Next, named, so that a step proof has one case per action.
LEMMA NextCases ==
    ASSUME Next
    PROVE  \/ ChangeAcl
           \/ \E j \in Jobs, size \in Chunks, expected \in Expectations, resolved \in 1..aclNow :
                BeginReindex(j, size, expected, resolved)
           \/ \E j \in Jobs, target \in DeletionTargets : BeginDeletion(j, target)
           \/ \E j \in Jobs : MarkSourceForReindex(j)
           \/ \E j \in Jobs : UpsertEmbedding(j)
           \/ \E j \in Jobs : DeleteReindexOrphans(j)
           \/ \E j \in Jobs : TransitionSourceLifecycle(j)
           \/ \E j \in Jobs : Complete(j)
           \/ \E j \in Jobs : Fail(j)
           \/ \E k \in Keys, state \in LifecycleStates : TransitionLifecycle(k, state)
  BY DEF Next, Step, Keys

\* What the type invariant needs to be inductive: a running reindex knows its ACL.
JobsKnowTheirAcl ==
    \A j \in Jobs :
        /\ job[j].status = "new" => job[j].next = 0
        /\ Running(j) /\ Reindex(j) =>
            /\ job[j].acl \in AclVersions
            /\ job[j].size \in Chunks
            /\ job[j].next \in 0..(job[j].size + 2)

TypeInv == TypeOK /\ JobsKnowTheirAcl

LEMMA TypeInit == Init => TypeInv
  BY ConstantsAssumption
     DEF Init, TypeInv, TypeOK, JobsKnowTheirAcl, Row, NoRow, Job, Running, Reindex,
         AclVersions, Chunks, DeletionTargets, LifecycleStates

LEMMA TypeStep == TypeInv /\ [Next]_vars => TypeInv'
  <1> SUFFICES ASSUME TypeInv, [Next]_vars PROVE TypeInv'
    OBVIOUS
  <1> USE ConstantsAssumption
      DEF TypeInv, TypeOK, JobsKnowTheirAcl, Row, NoRow, Job, Running, Reindex,
          AclVersions, Chunks, DeletionTargets, LifecycleStates, Keys
  <1>1. CASE ChangeAcl
    BY <1>1 DEF ChangeAcl
  <1>2. ASSUME NEW j \in Jobs, NEW size \in Chunks, NEW expected \in Expectations,
               NEW resolved \in 1..aclNow, BeginReindex(j, size, expected, resolved)
        PROVE  TypeInv'
    <2> DEFINE begun == [job[j] EXCEPT !.status = "running", !.kind = "reindex",
                                       !.size = size, !.acl = resolved,
                                       !.command = Standing(expected)]
    <2>1. /\ job' = [job EXCEPT ![j] = begun]
          /\ job[j].status = "new"
          /\ UNCHANGED <<rows, aclNow, touched>>
      BY <1>2 DEF BeginReindex, MayBegin
    <2>2. begun \in Job
      <3>1. /\ resolved \in 0..MaxAcl /\ size \in 0..NChunks
            /\ Standing(expected) \in {"fresh", "stale"}
        BY DEF Standing
      <3>2. job[j] \in Job
        OBVIOUS
      <3>3. QED
        BY <3>1, <3>2
    <2>3. /\ begun.acl \in AclVersions
          /\ begun.size \in Chunks
          /\ begun.next = 0
          /\ begun.status = "running"
      BY <2>1
    <2> HIDE DEF begun
    <2>4. TypeOK'
      BY <2>1, <2>2
    <2>5. JobsKnowTheirAcl'
      BY <2>1, <2>2, <2>3
    <2>6. QED
      BY <2>4, <2>5
  <1>3. ASSUME NEW j \in Jobs, NEW target \in DeletionTargets, BeginDeletion(j, target)
        PROVE  TypeInv'
    <2> DEFINE begun == [job[j] EXCEPT !.status = "running", !.kind = "deletion",
                                       !.target = target]
    <2>1. /\ job' = [job EXCEPT ![j] = begun]
          /\ job[j].status = "new"
          /\ UNCHANGED <<rows, aclNow, touched>>
      BY <1>3 DEF BeginDeletion, MayBegin
    <2>2. job[j] \in Job
      OBVIOUS
    <2>3. begun \in Job
      BY <2>2
    <2>4. begun.kind = "deletion" /\ begun.status = "running"
      BY <2>2
    <2> HIDE DEF begun
    <2>5. TypeOK'
      BY <2>1, <2>3
    <2>6. JobsKnowTheirAcl'
      BY <2>1, <2>4
    <2>7. QED
      BY <2>5, <2>6
  <1>4. ASSUME NEW j \in Jobs, MarkSourceForReindex(j)
        PROVE  TypeInv'
    <2>1. rows' \in [Models \X Chunks -> Row \cup {NoRow}]
      BY <1>4 DEF MarkSourceForReindex, Markable
    <2>2. /\ job' \in [Jobs -> Job] /\ UNCHANGED <<aclNow, touched>>
          /\ JobsKnowTheirAcl'
      BY <1>4 DEF MarkSourceForReindex, CallReturned
    <2>3. QED
      BY <2>1, <2>2
  <1>5. ASSUME NEW j \in Jobs, UpsertEmbedding(j)
        PROVE  TypeInv'
    BY <1>5 DEF UpsertEmbedding, CallReturned, IndexedRow
  <1>6. ASSUME NEW j \in Jobs, DeleteReindexOrphans(j)
        PROVE  TypeInv'
    BY <1>6 DEF DeleteReindexOrphans, CallReturned
  <1>7. ASSUME NEW j \in Jobs, TransitionSourceLifecycle(j)
        PROVE  TypeInv'
    BY <1>7 DEF TransitionSourceLifecycle, CallReturned
  <1>8. ASSUME NEW j \in Jobs, Complete(j)
        PROVE  TypeInv'
    BY <1>8 DEF Complete
  <1>9. ASSUME NEW j \in Jobs, Fail(j)
        PROVE  TypeInv'
    BY <1>9 DEF Fail
  <1>10. ASSUME NEW k \in Keys, NEW state \in LifecycleStates,
                TransitionLifecycle(k, state)
         PROVE  TypeInv'
    BY <1>10 DEF TransitionLifecycle
  <1>11. CASE UNCHANGED vars
    BY <1>11 DEF vars
  <1>12. QED
    BY <1>1, <1>2, <1>3, <1>4, <1>5, <1>6, <1>7, <1>8, <1>9, <1>10, <1>11, NextCases

LEMMA TypeInvariance == Spec => []TypeInv
  BY TypeInit, TypeStep, PTL DEF Spec

(* Type correctness: every row is absent or carries a lifecycle state and an    *)
(* ACL version of at least 1, and no job makes a call beyond its last one.      *)
THEOREM TypeCorrectness == Spec => []TypeOK
  BY TypeInvariance, PTL DEF TypeInv

-----------------------------------------------------------------------------
\* What the actions do to the record of a job, once and for all.
LEMMA JobFields ==
    ASSUME TypeOK, NEW j \in Jobs
    PROVE  /\ job[j].next \in Int /\ job[j].size \in Int /\ job[j].acl \in Int
           /\ job[j] \in Job /\ DOMAIN job = Jobs
  BY ConstantsAssumption DEF TypeOK, Job

LEMMA CallReturnedFields ==
    ASSUME TypeOK, NEW j \in Jobs, CallReturned(j)
    PROVE  /\ job'[j].next = job[j].next + 1
           /\ job'[j].model = job[j].model /\ job'[j].size = job[j].size
           /\ job'[j].status = job[j].status /\ job'[j].kind = job[j].kind
           /\ job'[j].acl = job[j].acl /\ job'[j].command = job[j].command
           /\ \A i \in Jobs \ {j} : job'[i] = job[i]
  <1>1. job[j] \in Job /\ DOMAIN job = Jobs
    BY JobFields
  <1>2. job'[j] = [job[j] EXCEPT !.next = job[j].next + 1]
    BY <1>1 DEF CallReturned
  <1>3. \A i \in Jobs \ {j} : job'[i] = job[i]
    BY <1>1 DEF CallReturned
  <1>4. QED
    BY <1>1, <1>2, <1>3 DEF Job

(* Hidden rows are owed to a job.  The invariant is inductive on top of TypeInv: *)
(* a mark makes its job owe every row it hides, an upsert or the cleanup settles *)
(* exactly the rows the job stops owing, and a job that has no call left owes    *)
(* nothing.                                                                      *)
LEMMA OwedStep == TypeInv /\ PendingIsOwed /\ [Next]_vars => PendingIsOwed'
  <1> SUFFICES ASSUME TypeInv, PendingIsOwed, [Next]_vars,
                      NEW k \in Keys,
                      rows'[k].state = "reindex_pending", k \notin touched'
               PROVE  \E j \in Jobs :
                        /\ job'[j].model = k[1]
                        /\ job'[j].status \in {"running", "failed"}
                        /\ Owes(j, k[2])'
    BY DEF PendingIsOwed, Keys
  <1> DEFINE Debtor(j) == /\ job[j].model = k[1]
                          /\ job[j].status \in {"running", "failed"}
                          /\ Owes(j, k[2])
  <1>a. ASSUME touched \subseteq touched', rows[k].state = "reindex_pending"
        PROVE  \E j \in Jobs : Debtor(j)
    BY <1>a DEF PendingIsOwed, Keys
  <1>b. /\ k \in Models \X Chunks /\ DOMAIN rows = Models \X Chunks
        /\ rows \in [Models \X Chunks -> Row \cup {NoRow}]
        /\ TypeOK /\ k[2] \in Int /\ k[2] >= 1
    BY ConstantsAssumption DEF TypeInv, TypeOK, Chunks, Keys
  <1>c. ASSUME NEW i \in Jobs, Debtor(i), job'[i] = job[i]
        PROVE  \E j \in Jobs : Debtor(j)'
    BY <1>c DEF Owes, Reindex
  <1>1. CASE ChangeAcl
    BY <1>1, <1>a, <1>c DEF ChangeAcl
  <1>2. ASSUME NEW j \in Jobs, NEW size \in Chunks, NEW expected \in Expectations,
               NEW resolved \in 1..aclNow, BeginReindex(j, size, expected, resolved)
        PROVE  \E i \in Jobs : Debtor(i)'
    <2>1. PICK i \in Jobs : Debtor(i)
      BY <1>2, <1>a DEF BeginReindex
    <2>2. i # j /\ job'[i] = job[i]
      BY <1>2, <2>1, <1>b, JobFields DEF BeginReindex, MayBegin
    <2>3. QED
      BY <2>1, <2>2, <1>c
  <1>3. ASSUME NEW j \in Jobs, NEW target \in DeletionTargets, BeginDeletion(j, target)
        PROVE  \E i \in Jobs : Debtor(i)'
    <2>1. PICK i \in Jobs : Debtor(i)
      BY <1>3, <1>a DEF BeginDeletion
    <2>2. i # j /\ job'[i] = job[i]
      BY <1>3, <2>1, <1>b, JobFields DEF BeginDeletion, MayBegin
    <2>3. QED
      BY <2>1, <2>2, <1>c
  <1>4. ASSUME NEW j \in Jobs, MarkSourceForReindex(j)
        PROVE  \E i \in Jobs : Debtor(i)'
    <2>0. /\ job[j].next = 0 /\ Running(j) /\ Reindex(j) /\ CallReturned(j)
          /\ rows'[k] = IF k[1] = job[j].model /\ Markable(j, k)
                           THEN [rows[k] EXCEPT !.state = "reindex_pending"]
                           ELSE rows[k]
          /\ touched' = touched
      BY <1>4, <1>b DEF MarkSourceForReindex
    <2>1. CASE rows[k].state = "reindex_pending"
      <3>1. PICK i \in Jobs : Debtor(i)
        BY <2>0, <2>1, <1>a
      <3>2. i # j
        BY <2>0, <3>1 DEF Owes
      <3>3. QED
        BY <2>0, <3>1, <3>2, <1>b, <1>c, CallReturnedFields
    <2>2. CASE rows[k].state # "reindex_pending"
      <3>1. job[j].model = k[1]
        BY <2>0, <2>2
      <3>2. /\ job'[j].model = k[1] /\ job'[j].next = 1 /\ job'[j].size = job[j].size
            /\ job'[j].status = "running" /\ job'[j].kind = "reindex"
        BY <2>0, <3>1, <1>b, CallReturnedFields DEF Running, Reindex
      <3>3. job[j].size \in Chunks
        BY <2>0 DEF TypeInv, JobsKnowTheirAcl
      <3>4. Owes(j, k[2])'
        BY <3>2, <3>3, <1>b, ConstantsAssumption DEF Owes, Reindex, Chunks
      <3>5. QED
        BY <3>2, <3>4
    <2>3. QED
      BY <2>1, <2>2
  <1>5. ASSUME NEW j \in Jobs, UpsertEmbedding(j)
        PROVE  \E i \in Jobs : Debtor(i)'
    <2>0. /\ job[j].next \in 1..job[j].size /\ Running(j) /\ Reindex(j) /\ CallReturned(j)
          /\ touched' = touched
      BY <1>5 DEF UpsertEmbedding
    <2>1. /\ rows[k].state = "reindex_pending"
          /\ ~(job[j].model = k[1] /\ job[j].next = k[2])
      BY <1>5, <1>b DEF UpsertEmbedding, Upsertable, IndexedRow
    <2>2. PICK i \in Jobs : Debtor(i)
      BY <2>0, <2>1, <1>a
    <2>3. CASE i # j
      BY <2>0, <2>2, <2>3, <1>b, <1>c, CallReturnedFields
    <2>4. CASE i = j
      <3>1. /\ job'[j].model = k[1] /\ job'[j].size = job[j].size
            /\ job'[j].status = "running" /\ job'[j].kind = "reindex"
            /\ job'[j].next = job[j].next + 1
        BY <2>0, <2>2, <2>4, <1>b, CallReturnedFields DEF Running, Reindex
      <3>2. /\ job[j].next \in Int /\ job[j].size \in Int
            /\ job[j].next # k[2]
        BY <1>b, <2>1, <2>2, <2>4, JobFields
      <3>3. Owes(j, k[2])
        BY <2>2, <2>4
      <3>4. Owes(j, k[2])'
        BY <2>0, <3>1, <3>2, <3>3, <1>b DEF Owes, Reindex
      <3>5. QED
        BY <3>1, <3>4
    <2>5. QED
      BY <2>3, <2>4
  <1>6. ASSUME NEW j \in Jobs, DeleteReindexOrphans(j)
        PROVE  \E i \in Jobs : Debtor(i)'
    <2>0. /\ job[j].next = job[j].size + 1 /\ CallReturned(j) /\ touched' = touched
      BY <1>6 DEF DeleteReindexOrphans
    <2>1. /\ rows[k].state = "reindex_pending"
          /\ ~(job[j].model = k[1] /\ ~(k[2] <= job[j].size))
      BY <1>6, <1>b DEF DeleteReindexOrphans, Kept
    <2>2. PICK i \in Jobs : Debtor(i)
      BY <2>0, <2>1, <1>a
    <2>3. job[j].next \in Int /\ job[j].size \in Int
      BY <1>b, JobFields
    <2>4. i # j
      BY <2>0, <2>1, <2>2, <2>3, <1>b DEF Owes
    <2>5. QED
      BY <2>0, <2>2, <2>4, <1>b, <1>c, CallReturnedFields
  <1>7. ASSUME NEW j \in Jobs, TransitionSourceLifecycle(j)
        PROVE  \E i \in Jobs : Debtor(i)'
    <2>0. ~Reindex(j) /\ CallReturned(j) /\ touched' = touched /\ job[j].target \in DeletionTargets
      BY <1>7, <1>b, JobFields DEF TransitionSourceLifecycle, Job
    <2>1. rows[k].state = "reindex_pending"
      BY <1>7, <2>0, <1>b DEF TransitionSourceLifecycle, DeletionTargets, Row, NoRow
    <2>2. PICK i \in Jobs : Debtor(i)
      BY <2>0, <2>1, <1>a
    <2>3. i # j
      BY <2>0, <2>2 DEF Owes
    <2>4. QED
      BY <2>0, <2>2, <2>3, <1>b, <1>c, CallReturnedFields
  <1>8. ASSUME NEW j \in Jobs, Complete(j)
        PROVE  \E i \in Jobs : Debtor(i)'
    <2>1. PICK i \in Jobs : Debtor(i)
      BY <1>8, <1>a DEF Complete
    <2>2. job[j].next \in Int /\ job[j].size \in Int /\ DOMAIN job = Jobs
      BY <1>b, JobFields
    <2>3. i # j
      BY <1>8, <2>1, <2>2, <1>b DEF Complete, AllCallsDone, Owes
    <2>4. QED
      BY <1>8, <2>1, <2>2, <2>3, <1>c DEF Complete
  <1>9. ASSUME NEW j \in Jobs, Fail(j)
        PROVE  \E i \in Jobs : Debtor(i)'
    <2>1. PICK i \in Jobs : Debtor(i)
      BY <1>9, <1>a DEF Fail
    <2>2. job[i] \in Job /\ DOMAIN job = Jobs
      BY <1>b, JobFields
    <2>3. /\ job'[i].model = job[i].model /\ job'[i].size = job[i].size
          /\ job'[i].kind = job[i].kind /\ job'[i].next = job[i].next
          /\ job'[i].status \in {"running", "failed"}
      BY <1>9, <2>1, <2>2 DEF Fail, Job
    <2>4. QED
      BY <2>1, <2>3 DEF Owes, Reindex
  <1>10. ASSUME NEW row \in Keys, NEW state \in LifecycleStates,
                TransitionLifecycle(row, state)
         PROVE  \E i \in Jobs : Debtor(i)'
    <2>1. rows[k].state = "reindex_pending"
      BY <1>10, <1>b DEF TransitionLifecycle, Keys
    <2>2. QED
      BY <1>10, <2>1, <1>a, <1>c DEF TransitionLifecycle
  <1>11. CASE UNCHANGED vars
    BY <1>11, <1>a, <1>c DEF vars
  <1>12. QED
    BY <1>1, <1>2, <1>3, <1>4, <1>5, <1>6, <1>7, <1>8, <1>9, <1>10, <1>11, NextCases

LEMMA OwedInit == Init => PendingIsOwed
  <1> SUFFICES ASSUME Init, NEW k \in Keys
               PROVE  rows[k].state # "reindex_pending"
    BY DEF PendingIsOwed, Keys
  <1>1. rows[k] = NoRow
    BY DEF Init, Keys
  <1>2. QED
    BY <1>1 DEF NoRow

(* However reindexes, deletions and failures interleave, a hidden row is owed to *)
(* a reindex that is still running or failed, or an operator has transitioned it.*)
THEOREM HiddenRowsAreOwed == Spec => []PendingIsOwed
  BY OwedInit, OwedStep, TypeInvariance, PTL DEF Spec

-----------------------------------------------------------------------------
Tombstones == {"restricted", "deleted", "cryptoshredded"}

LEMMA TombstoneStep ==
    ASSUME TypeInv, [Next]_vars, NEW k \in Keys,
           rows[k].state \in Tombstones, rows'[k].state \in {"active", "reindex_pending"}
    PROVE  k \in touched'
  <1>a. /\ k \in Models \X Chunks /\ DOMAIN rows = Models \X Chunks
        /\ rows \in [Models \X Chunks -> Row \cup {NoRow}] /\ TypeOK
    BY DEF TypeInv, TypeOK, Keys
  <1>b. rows'[k] # rows[k]
    BY DEF Tombstones
  <1>1. CASE ChangeAcl
    BY <1>1, <1>b DEF ChangeAcl
  <1>2. ASSUME NEW j \in Jobs, NEW size \in Chunks, NEW expected \in Expectations,
               NEW resolved \in 1..aclNow, BeginReindex(j, size, expected, resolved)
        PROVE  k \in touched'
    BY <1>2, <1>b DEF BeginReindex
  <1>3. ASSUME NEW j \in Jobs, NEW target \in DeletionTargets, BeginDeletion(j, target)
        PROVE  k \in touched'
    BY <1>3, <1>b DEF BeginDeletion
  <1>4. ASSUME NEW j \in Jobs, MarkSourceForReindex(j)
        PROVE  k \in touched'
    BY <1>4, <1>a, <1>b DEF MarkSourceForReindex, Markable, Tombstones
  <1>5. ASSUME NEW j \in Jobs, UpsertEmbedding(j)
        PROVE  k \in touched'
    BY <1>5, <1>a, <1>b DEF UpsertEmbedding, Upsertable, Tombstones
  <1>6. ASSUME NEW j \in Jobs, DeleteReindexOrphans(j)
        PROVE  k \in touched'
    BY <1>6, <1>a, <1>b DEF DeleteReindexOrphans, Tombstones
  <1>7. ASSUME NEW j \in Jobs, TransitionSourceLifecycle(j)
        PROVE  k \in touched'
    <2>1. job[j].target \in DeletionTargets
      BY <1>a, JobFields DEF Job
    <2>2. rows'[k].state = job[j].target
      BY <1>7, <1>a, <1>b, <2>1
         DEF TransitionSourceLifecycle, Row, NoRow, DeletionTargets
    <2>3. QED
      BY <2>1, <2>2 DEF DeletionTargets
  <1>8. ASSUME NEW j \in Jobs, Complete(j)
        PROVE  k \in touched'
    BY <1>8, <1>b DEF Complete
  <1>9. ASSUME NEW j \in Jobs, Fail(j)
        PROVE  k \in touched'
    BY <1>9, <1>b DEF Fail
  <1>10. ASSUME NEW row \in Keys, NEW state \in LifecycleStates,
                TransitionLifecycle(row, state)
         PROVE  k \in touched'
    BY <1>10, <1>a, <1>b DEF TransitionLifecycle
  <1>11. CASE UNCHANGED vars
    BY <1>11, <1>b DEF vars
  <1>12. QED
    BY <1>1, <1>2, <1>3, <1>4, <1>5, <1>6, <1>7, <1>8, <1>9, <1>10, <1>11, NextCases

(* No interleaving of reindexes and deletions brings a restricted, deleted or    *)
(* cryptoshredded row back into the index without an operator's transition.      *)
THEOREM TombstonesAreKept == Spec => TombstonesStay
  <1>1. TypeInv /\ [Next]_vars =>
          [\A k \in Models \X Chunks :
            /\ rows[k].state \in {"restricted", "deleted", "cryptoshredded"}
            /\ rows'[k].state \in {"active", "reindex_pending"}
            => k \in touched']_vars
    BY TombstoneStep DEF Tombstones, Keys
  <1>2. QED
    BY <1>1, TypeInvariance, PTL DEF Spec, TombstonesStay

-----------------------------------------------------------------------------
(* Jobs one after the other.  Once a reindex has marked, every row the table     *)
(* shows for its model version was written by it; with expected_acl_version its  *)
(* ACL version is the newest one, which no later job falls behind.               *)
OneAtATime ==
    \A i, j \in Jobs : Running(i) /\ Running(j) => i = j

MarkedJobOwnsTheView ==
    \A j \in Jobs, k \in Keys :
        /\ Running(j) /\ Reindex(j) /\ job[j].next >= 1
        /\ k[1] = job[j].model
        /\ rows[k].state = "active" /\ k \notin touched
        => rows[k].acl = job[j].acl

SerialInv == TypeInv /\ OneAtATime /\ MarkedJobOwnsTheView /\ VisibleAclUniform

LEMMA SerialInit == Init => SerialInv
  <1> SUFFICES ASSUME Init PROVE SerialInv
    OBVIOUS
  <1>1. /\ \A k \in Keys : rows[k].state = "absent"
        /\ \A j \in Jobs : ~Running(j)
    BY DEF Init, Keys, NoRow, Running
  <1>2. QED
    BY <1>1, TypeInit DEF SerialInv, OneAtATime, MarkedJobOwnsTheView, VisibleAclUniform, Keys

LEMMA OneAtATimeStep ==
    ASSUME ~Overlapping, TypeInv, OneAtATime, [Next]_vars
    PROVE  OneAtATime'
  <1>a. TypeOK /\ DOMAIN job = Jobs /\ \A j \in Jobs : job[j] \in Job
    BY DEF TypeInv, TypeOK
  <1>b. ASSUME NEW j \in Jobs, job'[j].status = "running" => Running(j),
               \A i \in Jobs \ {j} : job'[i] = job[i]
        PROVE  OneAtATime'
    BY <1>b DEF OneAtATime, Running
  <1>c. ASSUME NEW j \in Jobs, \A i \in Jobs : ~Running(i),
               \A i \in Jobs \ {j} : job'[i] = job[i]
        PROVE  OneAtATime'
    BY <1>c DEF OneAtATime, Running
  <1>1. CASE UNCHANGED job
    BY <1>1 DEF OneAtATime, Running
  <1>2. ASSUME NEW j \in Jobs, NEW size \in Chunks, NEW expected \in Expectations,
               NEW resolved \in 1..aclNow, BeginReindex(j, size, expected, resolved)
        PROVE  OneAtATime'
    BY <1>2, <1>a, <1>c DEF BeginReindex, MayBegin
  <1>3. ASSUME NEW j \in Jobs, NEW target \in DeletionTargets, BeginDeletion(j, target)
        PROVE  OneAtATime'
    BY <1>3, <1>a, <1>c DEF BeginDeletion, MayBegin
  <1>4. ASSUME NEW j \in Jobs, CallReturned(j)
        PROVE  OneAtATime'
    BY <1>4, <1>a, <1>b, CallReturnedFields DEF Running
  <1>5. ASSUME NEW j \in Jobs, Complete(j) \/ Fail(j)
        PROVE  OneAtATime'
    <2>1. job'[j].status # "running" /\ \A i \in Jobs \ {j} : job'[i] = job[i]
      BY <1>5, <1>a DEF Complete, Fail, Job
    <2>2. QED
      BY <2>1, <1>b
  <1>6. QED
    BY <1>1, <1>2, <1>3, <1>4, <1>5, NextCases
       DEF ChangeAcl, MarkSourceForReindex, UpsertEmbedding, DeleteReindexOrphans,
           TransitionSourceLifecycle, TransitionLifecycle, vars

LEMMA SerialStep ==
    ASSUME ~Overlapping, SerialInv, [Next]_vars
    PROVE  MarkedJobOwnsTheView' /\ VisibleAclUniform'
  <1>a. /\ TypeInv /\ TypeOK /\ DOMAIN job = Jobs /\ DOMAIN rows = Keys
        /\ \A j \in Jobs : job[j] \in Job
        /\ \A k \in Keys : rows[k] \in Row \cup {NoRow}
    BY DEF SerialInv, TypeInv, TypeOK, Keys
  <1> DEFINE Shown(k) == rows[k].state = "active" /\ k \notin touched
  \* A step that shows no row that was not shown before, and lets no job mark.
  <1>b. ASSUME \A k \in Keys : Shown(k)' => Shown(k) /\ rows'[k].acl = rows[k].acl,
               \A j \in Jobs :
                  /\ Running(j)' /\ Reindex(j)' /\ (job[j].next >= 1)'
                  => /\ Running(j) /\ Reindex(j) /\ job[j].next >= 1
                     /\ job'[j].model = job[j].model /\ job'[j].acl = job[j].acl
        PROVE  MarkedJobOwnsTheView' /\ VisibleAclUniform'
    BY <1>b DEF SerialInv, MarkedJobOwnsTheView, VisibleAclUniform, Keys
  <1>1. CASE ChangeAcl
    BY <1>1, <1>b DEF ChangeAcl, Running, Reindex
  <1>2. ASSUME NEW j \in Jobs, NEW size \in Chunks, NEW expected \in Expectations,
               NEW resolved \in 1..aclNow, BeginReindex(j, size, expected, resolved)
        PROVE  MarkedJobOwnsTheView' /\ VisibleAclUniform'
    <2>1. job[j].next = 0
      BY <1>2, <1>a DEF BeginReindex, MayBegin, TypeInv, JobsKnowTheirAcl
    <2>2. job'[j].next = 0 /\ \A i \in Jobs \ {j} : job'[i] = job[i]
      BY <1>2, <1>a, <2>1 DEF BeginReindex, Job
    <2>3. QED
      BY <1>2, <2>2, <1>b DEF BeginReindex, Running, Reindex
  <1>3. ASSUME NEW j \in Jobs, NEW target \in DeletionTargets, BeginDeletion(j, target)
        PROVE  MarkedJobOwnsTheView' /\ VisibleAclUniform'
    <2>1. job'[j].kind = "deletion" /\ \A i \in Jobs \ {j} : job'[i] = job[i]
      BY <1>3, <1>a DEF BeginDeletion, Job
    <2>2. QED
      BY <1>3, <2>1, <1>b DEF BeginDeletion, Running, Reindex
  <1>4. ASSUME NEW j \in Jobs, MarkSourceForReindex(j)
        PROVE  MarkedJobOwnsTheView' /\ VisibleAclUniform'
    <2>1. /\ Running(j) /\ touched' = touched /\ CallReturned(j)
          /\ \A k \in Keys : rows'[k] = IF k[1] = job[j].model /\ Markable(j, k)
                                        THEN [rows[k] EXCEPT !.state = "reindex_pending"]
                                        ELSE rows[k]
      BY <1>4, <1>a DEF MarkSourceForReindex
    <2>2. \A k \in Keys : Shown(k)' =>
            Shown(k) /\ rows'[k].acl = rows[k].acl /\ k[1] # job[j].model
      BY <2>1, <1>a DEF Markable, Row, NoRow
    <2>3. VisibleAclUniform'
      BY <2>2 DEF SerialInv, VisibleAclUniform, Keys
    <2>4. \A i \in Jobs : Running(i)' => i = j
      BY <2>1, <1>a, CallReturnedFields DEF SerialInv, OneAtATime, Running
    <2>5. job'[j].model = job[j].model
      BY <2>1, <1>a, CallReturnedFields
    <2>6. MarkedJobOwnsTheView'
      BY <2>2, <2>4, <2>5 DEF MarkedJobOwnsTheView
    <2>7. QED
      BY <2>3, <2>6
  <1>5. ASSUME NEW j \in Jobs, UpsertEmbedding(j)
        PROVE  MarkedJobOwnsTheView' /\ VisibleAclUniform'
    <2>1. /\ Running(j) /\ Reindex(j) /\ job[j].next >= 1
          /\ touched' = touched /\ CallReturned(j)
          /\ \A k \in Keys : \/ rows'[k] = rows[k]
                             \/ rows'[k].acl = job[j].acl /\ k[1] = job[j].model
      <3>1. job[j].next >= 1
        BY <1>5, <1>a, JobFields DEF UpsertEmbedding
      <3>2. QED
        BY <1>5, <3>1, <1>a DEF UpsertEmbedding, IndexedRow
    <2>2. \A k \in Keys : Shown(k)' =>
            \/ Shown(k) /\ rows'[k].acl = rows[k].acl
            \/ rows'[k].acl = job[j].acl /\ k[1] = job[j].model
      BY <2>1
    <2>3. \A k \in Keys : Shown(k)' /\ k[1] = job[j].model => rows'[k].acl = job[j].acl
      BY <2>1, <2>2 DEF SerialInv, MarkedJobOwnsTheView
    <2>4. \A i \in Jobs : Running(i)' => i = j
      BY <2>1, <1>a, CallReturnedFields DEF SerialInv, OneAtATime, Running
    <2>5. job'[j].model = job[j].model /\ job'[j].acl = job[j].acl
      BY <2>1, <1>a, CallReturnedFields
    <2>6. MarkedJobOwnsTheView'
      BY <2>3, <2>4, <2>5 DEF MarkedJobOwnsTheView
    <2>7. VisibleAclUniform'
      BY <2>2, <2>3 DEF SerialInv, VisibleAclUniform, Keys
    <2>8. QED
      BY <2>6, <2>7
  <1>6. ASSUME NEW j \in Jobs, DeleteReindexOrphans(j)
        PROVE  MarkedJobOwnsTheView' /\ VisibleAclUniform'
    <2>1. /\ Running(j) /\ Reindex(j) /\ job[j].next = job[j].size + 1
          /\ job[j].size \in Nat /\ touched' = touched /\ CallReturned(j)
      BY <1>6, <1>a, ConstantsAssumption DEF DeleteReindexOrphans, Job
    <2>2. \A k \in Keys : rows'[k] = rows[k] \/ rows'[k].state = "deleted"
      BY <1>6, <1>a DEF DeleteReindexOrphans, Row, NoRow
    <2>3. QED
      BY <2>1, <2>2, <1>a, <1>b, CallReturnedFields DEF Running, Reindex
  <1>7. ASSUME NEW j \in Jobs, TransitionSourceLifecycle(j)
        PROVE  MarkedJobOwnsTheView' /\ VisibleAclUniform'
    <2>1. ~Reindex(j) /\ touched' = touched /\ CallReturned(j)
      BY <1>7 DEF TransitionSourceLifecycle
    <2>2. \A k \in Keys : rows'[k] = rows[k] \/ rows'[k].state # "active"
      BY <1>7, <1>a DEF TransitionSourceLifecycle, Row, NoRow, Job, DeletionTargets
    <2>3. QED
      BY <2>1, <2>2, <1>a, <1>b, CallReturnedFields DEF Running, Reindex
  <1>8. ASSUME NEW j \in Jobs, Complete(j) \/ Fail(j)
        PROVE  MarkedJobOwnsTheView' /\ VisibleAclUniform'
    <2>1. job'[j].status # "running" /\ \A i \in Jobs \ {j} : job'[i] = job[i]
      BY <1>8, <1>a DEF Complete, Fail, Job
    <2>2. QED
      BY <1>8, <2>1, <1>b DEF Complete, Fail, Running, Reindex
  <1>9. ASSUME NEW row \in Keys, NEW state \in LifecycleStates,
               TransitionLifecycle(row, state)
        PROVE  MarkedJobOwnsTheView' /\ VisibleAclUniform'
    <2>1. \A k \in Keys : Shown(k)' => Shown(k) /\ rows'[k] = rows[k]
      BY <1>9, <1>a DEF TransitionLifecycle
    <2>2. QED
      BY <1>9, <2>1, <1>b DEF TransitionLifecycle, Running, Reindex
  <1>10. CASE UNCHANGED vars
    BY <1>10, <1>b DEF vars, Running, Reindex
  <1>11. QED
    BY <1>1, <1>2, <1>3, <1>4, <1>5, <1>6, <1>7, <1>8, <1>9, <1>10, NextCases

LEMMA SerialInvariance ==
    ASSUME ~Overlapping
    PROVE  Spec => []SerialInv
  <1>1. SerialInv /\ [Next]_vars => SerialInv'
    BY TypeStep, OneAtATimeStep, SerialStep DEF SerialInv
  <1>2. QED
    BY <1>1, SerialInit, PTL DEF Spec

(* While the jobs of a source run one after the other, a search never sees two   *)
(* ACL versions of one source under one model version.                           *)
THEOREM OneVisibleAcl ==
    ASSUME ~Overlapping
    PROVE  Spec => []VisibleAclUniform
  BY SerialInvariance, PTL DEF SerialInv

-----------------------------------------------------------------------------
\* No row and no running reindex is newer than the source, and a running reindex whose
\* command was fresh is no older than any row.
AclOrder ==
    /\ \A k \in Keys : rows[k].acl <= aclNow
    /\ \A j \in Jobs : Running(j) /\ Reindex(j) =>
        /\ job[j].acl <= aclNow
        /\ job[j].command = "fresh" => \A k \in Keys : rows[k].acl <= job[j].acl

AclInv == TypeInv /\ OneAtATime /\ AclOrder

StaleRegress ==
    \A k \in Keys : rows'[k].acl < rows[k].acl =>
        \E j \in Jobs :
            /\ Running(j) /\ Reindex(j) /\ job[j].model = k[1]
            /\ job[j].command = "stale"

LEMMA AclInit == Init => AclInv
  <1> SUFFICES ASSUME Init PROVE AclInv
    OBVIOUS
  <1>1. /\ \A k \in Keys : rows[k].acl = 0
        /\ \A j \in Jobs : ~Running(j)
        /\ aclNow = 1
    BY DEF Init, Keys, NoRow, Running
  <1>2. QED
    BY <1>1, TypeInit DEF AclInv, OneAtATime, AclOrder

LEMMA AclStep ==
    ASSUME ~Overlapping, AclInv, [Next]_vars
    PROVE  StaleRegress /\ AclOrder'
  <1>a. /\ TypeInv /\ TypeOK /\ DOMAIN job = Jobs /\ DOMAIN rows = Keys
        /\ \A j \in Jobs : job[j] \in Job /\ job[j].acl \in Int
        /\ \A k \in Keys : rows[k] \in Row \cup {NoRow} /\ rows[k].acl \in Int
        /\ aclNow \in Int /\ aclNow >= 1
    BY ConstantsAssumption, JobFields DEF AclInv, TypeInv, TypeOK, Keys, Row, NoRow, AclVersions
  \* A step that rewrites no ACL version and starts no reindex.
  <1>b. ASSUME \A k \in Keys : rows'[k].acl = rows[k].acl, aclNow' = aclNow,
               \A j \in Jobs : Running(j)' /\ Reindex(j)' =>
                  /\ Running(j) /\ Reindex(j) /\ job'[j].acl = job[j].acl
                  /\ job'[j].command = job[j].command
        PROVE  StaleRegress /\ AclOrder'
    BY <1>a, <1>b DEF AclInv, AclOrder, StaleRegress
  <1>1. CASE ChangeAcl
    <2>1. /\ aclNow' = aclNow + 1 /\ rows' = rows /\ job' = job
      BY <1>1 DEF ChangeAcl
    <2>2. StaleRegress
      BY <2>1, <1>a DEF StaleRegress
    <2>3. \A k \in Keys : rows'[k].acl <= aclNow'
      BY <2>1, <1>a DEF AclInv, AclOrder
    <2>4. \A j \in Jobs : Running(j)' /\ Reindex(j)' =>
            /\ job'[j].acl <= aclNow'
            /\ job'[j].command = "fresh" => \A k \in Keys : rows'[k].acl <= job'[j].acl
      BY <2>1, <1>a DEF AclInv, AclOrder, Running, Reindex
    <2>5. QED
      BY <2>2, <2>3, <2>4 DEF AclOrder
  <1>2. ASSUME NEW j \in Jobs, NEW size \in Chunks, NEW expected \in Expectations,
               NEW resolved \in 1..aclNow, BeginReindex(j, size, expected, resolved)
        PROVE  StaleRegress /\ AclOrder'
    <2>1. /\ expected = aclNow => resolved = aclNow
          /\ resolved <= aclNow /\ rows' = rows /\ aclNow' = aclNow
      BY <1>2, <1>a DEF BeginReindex, AclAccepted, Unnamed
    <2>2. \A i \in Jobs : ~Running(i)
      BY <1>2 DEF BeginReindex, MayBegin
    <2>3. /\ job'[j].acl = resolved /\ job'[j].command = Standing(expected)
          /\ \A i \in Jobs \ {j} : job'[i] = job[i]
      BY <1>2, <1>a, <2>1 DEF BeginReindex, Job
    <2>4. \A i \in Jobs : Running(i)' => i = j
      BY <2>2, <2>3 DEF Running
    <2>5. job'[j].command = "fresh" => resolved = aclNow
      BY <2>1, <2>3 DEF Standing
    <2>6. \A k \in Keys : rows[k].acl <= aclNow
      BY DEF AclInv, AclOrder
    <2>7. StaleRegress
      BY <2>1, <1>a DEF StaleRegress
    <2>8. AclOrder'
      BY <2>1, <2>3, <2>4, <2>5, <2>6, <1>a DEF AclOrder
    <2>9. QED
      BY <2>7, <2>8
  <1>3. ASSUME NEW j \in Jobs, NEW target \in DeletionTargets, BeginDeletion(j, target)
        PROVE  StaleRegress /\ AclOrder'
    <2>1. job'[j].kind = "deletion" /\ \A i \in Jobs \ {j} : job'[i] = job[i]
      BY <1>3, <1>a DEF BeginDeletion, Job
    <2>2. QED
      BY <1>3, <2>1, <1>b DEF BeginDeletion, Running, Reindex
  <1>4. ASSUME NEW j \in Jobs, MarkSourceForReindex(j)
        PROVE  StaleRegress /\ AclOrder'
    <2>1. \A k \in Keys : rows'[k].acl = rows[k].acl
      BY <1>4, <1>a DEF MarkSourceForReindex, Row, NoRow
    <2>2. CallReturned(j) /\ aclNow' = aclNow
      BY <1>4 DEF MarkSourceForReindex
    <2>3. QED
      BY <2>1, <2>2, <1>a, <1>b, CallReturnedFields DEF Running, Reindex
  <1>5. ASSUME NEW j \in Jobs, UpsertEmbedding(j)
        PROVE  StaleRegress /\ AclOrder'
    <2>1. /\ Running(j) /\ Reindex(j) /\ CallReturned(j) /\ aclNow' = aclNow
          /\ \A k \in Keys : \/ rows'[k] = rows[k]
                             \/ rows'[k].acl = job[j].acl /\ k[1] = job[j].model
      BY <1>5, <1>a DEF UpsertEmbedding, IndexedRow
    <2>2. /\ job[j].acl <= aclNow
          /\ job[j].command = "fresh" => \A k \in Keys : rows[k].acl <= job[j].acl
      BY <2>1 DEF AclInv, AclOrder
    <2>c. job[j].command \in {"fresh", "stale"}
      BY <1>a DEF Job
    <2>3. StaleRegress
      <3> SUFFICES ASSUME NEW k \in Keys, rows'[k].acl < rows[k].acl
                   PROVE  job[j].model = k[1] /\ job[j].command = "stale"
        BY <2>1 DEF StaleRegress
      <3>1. rows'[k].acl = job[j].acl /\ k[1] = job[j].model
        BY <2>1, <1>a
      <3>2. job[j].command # "fresh"
        BY <2>2, <3>1, <1>a
      <3>3. QED
        BY <3>1, <3>2, <2>c
    <2>4. /\ \A k \in Keys : rows'[k].acl <= aclNow
          /\ job[j].command = "fresh" => \A k \in Keys : rows'[k].acl <= job[j].acl
      BY <2>1, <2>2, <1>a DEF AclInv, AclOrder
    <2>5. /\ \A i \in Jobs : Running(i)' => i = j
          /\ job'[j].acl = job[j].acl /\ job'[j].command = job[j].command
      BY <2>1, <1>a, CallReturnedFields DEF AclInv, OneAtATime, Running
    <2>6. QED
      BY <2>1, <2>2, <2>3, <2>4, <2>5 DEF AclOrder
  <1>6. ASSUME NEW j \in Jobs, DeleteReindexOrphans(j)
        PROVE  StaleRegress /\ AclOrder'
    <2>1. \A k \in Keys : rows'[k].acl = rows[k].acl
      BY <1>6, <1>a DEF DeleteReindexOrphans, Row, NoRow
    <2>2. CallReturned(j) /\ aclNow' = aclNow
      BY <1>6 DEF DeleteReindexOrphans
    <2>3. QED
      BY <2>1, <2>2, <1>a, <1>b, CallReturnedFields DEF Running, Reindex
  <1>7. ASSUME NEW j \in Jobs, TransitionSourceLifecycle(j)
        PROVE  StaleRegress /\ AclOrder'
    <2>1. \A k \in Keys : rows'[k].acl = rows[k].acl
      BY <1>7, <1>a DEF TransitionSourceLifecycle, Row, NoRow
    <2>2. CallReturned(j) /\ aclNow' = aclNow
      BY <1>7 DEF TransitionSourceLifecycle
    <2>3. QED
      BY <2>1, <2>2, <1>a, <1>b, CallReturnedFields DEF Running, Reindex
  <1>8. ASSUME NEW j \in Jobs, Complete(j) \/ Fail(j)
        PROVE  StaleRegress /\ AclOrder'
    <2>1. job'[j].status # "running" /\ \A i \in Jobs \ {j} : job'[i] = job[i]
      BY <1>8, <1>a DEF Complete, Fail, Job
    <2>2. QED
      BY <1>8, <2>1, <1>b DEF Complete, Fail, Running, Reindex
  <1>9. ASSUME NEW row \in Keys, NEW state \in LifecycleStates,
               TransitionLifecycle(row, state)
        PROVE  StaleRegress /\ AclOrder'
    <2>1. \A k \in Keys : rows'[k].acl = rows[k].acl
      BY <1>9, <1>a DEF TransitionLifecycle, Row, NoRow
    <2>2. QED
      BY <1>9, <2>1, <1>b DEF TransitionLifecycle, Running, Reindex
  <1>10. CASE UNCHANGED vars
    BY <1>10, <1>b DEF vars, Running, Reindex
  <1>11. QED
    BY <1>1, <1>2, <1>3, <1>4, <1>5, <1>6, <1>7, <1>8, <1>9, <1>10, NextCases

(* While the jobs of a source run one after the other, only a job whose command  *)
(* was stale when it began, or named no version, gives a row an older ACL version. *)
THEOREM RegressionsAreStale ==
    ASSUME ~Overlapping
    PROVE  Spec => OnlyStaleCommandsRegress
  <1>1. AclInv /\ [Next]_vars => AclInv'
    BY TypeStep, OneAtATimeStep, AclStep DEF AclInv
  <1>2. AclInv /\ [Next]_vars =>
          [\A k \in Models \X Chunks : rows'[k].acl < rows[k].acl =>
             \E j \in Jobs :
                /\ Running(j) /\ Reindex(j) /\ job[j].model = k[1]
                /\ job[j].command = "stale"]_vars
    BY AclStep DEF StaleRegress, Keys
  <1>3. QED
    BY <1>1, <1>2, AclInit, PTL DEF Spec, OnlyStaleCommandsRegress
=============================================================================
