------------------------- MODULE SourceCatalogProofs -------------------------
(***************************************************************************)
(* Proofs about SourceCatalog for every set of calls and versions and all  *)
(* policy files that their validators accept.                              *)
(*                                                                         *)
(* What can be said of a stored version is what was checked while its call *)
(* was under way: a call that is past a step knows what the step has       *)
(* established, and between two restarts no other call takes it back.  The *)
(* start of a transaction is a number of its own, which tells the version  *)
(* of a call that failed from all that are stored, and orders the versions *)
(* of an object, so that the latest one is determined.                     *)
(***************************************************************************)
EXTENDS SourceCatalog, WellFoundedInduction, TLAPS

IsUnderway(q) == q.pc \in Steps

\* What a call knows of the metadata it is about to store.
IsChecked(q) ==
    /\ WellFormed(q.meta) /\ GuardAccepts(q.meta)
    /\ Pg => Retainable(q.meta) /\ q.pc \in {"put", "begin", "commit", "manifest"}
    /\ ~Pg => q.pc \in {"check", "store", "manifest"}
    /\ q.pc \in {"put", "begin"} => q.at = 0
    /\ q.pc \in {"begin", "commit"} => Storable(q.meta) /\ ContentOf(q.to, q.meta) \in objects
    /\ Pg /\ q.pc = "manifest" => Present(q.to) /\ rows[q.to].meta = q.meta

CallsAreChecked == \A r \in Requests : IsUnderway(call[r]) => IsChecked(call[r])

\* What is known of a stored version.
WasChecked(v) ==
    LET m == rows[v].meta IN
    /\ GuardAccepts(m) /\ Retainable(m) /\ Storable(m)
    /\ rows[v].at > restartedAt => ContentOf(v, m) \in objects

RowsWereChecked == Pg => \A v \in Versions : Present(v) => WasChecked(v)

\* Transactions that have not stored a version.
IsUncommitted(q) == q.pc = "commit" \/ (q.pc = "failed" /\ q.at # 0)

TransactionsAreDistinct ==
    Pg => \A r \in Requests : IsUncommitted(call[r]) =>
             /\ call[r].at > restartedAt /\ call[r].at <= clock
             /\ \A v \in Versions : rows[v].at # call[r].at
             /\ \A q \in Requests \ {r} : IsUncommitted(call[q]) => call[q].at # call[r].at

ClockCounts == restartedAt <= clock /\ \A v \in Versions : rows[v].at <= clock

ContentNeedsPg == ~Pg => objects = {}

\* Where the metadata of a call comes from.
IsDrafted(q) == q.op = "add" /\ q.meta \in Drafts
IsPlaced(q) ==
    /\ q.op = "place"
    /\ \E v \in Versions, form \in Forms :
          /\ Present(v) /\ ~rows[v].meta.hold /\ MayFollow(v, q.to)
          /\ q.meta = Held(rows[v].meta, form)
IsFreed(q) ==
    /\ q.op = "release"
    /\ \E v \in Versions, p \in PolicyIds, form \in Forms :
          /\ Present(v) /\ rows[v].meta.hold /\ MayFollow(v, q.to)
          /\ q.meta = Released(rows[v].meta, p, form)
HasAnOrigin(q) == IsDrafted(q) \/ IsPlaced(q) \/ IsFreed(q)

CallsHaveAnOrigin ==
    Pg => \A r \in Requests : IsUnderway(call[r]) => HasAnOrigin(call[r])

\* What content is there for.
IsKept(c) == \E v \in Versions : Present(v) /\ ContentOf(v, rows[v].meta) = c
IsLeftBy(q, c) == q.pc \in Steps \cup {"failed"} /\ ContentOf(q.to, q.meta) = c

IInv ==
    /\ TypeOK
    /\ ClockCounts
    /\ CallsAreChecked
    /\ RowsWereChecked
    /\ TransactionsAreDistinct
    /\ ContentNeedsPg
    /\ OnlyFailuresLeaveContent
    /\ CallsHaveAnOrigin

-----------------------------------------------------------------------------
\* What a legal hold command writes is metadata again.
LEMMA ChangedIsMetadata ==
    ASSUME NEW m \in Metadata, NEW b \in BOOLEAN, NEW p \in PolicyIds
    PROVE  /\ [m EXCEPT !.hold = b] \in Metadata
           /\ [m EXCEPT !.canonical = b] \in Metadata
           /\ [m EXCEPT !.intact = b] \in Metadata
           /\ [m EXCEPT !.policy = p] \in Metadata
<1>1. [m EXCEPT !.hold = b] \in Metadata
  BY DEF Metadata
<1>2. [m EXCEPT !.canonical = b] \in Metadata
  BY DEF Metadata
<1>3. [m EXCEPT !.intact = b] \in Metadata
  BY DEF Metadata
<1>4. [m EXCEPT !.policy = p] \in Metadata
  BY DEF Metadata
<1>5. QED
  BY <1>1, <1>2, <1>3, <1>4

LEMMA HeldIsMetadata ==
    ASSUME NEW m \in Metadata, NEW form \in BOOLEAN
    PROVE  Held(m, form) \in Metadata
<1> DEFINE b  == m.canonical /\ form
           m1 == [m EXCEPT !.hold = TRUE]
           m2 == [m1 EXCEPT !.canonical = b]
           m3 == [m2 EXCEPT !.intact = TRUE]
<1>1. Held(m, form) = m3
  BY Zenon DEF Held
<1>2. b \in BOOLEAN /\ TRUE \in BOOLEAN
  OBVIOUS
<1>3. PICK p \in PolicyIds : TRUE
  BY DEF Metadata
<1> HIDE DEF b
<1>4. m1 \in Metadata
  BY <1>2, <1>3, ChangedIsMetadata, Zenon
<1> HIDE DEF m1
<1>5. m2 \in Metadata
  BY <1>2, <1>3, <1>4, ChangedIsMetadata, Zenon
<1> HIDE DEF m2
<1>6. m3 \in Metadata
  BY <1>2, <1>3, <1>5, ChangedIsMetadata, Zenon
<1>7. QED
  BY <1>1, <1>6, Zenon

LEMMA ReleasedIsMetadata ==
    ASSUME NEW m \in Metadata, NEW form \in BOOLEAN, NEW p \in PolicyIds
    PROVE  Released(m, p, form) \in Metadata
<1> DEFINE b  == m.canonical /\ form
           m1 == [m EXCEPT !.hold = FALSE]
           m2 == [m1 EXCEPT !.policy = p]
           m3 == [m2 EXCEPT !.canonical = b]
           m4 == [m3 EXCEPT !.intact = TRUE]
<1>1. Released(m, p, form) = m4
  BY Zenon DEF Released
<1>2. b \in BOOLEAN /\ TRUE \in BOOLEAN /\ FALSE \in BOOLEAN
  OBVIOUS
<1> HIDE DEF b
<1>3. m1 \in Metadata
  BY <1>2, ChangedIsMetadata, Zenon
<1> HIDE DEF m1
<1>4. m2 \in Metadata
  BY <1>2, <1>3, ChangedIsMetadata, Zenon
<1> HIDE DEF m2
<1>5. m3 \in Metadata
  BY <1>2, <1>4, ChangedIsMetadata, Zenon
<1> HIDE DEF m3
<1>6. m4 \in Metadata
  BY <1>2, <1>5, ChangedIsMetadata, Zenon
<1>7. QED
  BY <1>1, <1>6, Zenon

-----------------------------------------------------------------------------
AllCalls == Calls \cup Failures \cup Nowhere

LEMMA CallsUnderwayAreCalls ==
    ASSUME TypeOK, NEW r \in Requests, IsUnderway(call[r])
    PROVE  call[r] \in Calls
BY DEF TypeOK, IsUnderway, Steps, Failures, Nowhere

LEMMA RowsAreTyped ==
    ASSUME TypeOK, NEW v \in Versions
    PROVE  /\ rows[v].at \in Nat
           /\ Present(v) => rows[v].meta \in Metadata
           /\ ~Present(v) => rows[v] = NoRow
BY VersionsAssumption DEF TypeOK, NoRow, Present

LEMMA ChangedCallsAreCalls ==
    ASSUME NEW q \in Calls
    PROVE  /\ \A pc \in Steps : [q EXCEPT !.pc = pc] \in Calls
           /\ \A n \in Nat : [q EXCEPT !.at = n] \in Calls
BY DEF Calls

\* What a record is retained and stored under keeps it under an object lock.
LEMMA RetainedRecordsAreLocked ==
    ASSUME NEW m \in Metadata, Retainable(m), Storable(m), RequiresWorm(m)
    PROVE  /\ Bucket[RetentionManifest(m).bucket].lock # "none"
           /\ m.hold => ObjectLockHold(m)
<1> DEFINE p == Policy[m.policy]
           b == Bucket[p.bucket]
<1>1. p \in RetentionPolicies /\ ConsistentPolicy(p) /\ p.worm
  BY PoliciesAssumption DEF Retainable
<1>2. p.lock # "none"
  BY <1>1 DEF ConsistentPolicy
<1>3. RetentionManifest(m).bucket = p.bucket /\ RetentionManifest(m).lock = p.lock
  BY DEF RetentionManifest
<1>4. b.lock = p.lock
  BY <1>3 DEF Storable, BucketFits
<1>5. p.bucket \in Buckets
  BY <1>1 DEF RetentionPolicies
<1>6. ConsistentBucket(b)
  BY <1>5, PoliciesAssumption
<1>7. b.holdSupported
  BY <1>2, <1>4, <1>6 DEF ConsistentBucket
<1>8. QED
  BY <1>2, <1>3, <1>4, <1>7 DEF ObjectLockHold

-----------------------------------------------------------------------------
LEMMA InitIsGood == Init => IInv
<1> SUFFICES ASSUME Init PROVE IInv
  OBVIOUS
<1>1. \A r \in Requests : call[r] = [pc |-> "new"]
  BY DEF Init
<1>2. \A v \in Versions : rows[v] = NoRow /\ ~Present(v)
  BY DEF Init, NoRow, Present
<1>3. TypeOK
  BY DEF Init, TypeOK, Nowhere
<1>4. \A r \in Requests : ~IsUnderway(call[r]) /\ ~IsUncommitted(call[r])
  BY <1>1 DEF IsUnderway, IsUncommitted, Steps
<1>5. CallsAreChecked /\ TransactionsAreDistinct /\ CallsHaveAnOrigin
  BY <1>4 DEF CallsAreChecked, TransactionsAreDistinct, CallsHaveAnOrigin
<1>6. RowsWereChecked /\ ClockCounts
  BY <1>2 DEF Init, RowsWereChecked, ClockCounts, NoRow
<1>7. ContentNeedsPg /\ OnlyFailuresLeaveContent
  BY DEF Init, ContentNeedsPg, OnlyFailuresLeaveContent
<1>8. QED
  BY <1>3, <1>5, <1>6, <1>7 DEF IInv

-----------------------------------------------------------------------------
\* A step that changes one call only.
LEMMA CallSteps ==
    ASSUME IInv, NEW r \in Requests, NEW q \in AllCalls,
           call' = [call EXCEPT ![r] = q],
           UNCHANGED <<backend, rows, objects, receipts, clock, restarts, restartedAt>>,
           IsUnderway(q) => IsChecked(q),
           Pg /\ IsUnderway(q) => HasAnOrigin(q),
           Pg /\ IsUncommitted(q) => IsUncommitted(call[r]) /\ q.at = call[r].at,
           \A c \in objects : IsLeftBy(call[r], c) => IsLeftBy(q, c) \/ IsKept(c)
    PROVE  IInv'
<1>1. call \in [Requests -> AllCalls]
  BY DEF IInv, TypeOK, AllCalls
<1>2. /\ call'[r] = q /\ \A s \in Requests \ {r} : call'[s] = call[s]
      /\ call' \in [Requests -> AllCalls]
  BY <1>1
<1>3. /\ backend' = backend /\ rows' = rows /\ objects' = objects /\ receipts' = receipts
      /\ clock' = clock /\ restarts' = restarts /\ restartedAt' = restartedAt
  OBVIOUS
<1>4. TypeOK' /\ ClockCounts'
  BY <1>2, <1>3 DEF IInv, TypeOK, ClockCounts, AllCalls
<1>5. CallsAreChecked'
  BY <1>2, <1>3 DEF IInv, CallsAreChecked, IsUnderway, IsChecked, Pg, Present
<1>6. RowsWereChecked'
  BY <1>3 DEF IInv, RowsWereChecked, WasChecked, Pg, Present
<1>7. TransactionsAreDistinct'
  BY <1>2, <1>3 DEF IInv, TransactionsAreDistinct, Pg
<1>8. ContentNeedsPg'
  BY <1>3 DEF IInv, ContentNeedsPg, Pg
<1>9. OnlyFailuresLeaveContent'
  <2> SUFFICES ASSUME NEW c \in objects
               PROVE  IsKept(c) \/ \E s \in Requests : IsLeftBy(call'[s], c)
    BY <1>3 DEF OnlyFailuresLeaveContent, IsKept, IsLeftBy, Present
  <2>1. CASE IsKept(c)
    BY <2>1
  <2>2. CASE \E s \in Requests : IsLeftBy(call[s], c)
    BY <1>2, <2>2
  <2>3. QED
    BY <2>1, <2>2 DEF IInv, OnlyFailuresLeaveContent, IsKept, IsLeftBy
<1>10. CallsHaveAnOrigin'
  BY <1>2, <1>3
  DEF IInv, CallsHaveAnOrigin, HasAnOrigin, IsDrafted, IsPlaced, IsFreed, Pg, Present
<1>11. QED
  BY <1>4, <1>5, <1>6, <1>7, <1>8, <1>9, <1>10 DEF IInv

\* A step that changes nothing but the receipts.
LEMMA ReceiptSteps ==
    ASSUME IInv, receipts' \subseteq WriteReceipts,
           UNCHANGED <<backend, rows, objects, call, clock, restarts, restartedAt>>
    PROVE  IInv'
<1>1. TypeOK' /\ ClockCounts'
  BY DEF IInv, TypeOK, ClockCounts
<1>2. CallsAreChecked'
  BY DEF IInv, CallsAreChecked, IsUnderway, IsChecked, Pg, Present
<1>3. RowsWereChecked' /\ TransactionsAreDistinct' /\ ContentNeedsPg'
  BY DEF IInv, RowsWereChecked, WasChecked, TransactionsAreDistinct, ContentNeedsPg, Pg, Present
<1>4. OnlyFailuresLeaveContent'
  BY DEF IInv, OnlyFailuresLeaveContent, Present
<1>5. CallsHaveAnOrigin'
  BY DEF IInv, CallsHaveAnOrigin, HasAnOrigin, IsDrafted, IsPlaced, IsFreed, Pg, Present
<1>6. QED
  BY <1>1, <1>2, <1>3, <1>4, <1>5 DEF IInv

-----------------------------------------------------------------------------
IsOrigin(op, to, m) ==
    \A q \in Calls : q.op = op /\ q.to = to /\ q.meta = m => HasAnOrigin(q)

LEMMA BeginsPreserves ==
    ASSUME IInv, NEW r \in Requests, NEW op \in {"add", "place", "release"},
           NEW to \in Versions, NEW m \in Metadata, NEW proof \in BOOLEAN,
           Begins(r, op, to, m, proof),
           IsOrigin(op, to, m)
    PROVE  IInv'
<1> DEFINE pc == IF Pg THEN "put" ELSE "check"
           q == [pc |-> pc, op |-> op, to |-> to, meta |-> m, at |-> 0, proof |-> proof]
<1>1. pc \in Steps /\ (Pg => pc = "put") /\ (~Pg => pc = "check")
  BY DEF Steps
<1>2. /\ call[r].pc = "new" /\ call' = [call EXCEPT ![r] = q]
      /\ UNCHANGED <<backend, rows, objects, receipts, clock, restarts, restartedAt>>
      /\ WellFormed(m) /\ GuardAccepts(m) /\ (Pg => Retainable(m))
  BY DEF Begins
<1> HIDE DEF pc
<1>3. q \in Calls
  BY <1>1 DEF Calls
<1>4. q.pc = pc /\ q.op = op /\ q.to = to /\ q.meta = m /\ q.at = 0
  OBVIOUS
<1> HIDE DEF q
<1>5. IsChecked(q) /\ HasAnOrigin(q)
  BY <1>1, <1>2, <1>3, <1>4 DEF IsChecked, IsOrigin
<1>6. ~IsUncommitted(q) /\ \A c \in objects : ~IsLeftBy(call[r], c)
  BY <1>1, <1>2, <1>4 DEF IsUncommitted, IsLeftBy, Steps
<1>7. QED
  BY <1>2, <1>3, <1>5, <1>6, CallSteps DEF AllCalls

LEMMA AddPreserves ==
    ASSUME IInv, NEW r \in Requests, NEW v \in Versions, NEW m \in Drafts,
           NEW proof \in BOOLEAN, Add(r, v, m, proof)
    PROVE  IInv'
<1>1. m \in Metadata
  BY VersionsAssumption
<1>2. IsOrigin("add", v, m)
  BY DEF IsOrigin, HasAnOrigin, IsDrafted
<1>3. QED
  BY <1>1, <1>2, BeginsPreserves DEF Add

LEMMA PlaceHoldPreserves ==
    ASSUME IInv, NEW r \in Requests, NEW v \in Versions, NEW w \in Versions,
           NEW form \in Forms, PlaceHoldOn(r, v, w, form)
    PROVE  IInv'
<1> DEFINE m == Held(rows[v].meta, form)
<1>1. Present(v) /\ ~rows[v].meta.hold /\ MayFollow(v, w) /\ Begins(r, "place", w, m, FALSE)
  BY DEF PlaceHoldOn, Readable
<1>2. m \in Metadata
  BY <1>1, RowsAreTyped, HeldIsMetadata, VersionsAssumption DEF IInv
<1>3. IsOrigin("place", w, m)
  BY <1>1 DEF IsOrigin, HasAnOrigin, IsPlaced
<1>4. FALSE \in BOOLEAN /\ "place" \in {"add", "place", "release"}
  OBVIOUS
<1> HIDE DEF m
<1>5. QED
  BY <1>1, <1>2, <1>3, <1>4, BeginsPreserves, Zenon

LEMMA ReleaseHoldPreserves ==
    ASSUME IInv, NEW r \in Requests, NEW v \in Versions, NEW w \in Versions,
           NEW p \in PolicyIds, NEW form \in Forms, ReleaseHoldOf(r, v, w, p, form)
    PROVE  IInv'
<1> DEFINE m == Released(rows[v].meta, p, form)
<1>1. Present(v) /\ rows[v].meta.hold /\ MayFollow(v, w) /\ Begins(r, "release", w, m, FALSE)
  BY DEF ReleaseHoldOf, Readable
<1>2. m \in Metadata
  BY <1>1, RowsAreTyped, ReleasedIsMetadata, VersionsAssumption DEF IInv
<1>3. IsOrigin("release", w, m)
  BY <1>1 DEF IsOrigin, HasAnOrigin, IsFreed
<1>4. FALSE \in BOOLEAN /\ "release" \in {"add", "place", "release"}
  OBVIOUS
<1> HIDE DEF m
<1>5. QED
  BY <1>1, <1>2, <1>3, <1>4, BeginsPreserves, Zenon

\* A call that fails or goes on says of itself what it said before.
LEMMA FailedCalls ==
    ASSUME TypeOK, NEW r \in Requests, IsUnderway(call[r]), Fail(r)
    PROVE  \E q \in Failures :
              /\ call' = [call EXCEPT ![r] = q]
              /\ q.pc = "failed" /\ q.to = call[r].to /\ q.meta = call[r].meta
              /\ q.at = call[r].at
<1> DEFINE q == [pc |-> "failed", to |-> call[r].to, meta |-> call[r].meta, at |-> call[r].at]
<1>1. call' = [call EXCEPT ![r] = q]
  BY DEF Fail
<1>2. call[r] \in Calls
  BY CallsUnderwayAreCalls
<1>3. q \in Failures
  BY <1>2 DEF Calls, Failures
<1>4. QED
  BY <1>1, <1>3

LEMMA CallsThatGoOn ==
    ASSUME TypeOK, NEW r \in Requests, IsUnderway(call[r]), NEW pc \in Steps, GoTo(r, pc)
    PROVE  \E q \in Calls :
              /\ call' = [call EXCEPT ![r] = q] /\ q.pc = pc
              /\ q.op = call[r].op /\ q.to = call[r].to /\ q.meta = call[r].meta
              /\ q.at = call[r].at /\ q.proof = call[r].proof
<1> DEFINE q == [call[r] EXCEPT !.pc = pc]
<1>1. call' = [call EXCEPT ![r] = q]
  BY DEF GoTo
<1>2. call[r] \in Calls
  BY CallsUnderwayAreCalls
<1>3. q \in Calls
  BY <1>2, ChangedCallsAreCalls
<1>4. q.pc = pc /\ q.op = call[r].op /\ q.to = call[r].to /\ q.meta = call[r].meta
      /\ q.at = call[r].at /\ q.proof = call[r].proof
  BY <1>2 DEF Calls
<1> HIDE DEF q
<1>5. QED
  BY <1>1, <1>3, <1>4

LEMMA InsertFailsPreserves ==
    ASSUME IInv, NEW r \in Requests, InsertFails(r)
    PROVE  IInv'
<1>1. IsUnderway(call[r]) /\ call[r].pc = "commit" /\ Fail(r)
      /\ UNCHANGED <<backend, rows, objects, receipts, clock, restarts, restartedAt>>
  BY DEF InsertFails, At, IsUnderway, Steps
<1>2. PICK q \in Failures :
              /\ call' = [call EXCEPT ![r] = q]
              /\ q.pc = "failed" /\ q.to = call[r].to /\ q.meta = call[r].meta
              /\ q.at = call[r].at
  BY <1>1, FailedCalls DEF IInv
<1>3. ~IsUnderway(q) /\ IsUncommitted(call[r])
  BY <1>1, <1>2 DEF IsUnderway, IsUncommitted, Steps
<1>4. \A c \in objects : IsLeftBy(call[r], c) => IsLeftBy(q, c)
  BY <1>2 DEF IsLeftBy
<1>5. QED
  BY <1>1, <1>2, <1>3, <1>4, CallSteps DEF AllCalls

\* In memory there is no content that could be left.
LEMMA CheckPreserves ==
    ASSUME IInv, NEW r \in Requests, Check(r)
    PROVE  IInv'
<1>1. IsUnderway(call[r]) /\ call[r].pc = "check"
      /\ UNCHANGED <<backend, rows, objects, receipts, clock, restarts, restartedAt>>
  BY DEF Check, At, IsUnderway, Steps
<1>2. ~Pg /\ objects = {} /\ IsChecked(call[r])
  BY <1>1 DEF IInv, CallsAreChecked, IsChecked, ContentNeedsPg
<1>3. CASE Fail(r)
  <2>1. PICK q \in Failures : call' = [call EXCEPT ![r] = q] /\ q.pc = "failed"
    BY <1>1, <1>3, FailedCalls DEF IInv
  <2>2. ~IsUnderway(q)
    BY <2>1 DEF IsUnderway, Steps
  <2>3. QED
    BY <1>1, <1>2, <2>1, <2>2, CallSteps DEF AllCalls
<1>4. CASE GoTo(r, "store")
  <2>1. PICK q \in Calls :
              /\ call' = [call EXCEPT ![r] = q] /\ q.pc = "store"
              /\ q.op = call[r].op /\ q.to = call[r].to /\ q.meta = call[r].meta
              /\ q.at = call[r].at /\ q.proof = call[r].proof
    BY <1>1, <1>4, CallsThatGoOn DEF IInv, Steps
  <2>2. IsChecked(q)
    BY <1>2, <2>1 DEF IsChecked
  <2>3. QED
    BY <1>1, <1>2, <2>1, <2>2, CallSteps DEF AllCalls
<1>5. QED
  BY <1>3, <1>4 DEF Check

LEMMA ManifestPreserves ==
    ASSUME IInv, NEW r \in Requests, Manifest(r)
    PROVE  IInv'
<1>1. IsUnderway(call[r]) /\ call[r].pc = "manifest"
      /\ UNCHANGED <<backend, rows, objects, receipts, clock, restarts, restartedAt>>
  BY DEF Manifest, At, IsUnderway, Steps
<1>2. IsChecked(call[r]) /\ call[r] \in Calls
  BY <1>1, CallsUnderwayAreCalls DEF IInv, CallsAreChecked
<1>3. \A c \in objects : IsLeftBy(call[r], c) => IsKept(c)
  BY <1>1, <1>2 DEF IInv, ContentNeedsPg, IsChecked, IsLeftBy, IsKept, Calls
<1>4. CASE Retainable(call[r].meta)
  <2> DEFINE q == [pc |-> "ok"]
  <2>1. call' = [call EXCEPT ![r] = q] /\ q \in AllCalls
    BY <1>4 DEF Manifest, Succeed, AllCalls, Nowhere
  <2>2. ~IsUnderway(q) /\ ~IsUncommitted(q)
    BY DEF IsUnderway, IsUncommitted, Steps
  <2> HIDE DEF q
  <2>3. QED
    BY <1>1, <1>3, <2>1, <2>2, CallSteps
<1>5. CASE ~Retainable(call[r].meta)
  <2>1. ~Pg /\ Fail(r)
    BY <1>2, <1>5 DEF IsChecked, Manifest
  <2>2. PICK q \in Failures : call' = [call EXCEPT ![r] = q] /\ q.pc = "failed"
    BY <1>1, <2>1, FailedCalls DEF IInv
  <2>3. ~IsUnderway(q)
    BY <2>2 DEF IsUnderway, Steps
  <2>4. QED
    BY <1>1, <1>3, <2>1, <2>2, <2>3, CallSteps DEF AllCalls
<1>6. QED
  BY <1>4, <1>5

-----------------------------------------------------------------------------
LEMMA ContentIsTyped ==
    ASSUME NEW m \in Metadata, NEW v \in Versions, Retainable(m)
    PROVE  ContentOf(v, m) \in Buckets \X Versions \X Contents
<1>1. Policy[m.policy] \in RetentionPolicies
  BY PoliciesAssumption DEF Retainable
<1>2. RetentionManifest(m).bucket = Policy[m.policy].bucket
  BY DEF RetentionManifest
<1>3. RetentionManifest(m).bucket \in Buckets
  BY <1>1, <1>2 DEF RetentionPolicies
<1>4. m.content \in Contents
  BY DEF Metadata
<1>5. QED
  BY <1>3, <1>4 DEF ContentOf

\* The content is there before a call goes on, and is its own when the call fails.
LEMMA PutPreserves ==
    ASSUME IInv, NEW r \in Requests, Put(r)
    PROVE  IInv'
<1> DEFINE content == ContentOf(call[r].to, call[r].meta)
<1>1. /\ IsUnderway(call[r]) /\ call[r].pc = "put" /\ objects' = objects \cup {content}
      /\ backend' = backend /\ rows' = rows /\ receipts' = receipts
      /\ clock' = clock /\ restarts' = restarts /\ restartedAt' = restartedAt
  BY DEF Put, At, IsUnderway, Steps
<1>2. call[r] \in Calls /\ IsChecked(call[r]) /\ HasAnOrigin(call[r]) /\ Pg
  BY <1>1, CallsUnderwayAreCalls DEF IInv, CallsAreChecked, CallsHaveAnOrigin, IsChecked
<1>3. content \in Buckets \X Versions \X Contents
  BY <1>2, ContentIsTyped DEF Calls, IsChecked
<1>4. PICK q \in AllCalls :
              /\ call' = [call EXCEPT ![r] = q]
              /\ q.to = call[r].to /\ q.meta = call[r].meta /\ q.at = 0
              /\ \/ q.pc = "failed"
                 \/ q.pc = "begin" /\ Storable(q.meta) /\ q.op = call[r].op
  <2>1. call[r].at = 0
    BY <1>1, <1>2 DEF IsChecked
  <2>2. CASE Storable(call[r].meta)
    <3>1. PICK q \in Calls :
              /\ call' = [call EXCEPT ![r] = q] /\ q.pc = "begin"
              /\ q.op = call[r].op /\ q.to = call[r].to /\ q.meta = call[r].meta
              /\ q.at = call[r].at /\ q.proof = call[r].proof
      BY <1>1, <2>2, CallsThatGoOn DEF IInv, Put, Steps
    <3>2. QED
      BY <2>1, <2>2, <3>1 DEF AllCalls
  <2>3. CASE ~Storable(call[r].meta)
    <3>1. PICK q \in Failures :
              /\ call' = [call EXCEPT ![r] = q]
              /\ q.pc = "failed" /\ q.to = call[r].to /\ q.meta = call[r].meta
              /\ q.at = call[r].at
      BY <1>1, <2>3, FailedCalls DEF IInv, Put
    <3>2. QED
      BY <2>1, <3>1 DEF AllCalls
  <2>4. QED
    BY <2>2, <2>3
<1>5. call \in [Requests -> AllCalls]
  BY DEF IInv, TypeOK, AllCalls
<1>6. /\ call'[r] = q /\ \A s \in Requests \ {r} : call'[s] = call[s]
      /\ call' \in [Requests -> AllCalls]
  BY <1>4, <1>5
<1>7. Pg' /\ content \in objects' /\ \A c \in objects : c \in objects'
  BY <1>1, <1>2 DEF Pg
<1>8. TypeOK' /\ ClockCounts'
  BY <1>1, <1>3, <1>6 DEF IInv, TypeOK, ClockCounts, AllCalls
<1>9. CallsAreChecked'
  <2>1. IsUnderway(q) => IsChecked(q)'
    BY <1>1, <1>2, <1>4, <1>7 DEF IsUnderway, IsChecked, Steps, Present
  <2>2. ASSUME NEW s \in Requests \ {r}, IsUnderway(call[s]) PROVE IsChecked(call[s])'
    <3>1. IsChecked(call[s])
      BY <2>2 DEF IInv, CallsAreChecked
    <3>2. QED
      BY <3>1, <1>1, <1>2, <1>6, <1>7 DEF IsChecked, Present
  <2>3. QED
    BY <1>6, <2>1, <2>2 DEF CallsAreChecked, IsUnderway, IsChecked
<1>10. RowsWereChecked'
  BY <1>1, <1>2, <1>7 DEF IInv, RowsWereChecked, WasChecked, Present
<1>11. TransactionsAreDistinct'
  BY <1>1, <1>2, <1>4, <1>6 DEF IInv, TransactionsAreDistinct, IsUncommitted
<1>12. ContentNeedsPg'
  BY <1>7 DEF ContentNeedsPg
<1>13. OnlyFailuresLeaveContent'
  <2> SUFFICES ASSUME NEW c \in objects'
               PROVE  IsKept(c) \/ \E s \in Requests : IsLeftBy(call'[s], c)
    BY <1>1 DEF OnlyFailuresLeaveContent, IsKept, IsLeftBy, Present
  <2>1. IsLeftBy(q, content) /\ \A d : IsLeftBy(call[r], d) => IsLeftBy(q, d)
    BY <1>4 DEF IsLeftBy, Steps
  <2>2. CASE c = content
    BY <1>6, <2>1, <2>2
  <2>3. CASE IsKept(c)
    BY <2>3
  <2>4. CASE \E s \in Requests : IsLeftBy(call[s], c)
    BY <1>6, <2>1, <2>4
  <2>5. QED
    BY <1>1, <2>2, <2>3, <2>4 DEF IInv, OnlyFailuresLeaveContent, IsKept, IsLeftBy
<1>14. CallsHaveAnOrigin'
  <2>1. IsUnderway(q) => HasAnOrigin(q)
    BY <1>2, <1>4
    DEF IsUnderway, Steps, HasAnOrigin, IsDrafted, IsPlaced, IsFreed
  <2>2. \A s \in Requests : IsUnderway(call'[s]) => HasAnOrigin(call'[s])
    BY <1>2, <1>6, <2>1 DEF IInv, CallsHaveAnOrigin
  <2>3. QED
    BY <1>1, <2>2
    DEF CallsHaveAnOrigin, IsUnderway, HasAnOrigin, IsDrafted, IsPlaced, IsFreed, Present
<1>15. QED
  BY <1>8, <1>9, <1>10, <1>11, <1>12, <1>13, <1>14 DEF IInv

\* The clock gives every transaction a start of its own.
LEMMA BeginPreserves ==
    ASSUME IInv, NEW r \in Requests, Begin(r)
    PROVE  IInv'
<1> DEFINE n == clock + 1
           q1 == [call[r] EXCEPT !.pc = "commit"]
           q == [q1 EXCEPT !.at = n]
<1>1. /\ IsUnderway(call[r]) /\ call[r].pc = "begin" /\ clock' = n
      /\ call' = [call EXCEPT ![r] = q]
      /\ backend' = backend /\ rows' = rows /\ receipts' = receipts
      /\ objects' = objects /\ restarts' = restarts /\ restartedAt' = restartedAt
  BY DEF Begin, At, IsUnderway, Steps
<1>2. call[r] \in Calls /\ IsChecked(call[r]) /\ HasAnOrigin(call[r]) /\ Pg /\ n \in Nat
  BY <1>1, CallsUnderwayAreCalls
  DEF IInv, TypeOK, CallsAreChecked, CallsHaveAnOrigin, IsChecked
<1>3. q \in Calls
  <2>1. q1 \in Calls
    BY <1>2, ChangedCallsAreCalls DEF Steps
  <2>2. QED
    BY <1>2, <2>1, ChangedCallsAreCalls
<1>4. /\ q.pc = "commit" /\ q.at = n
      /\ q.op = call[r].op /\ q.to = call[r].to /\ q.meta = call[r].meta
  BY <1>2 DEF Calls
<1> HIDE DEF q1, q
<1>5. call \in [Requests -> AllCalls]
  BY DEF IInv, TypeOK, AllCalls
<1>6. /\ call'[r] = q /\ \A s \in Requests \ {r} : call'[s] = call[s]
      /\ call' \in [Requests -> AllCalls]
  BY <1>1, <1>3, <1>5 DEF AllCalls
<1>7. TypeOK' /\ ClockCounts'
  <2>1. \A v \in Versions : rows[v].at \in Nat
    BY RowsAreTyped DEF IInv
  <2>2. QED
    BY <1>1, <1>2, <1>6, <2>1 DEF IInv, TypeOK, ClockCounts, AllCalls
<1>8. CallsAreChecked'
  <2>1. IsChecked(q)
    BY <1>1, <1>2, <1>4 DEF IsChecked
  <2>2. \A s \in Requests : IsUnderway(call'[s]) => IsChecked(call'[s])
    BY <1>6, <2>1 DEF IInv, CallsAreChecked
  <2>3. QED
    BY <1>1, <2>2 DEF CallsAreChecked, IsUnderway, IsChecked, Pg, Present
<1>9. RowsWereChecked' /\ ContentNeedsPg'
  BY <1>1 DEF IInv, RowsWereChecked, WasChecked, ContentNeedsPg, Pg, Present
<1>10. TransactionsAreDistinct'
  <2>1. restartedAt < n /\ \A v \in Versions : rows[v].at # n
    BY RowsAreTyped DEF IInv, ClockCounts, TypeOK
  <2>2. \A s \in Requests : IsUncommitted(call[s]) => call[s].at <= clock
    BY <1>2 DEF IInv, TransactionsAreDistinct
  <2>3. \A s \in Requests : IsUncommitted(call[s]) => call[s].at \in Nat
    BY DEF IInv, TypeOK, IsUncommitted, Calls, Failures, Nowhere
  <2>4. \A s \in Requests : IsUncommitted(call[s]) => call[s].at # n /\ call[s].at <= n
    BY <2>2, <2>3 DEF IInv, TypeOK
  <2>5. ASSUME NEW s \in Requests, IsUncommitted(call'[s])
        PROVE  /\ call'[s].at > restartedAt /\ call'[s].at <= n
               /\ \A v \in Versions : rows[v].at # call'[s].at
               /\ \A t \in Requests \ {s} : IsUncommitted(call'[t]) => call'[t].at # call'[s].at
    <3>1. CASE s = r
      BY <1>2, <1>4, <1>6, <2>1, <2>4, <3>1 DEF IInv, TypeOK
    <3>2. CASE s # r
      BY <1>2, <1>4, <1>6, <2>4, <2>5, <3>2 DEF IInv, TransactionsAreDistinct
    <3>3. QED
      BY <3>1, <3>2
  <2>6. QED
    BY <1>1, <2>5 DEF TransactionsAreDistinct, IsUncommitted
<1>11. OnlyFailuresLeaveContent'
  <2> SUFFICES ASSUME NEW c \in objects
               PROVE  IsKept(c) \/ \E s \in Requests : IsLeftBy(call'[s], c)
    BY <1>1 DEF OnlyFailuresLeaveContent, IsKept, IsLeftBy, Present
  <2>1. \A d : IsLeftBy(call[r], d) => IsLeftBy(q, d)
    BY <1>4 DEF IsLeftBy, Steps
  <2>2. CASE IsKept(c)
    BY <2>2
  <2>3. CASE \E s \in Requests : IsLeftBy(call[s], c)
    BY <1>6, <2>1, <2>3
  <2>4. QED
    BY <2>2, <2>3 DEF IInv, OnlyFailuresLeaveContent, IsKept, IsLeftBy
<1>12. CallsHaveAnOrigin'
  <2>1. HasAnOrigin(q)
    BY <1>2, <1>4 DEF HasAnOrigin, IsDrafted, IsPlaced, IsFreed
  <2>2. \A s \in Requests : IsUnderway(call'[s]) => HasAnOrigin(call'[s])
    BY <1>2, <1>6, <2>1 DEF IInv, CallsHaveAnOrigin
  <2>3. QED
    BY <1>1, <2>2
    DEF CallsHaveAnOrigin, IsUnderway, HasAnOrigin, IsDrafted, IsPlaced, IsFreed, Present
<1>13. QED
  BY <1>7, <1>8, <1>9, <1>10, <1>11, <1>12 DEF IInv

-----------------------------------------------------------------------------
LEMMA CallsThatHaveStored ==
    ASSUME TypeOK, NEW r \in Requests, IsUnderway(call[r]), AfterStore(r)
    PROVE  \E q \in AllCalls :
              /\ call' = [call EXCEPT ![r] = q]
              /\ \/ q.pc = "ok"
                 \/ /\ q.pc = "manifest" /\ q.op = call[r].op
                    /\ q.to = call[r].to /\ q.meta = call[r].meta
<1>1. CASE Succeed(r)
  <2> DEFINE q == [pc |-> "ok"]
  <2>1. call' = [call EXCEPT ![r] = q] /\ q \in AllCalls /\ q.pc = "ok"
    BY <1>1 DEF Succeed, AllCalls, Nowhere
  <2> HIDE DEF q
  <2>2. QED
    BY <2>1
<1>2. CASE GoTo(r, "manifest")
  <2>1. PICK q \in Calls :
              /\ call' = [call EXCEPT ![r] = q] /\ q.pc = "manifest"
              /\ q.op = call[r].op /\ q.to = call[r].to /\ q.meta = call[r].meta
              /\ q.at = call[r].at /\ q.proof = call[r].proof
    BY <1>2, CallsThatGoOn DEF Steps
  <2>2. QED
    BY <2>1 DEF AllCalls
<1>3. QED
  BY <1>1, <1>2 DEF AfterStore

LEMMA CommitPreserves ==
    ASSUME IInv, NEW r \in Requests, Commit(r)
    PROVE  IInv'
<1>0. PICK to : to = call[r].to
  OBVIOUS
<1> DEFINE m == call[r].meta
           new == [meta |-> m, at |-> call[r].at]
<1>1. /\ IsUnderway(call[r]) /\ call[r].pc = "commit" /\ ~Present(to) /\ AfterStore(r)
      /\ rows' = [rows EXCEPT ![to] = new]
      /\ backend' = backend /\ clock' = clock /\ receipts' = receipts
      /\ objects' = objects /\ restarts' = restarts /\ restartedAt' = restartedAt
  BY <1>0 DEF Commit, At, IsUnderway, Steps, Insertable, Stored
<1>2. call[r] \in Calls /\ IsChecked(call[r]) /\ Pg
  BY <1>1, CallsUnderwayAreCalls DEF IInv, CallsAreChecked, IsChecked
<1>3. to \in Versions /\ m \in Metadata /\ call[r].at \in Nat /\ m # Absent
  BY <1>0, <1>2, VersionsAssumption DEF Calls
<1>4. PICK q \in AllCalls :
              /\ call' = [call EXCEPT ![r] = q]
              /\ \/ q.pc = "ok"
                 \/ /\ q.pc = "manifest" /\ q.op = call[r].op
                    /\ q.to = call[r].to /\ q.meta = call[r].meta
  BY <1>1, CallsThatHaveStored DEF IInv
<1>5. /\ call \in [Requests -> AllCalls]
      /\ rows \in [Versions -> [meta: Metadata, at: Nat] \cup {NoRow}]
  BY DEF IInv, TypeOK, AllCalls
<1>6. /\ call'[r] = q /\ \A s \in Requests \ {r} : call'[s] = call[s]
      /\ call' \in [Requests -> AllCalls]
  BY <1>4, <1>5
<1>7. /\ rows'[to].meta = m /\ rows'[to].at = call[r].at
      /\ \A v \in Versions \ {to} : rows'[v] = rows[v]
      /\ rows' \in [Versions -> [meta: Metadata, at: Nat] \cup {NoRow}]
  BY <1>1, <1>3, <1>5
<1>8. /\ Present(to)' /\ \A v \in Versions \ {to} : Present(v)' <=> Present(v)
      /\ \A v \in Versions : Present(v) => Present(v)' /\ rows'[v] = rows[v]
  BY <1>1, <1>3, <1>7 DEF Present
<1>9. IsUncommitted(call[r]) /\ ~IsUncommitted(q)
  BY <1>1, <1>4 DEF IsUncommitted
<1>10. /\ call[r].at <= clock
       /\ \A s \in Requests \ {r} : IsUncommitted(call[s]) => call[s].at # call[r].at
  BY <1>2, <1>9 DEF IInv, TransactionsAreDistinct
<1>11. TypeOK' /\ ClockCounts'
  BY <1>1, <1>6, <1>7, <1>10 DEF IInv, TypeOK, ClockCounts, AllCalls
<1>12. Pg'
  BY <1>1, <1>2 DEF Pg
<1>13. CallsAreChecked'
  <2>1. IsUnderway(q) => IsChecked(q)'
    BY <1>0, <1>1, <1>2, <1>4, <1>7, <1>8 DEF IsUnderway, IsChecked, Steps, Present
  <2>2. ASSUME NEW s \in Requests \ {r}, IsUnderway(call[s]) PROVE IsChecked(call[s])'
    <3>1. IsChecked(call[s]) /\ call[s].to \in Versions
      BY <2>2, CallsUnderwayAreCalls DEF IInv, CallsAreChecked, Calls
    <3>2. QED
      BY <3>1, <1>1, <1>2, <1>6, <1>8, <1>12 DEF IsChecked, Present
  <2>3. QED
    BY <1>6, <2>1, <2>2 DEF CallsAreChecked, IsUnderway, IsChecked
<1>14. RowsWereChecked'
  <2>1. WasChecked(to)'
    BY <1>0, <1>1, <1>2, <1>7 DEF IsChecked, WasChecked
  <2>2. ASSUME NEW v \in Versions \ {to}, Present(v)' PROVE WasChecked(v)'
    BY <1>1, <1>2, <1>7, <1>8, <2>2 DEF IInv, RowsWereChecked, WasChecked
  <2>3. QED
    BY <2>1, <2>2 DEF RowsWereChecked
<1>15. TransactionsAreDistinct'
  <2> SUFFICES ASSUME NEW s \in Requests, IsUncommitted(call'[s])
               PROVE  /\ call'[s].at > restartedAt /\ call'[s].at <= clock
                      /\ \A v \in Versions : rows'[v].at # call'[s].at
                      /\ \A t \in Requests \ {s} :
                            IsUncommitted(call'[t]) => call'[t].at # call'[s].at
    BY <1>1 DEF TransactionsAreDistinct, IsUncommitted
  <2>1. s # r /\ call'[s] = call[s]
    BY <1>6, <1>9
  <2>2. \A v \in Versions : rows'[v].at # call[s].at
    BY <1>2, <1>7, <1>10, <2>1 DEF IInv, TransactionsAreDistinct
  <2>3. QED
    BY <1>2, <1>6, <1>9, <2>1, <2>2 DEF IInv, TransactionsAreDistinct
<1>16. ContentNeedsPg'
  BY <1>12 DEF ContentNeedsPg
<1>17. OnlyFailuresLeaveContent'
  <2> SUFFICES ASSUME NEW c \in objects
               PROVE  IsKept(c)' \/ \E s \in Requests : IsLeftBy(call'[s], c)
    BY <1>1 DEF OnlyFailuresLeaveContent, IsKept, IsLeftBy
  <2>1. CASE IsKept(c)
    BY <1>8, <2>1 DEF IsKept
  <2>2. CASE IsLeftBy(call[r], c)
    <3>1. ContentOf(to, rows'[to].meta) = c
      BY <1>0, <1>7, <2>2 DEF IsLeftBy
    <3>2. QED
      BY <1>3, <1>8, <3>1 DEF IsKept
  <2>3. CASE \E s \in Requests \ {r} : IsLeftBy(call[s], c)
    BY <1>6, <2>3
  <2>4. QED
    BY <2>1, <2>2, <2>3 DEF IInv, OnlyFailuresLeaveContent, IsKept, IsLeftBy
<1>18. CallsHaveAnOrigin'
  <2>1. ASSUME NEW s \in Requests, IsUnderway(call'[s]) PROVE HasAnOrigin(call'[s])
    <3>1. CASE s = r
      <4>1. HasAnOrigin(call[r])
        BY <1>1, <1>2 DEF IInv, CallsHaveAnOrigin
      <4>2. IsUnderway(q) => q.op = call[r].op /\ q.to = call[r].to /\ q.meta = call[r].meta
        BY <1>4 DEF IsUnderway, Steps
      <4>3. QED
        BY <1>6, <2>1, <3>1, <4>1, <4>2 DEF HasAnOrigin, IsDrafted, IsPlaced, IsFreed
    <3>2. CASE s # r
      BY <1>2, <1>6, <2>1, <3>2 DEF IInv, CallsHaveAnOrigin
    <3>3. QED
      BY <3>1, <3>2
  <2>2. \A s \in Requests : IsUnderway(call'[s]) => HasAnOrigin(call[s])'
    BY <2>1, <1>8 DEF HasAnOrigin, IsDrafted, IsPlaced, IsFreed
  <2>3. QED
    BY <2>2 DEF CallsHaveAnOrigin, IsUnderway
<1>19. QED
  BY <1>11, <1>13, <1>14, <1>15, <1>16, <1>17, <1>18 DEF IInv

\* In memory only types and times matter.
LEMMA StorePreserves ==
    ASSUME IInv, NEW r \in Requests, Store(r)
    PROVE  IInv'
<1> DEFINE n == clock + 1
           to == call[r].to
           new == [meta |-> call[r].meta, at |-> n]
<1>1. /\ IsUnderway(call[r]) /\ call[r].pc = "store" /\ AfterStore(r)
      /\ rows' = [rows EXCEPT ![to] = new] /\ clock' = n
      /\ backend' = backend /\ receipts' = receipts
      /\ objects' = objects /\ restarts' = restarts /\ restartedAt' = restartedAt
  BY DEF Store, At, IsUnderway, Steps, Stored
<1>2. call[r] \in Calls /\ IsChecked(call[r]) /\ ~Pg /\ objects = {} /\ n \in Nat
  BY <1>1, CallsUnderwayAreCalls
  DEF IInv, TypeOK, CallsAreChecked, IsChecked, ContentNeedsPg
<1>3. to \in Versions /\ new \in [meta: Metadata, at: Nat]
  BY <1>2 DEF Calls
<1>4. PICK q \in AllCalls :
              /\ call' = [call EXCEPT ![r] = q]
              /\ \/ q.pc = "ok"
                 \/ /\ q.pc = "manifest" /\ q.op = call[r].op
                    /\ q.to = call[r].to /\ q.meta = call[r].meta
  BY <1>1, CallsThatHaveStored DEF IInv
<1>5. /\ call \in [Requests -> AllCalls]
      /\ rows \in [Versions -> [meta: Metadata, at: Nat] \cup {NoRow}]
  BY DEF IInv, TypeOK, AllCalls
<1>6. /\ call'[r] = q /\ \A s \in Requests \ {r} : call'[s] = call[s]
      /\ call' \in [Requests -> AllCalls]
  BY <1>4, <1>5
<1>7. /\ rows'[to].at = n /\ \A v \in Versions \ {to} : rows'[v] = rows[v]
      /\ rows' \in [Versions -> [meta: Metadata, at: Nat] \cup {NoRow}]
  BY <1>1, <1>3, <1>5
<1>8. TypeOK'
  BY <1>1, <1>2, <1>6, <1>7 DEF IInv, TypeOK, AllCalls
<1>9. ClockCounts'
  <2>1. \A v \in Versions : rows[v].at \in Nat
    BY RowsAreTyped DEF IInv
  <2>2. QED
    BY <1>1, <1>2, <1>7, <2>1 DEF IInv, TypeOK, ClockCounts
<1>10. ~Pg'
  BY <1>1, <1>2 DEF Pg
<1>11. CallsAreChecked'
  <2>1. IsUnderway(q) => IsChecked(q)'
    BY <1>1, <1>2, <1>4, <1>10 DEF IsUnderway, IsChecked, Steps
  <2>2. ASSUME NEW s \in Requests \ {r}, IsUnderway(call[s]) PROVE IsChecked(call[s])'
    <3>1. IsChecked(call[s])
      BY <2>2 DEF IInv, CallsAreChecked
    <3>2. QED
      BY <3>1, <1>1, <1>2, <1>6, <1>10 DEF IsChecked
  <2>3. QED
    BY <1>6, <2>1, <2>2 DEF CallsAreChecked, IsUnderway, IsChecked
<1>12. RowsWereChecked' /\ TransactionsAreDistinct' /\ CallsHaveAnOrigin'
  BY <1>10 DEF RowsWereChecked, TransactionsAreDistinct, CallsHaveAnOrigin
<1>13. ContentNeedsPg' /\ OnlyFailuresLeaveContent'
  BY <1>1, <1>2 DEF ContentNeedsPg, OnlyFailuresLeaveContent
<1>14. QED
  BY <1>8, <1>9, <1>11, <1>12, <1>13 DEF IInv

LEMMA RestartPreserves ==
    ASSUME IInv, Restart
    PROVE  IInv'
<1>1. /\ backend' = backend /\ clock' = clock /\ restarts' = restarts + 1
      /\ restartedAt' = clock /\ objects' = {}
      /\ call' = [r \in Requests |->
                   IF call[r].pc \in Steps \cup {"failed"} THEN [pc |-> "lost"] ELSE call[r]]
      /\ (Pg /\ rows' = rows /\ receipts' = receipts)
         \/ (~Pg /\ rows' = [v \in Versions |-> NoRow] /\ receipts' = {})
  BY DEF Restart
<1>2. ASSUME NEW r \in Requests
      PROVE  call'[r] \in Nowhere /\ ~IsUnderway(call'[r]) /\ ~IsUncommitted(call'[r])
  <2>1. call[r] \in AllCalls
    BY DEF IInv, TypeOK, AllCalls
  <2>2. CASE call[r].pc \in Steps \cup {"failed"}
    BY <1>1, <2>2 DEF Nowhere, IsUnderway, IsUncommitted, Steps
  <2>3. CASE call[r].pc \notin Steps \cup {"failed"}
    <3>1. call[r] \in Nowhere /\ call'[r] = call[r]
      BY <1>1, <2>1, <2>3 DEF AllCalls, Calls, Failures
    <3>2. QED
      BY <2>3, <3>1 DEF IsUnderway, IsUncommitted, Steps
  <2>4. QED
    BY <2>2, <2>3
<1>3. call' \in [Requests -> Calls \cup Failures \cup Nowhere]
  BY <1>1, <1>2
<1>4. /\ rows' \in [Versions -> [meta: Metadata, at: Nat] \cup {NoRow}]
      /\ receipts' \subseteq WriteReceipts
  BY <1>1 DEF IInv, TypeOK
<1>5. TypeOK'
  BY <1>1, <1>3, <1>4 DEF IInv, TypeOK
<1>6. ClockCounts'
  BY <1>1 DEF IInv, TypeOK, ClockCounts, NoRow
<1>7. CallsAreChecked' /\ TransactionsAreDistinct' /\ CallsHaveAnOrigin'
  BY <1>2 DEF CallsAreChecked, TransactionsAreDistinct, CallsHaveAnOrigin, IsUnderway, IsUncommitted
<1>8. RowsWereChecked'
  <2> SUFFICES ASSUME Pg, rows' = rows, NEW v \in Versions, Present(v)
               PROVE  GuardAccepts(rows[v].meta) /\ Retainable(rows[v].meta)
                      /\ Storable(rows[v].meta) /\ ~(rows[v].at > clock)
    BY <1>1 DEF RowsWereChecked, WasChecked, Pg, Present
  <2>1. WasChecked(v) /\ rows[v].at \in Nat /\ rows[v].at <= clock
    BY RowsAreTyped DEF IInv, RowsWereChecked, ClockCounts
  <2>2. QED
    BY <2>1 DEF WasChecked, IInv, TypeOK
<1>9. ContentNeedsPg' /\ OnlyFailuresLeaveContent'
  BY <1>1 DEF ContentNeedsPg, OnlyFailuresLeaveContent
<1>10. QED
  BY <1>5, <1>6, <1>7, <1>8, <1>9 DEF IInv

-----------------------------------------------------------------------------
LEMMA StepPreserves ==
    ASSUME IInv, NEW r \in Requests, Step(r)
    PROVE  IInv'
<1>1. CASE Put(r) \/ Begin(r)
  BY <1>1, PutPreserves, BeginPreserves
<1>2. CASE Commit(r) \/ InsertFails(r)
  BY <1>2, CommitPreserves, InsertFailsPreserves
<1>3. CASE Check(r) \/ Store(r) \/ Manifest(r)
  BY <1>3, CheckPreserves, StorePreserves, ManifestPreserves
<1>4. QED
  BY <1>1, <1>2, <1>3 DEF Step

LEMMA NextPreserves == IInv /\ [Next]_vars => IInv'
<1> SUFFICES ASSUME IInv, [Next]_vars PROVE IInv'
  OBVIOUS
<1>1. ASSUME NEW v \in Versions, AppendReceipt(v) PROVE IInv'
  <2>1. receipts' \subseteq WriteReceipts
    BY <1>1 DEF IInv, TypeOK, AppendReceipt, WriteReceipts
  <2>2. QED
    BY <1>1, <2>1, ReceiptSteps DEF AppendReceipt
<1>2. ASSUME NEW r \in Requests, NEW v \in Versions, NEW m \in Drafts,
             NEW proof \in BOOLEAN, Add(r, v, m, proof)
      PROVE  IInv'
  BY <1>2, AddPreserves
<1>3. ASSUME NEW r \in Requests, NEW v \in Versions, NEW w \in Versions, NEW form \in Forms,
             PlaceHoldOn(r, v, w, form)
      PROVE  IInv'
  BY <1>3, PlaceHoldPreserves
<1>4. ASSUME NEW r \in Requests, NEW v \in Versions, NEW w \in Versions, NEW p \in PolicyIds,
             NEW form \in Forms, ReleaseHoldOf(r, v, w, p, form)
      PROVE  IInv'
  BY <1>4, ReleaseHoldPreserves
<1>5. ASSUME NEW r \in Requests, Step(r) PROVE IInv'
  BY <1>5, StepPreserves
<1>6. CASE Restart
  BY <1>6, RestartPreserves
<1>7. CASE UNCHANGED vars
  BY <1>7, ReceiptSteps DEF IInv, TypeOK, vars
<1>8. QED
  BY <1>1, <1>2, <1>3, <1>4, <1>5, <1>6, <1>7 DEF Next

(* What calls and rows have been checked for holds in every state.            *)
THEOREM Invariant == Spec => []IInv
<1>1. Init => IInv
  BY InitIsGood
<1>2. IInv /\ [Next]_vars => IInv'
  BY NextPreserves
<1>3. QED
  BY <1>1, <1>2, PTL DEF Spec

(* Rows, content and calls have their types.                                  *)
THEOREM TypeCorrect == Spec => []TypeOK
<1>1. IInv => TypeOK
  BY DEF IInv
<1>2. QED
  BY <1>1, Invariant, PTL

(* A version whose timestamps the database gives back as they were can be     *)
(* read, until the content store is restarted.                                *)
THEOREM StoredCanBeRead == Spec => []StoredIsReadable
<1>1. IInv => StoredIsReadable
  <2> SUFFICES ASSUME IInv, Pg, NEW v \in Versions, Present(v),
                      rows[v].meta.canonical, rows[v].at > restartedAt
               PROVE  Readable(v)
    BY DEF StoredIsReadable
  <2> DEFINE m == rows[v].meta
  <2>1. WasChecked(v) /\ m \in Metadata
    BY RowsAreTyped DEF IInv, RowsWereChecked
  <2>2. ContentMatches(v)
    BY <2>1 DEF WasChecked, ContentMatches
  <2>3. m.intact
    BY <2>1 DEF WasChecked, GuardAccepts
  <2>4. ReadBack(m).intact
    <3> DEFINE m1 == [m EXCEPT !.canonical = TRUE]
    <3>1. ReadBack(m) = [m1 EXCEPT !.intact = @ /\ m.canonical]
      BY Zenon DEF ReadBack
    <3>2. m1 \in Metadata /\ m1.intact = m.intact
      BY <2>1 DEF Metadata
    <3> HIDE DEF m1
    <3>3. [m1 EXCEPT !.intact = @ /\ m.canonical].intact = (m1.intact /\ m.canonical)
      BY <3>2 DEF Metadata
    <3>4. QED
      BY <2>3, <3>1, <3>2, <3>3, Zenon
  <2>5. QED
    BY <2>2, <2>4 DEF Readable, RecordMatches
<1>2. QED
  BY <1>1, Invariant, PTL

(* A transaction that failed has not left its version.                        *)
THEOREM FailuresAreWithoutVersion == Spec => []FailureLeavesNoVersion
<1>1. IInv => FailureLeavesNoVersion
  BY DEF IInv, FailureLeavesNoVersion, TransactionsAreDistinct, IsUncommitted, At
<1>2. QED
  BY <1>1, Invariant, PTL

(* Content without a version is that of a call that failed or is under way.   *)
THEOREM ContentHasAReason == Spec => []OnlyFailuresLeaveContent
<1>1. IInv => OnlyFailuresLeaveContent
  BY DEF IInv
<1>2. QED
  BY <1>1, Invariant, PTL

(* Records that must not be deleted are under an object lock, whatever the    *)
(* policy files say, as long as their validators accept them.                 *)
THEOREM RecordsHaveALock == Spec => []RecordsAreLocked
<1>1. IInv => RecordsAreLocked
  <2> SUFFICES ASSUME IInv, Pg, NEW v \in Versions, Present(v), RequiresWorm(rows[v].meta)
               PROVE  /\ Bucket[RetentionManifest(rows[v].meta).bucket].lock # "none"
                      /\ rows[v].meta.hold => ObjectLockHold(rows[v].meta)
    BY DEF RecordsAreLocked
  <2>1. rows[v].meta \in Metadata /\ WasChecked(v)
    BY RowsAreTyped DEF IInv, RowsWereChecked
  <2>2. QED
    BY <2>1, RetainedRecordsAreLocked DEF WasChecked
<1>2. QED
  BY <1>1, Invariant, PTL

-----------------------------------------------------------------------------
\* The rows change when a call stores one, and in memory with a restart.
LEMMA RowsChangeByCalls ==
    ASSUME IInv, Next, rows' # rows
    PROVE  \/ ~Pg /\ Restarting
           \/ \E r \in Requests : /\ Pg /\ Commit(r) /\ IsUnderway(call[r])
                                  /\ call[r].pc = "commit"
           \/ \E r \in Requests : ~Pg /\ Store(r)
<1>1. ASSUME NEW r \in Requests, Commit(r)
      PROVE  Pg /\ IsUnderway(call[r]) /\ call[r].pc = "commit"
  BY <1>1 DEF IInv, CallsAreChecked, IsChecked, IsUnderway, Steps, Commit, At
<1>2. ASSUME NEW r \in Requests, Store(r) PROVE ~Pg
  BY <1>2 DEF IInv, CallsAreChecked, IsChecked, IsUnderway, Steps, Store, At
<1>3. Restart => ~Pg /\ Restarting
  BY DEF Restart, Restarting, IInv, TypeOK
<1>4. ASSUME NEW r \in Requests,
             Put(r) \/ Begin(r) \/ InsertFails(r) \/ Check(r) \/ Manifest(r)
      PROVE  FALSE
  BY <1>4 DEF Put, Begin, InsertFails, Check, Manifest
<1>5. ASSUME NEW r \in Requests, NEW op, NEW to, NEW m, NEW proof, Begins(r, op, to, m, proof)
      PROVE  FALSE
  BY <1>5 DEF Begins
<1>6. ~\E v \in Versions : AppendReceipt(v)
  BY DEF AppendReceipt
<1>7. QED
  BY <1>1, <1>2, <1>3, <1>4, <1>5, <1>6
  DEF Next, Step, Add, PlaceHoldOn, ReleaseHoldOf

(* A stored version stays, but for two threads in memory that both found it   *)
(* missing.                                                                   *)
THEOREM VersionsStay == Spec => VersionsWrittenOnce
<1> DEFINE Stays(v) == \/ rows'[v] = rows[v]
                       \/ ~Pg /\ Restarting
                       \/ ~Pg /\ \E r \in Requests : At(r, "store") /\ call[r].to = v
<1>1. IInv /\ [Next]_vars => [\A v \in Versions : Present(v) => Stays(v)]_vars
  <2> SUFFICES ASSUME IInv, Next, NEW v \in Versions, Present(v), rows'[v] # rows[v],
                      ~(~Pg /\ Restarting)
               PROVE  ~Pg /\ \E r \in Requests : At(r, "store") /\ call[r].to = v
    OBVIOUS
  <2>1. rows \in [Versions -> [meta: Metadata, at: Nat] \cup {NoRow}]
    BY DEF IInv, TypeOK
  <2>2. ASSUME NEW r \in Requests, Commit(r) PROVE FALSE
    BY <2>1, <2>2 DEF Commit, Insertable, Stored
  <2>3. PICK r \in Requests : ~Pg /\ Store(r)
    BY <2>2, RowsChangeByCalls
  <2>4. call[r].to = v /\ At(r, "store")
    BY <2>1, <2>3 DEF Store, Stored
  <2>5. QED
    BY <2>3, <2>4
<1>2. QED
  BY <1>1, Invariant, PTL DEF Spec, VersionsWrittenOnce

-----------------------------------------------------------------------------
Metas == [v \in Versions |-> rows[v].meta]

\* A commit writes one version in the store of versions that are written once.
LEMMA CommitWrites ==
    ASSUME IInv, NEW r \in Requests, Commit(r), Pg, call[r].pc = "commit"
    PROVE  Catalog!VersionsNext
<1>1. PICK to, m : to = call[r].to /\ m = call[r].meta
  OBVIOUS
<1>2. IsUnderway(call[r]) /\ IsChecked(call[r]) /\ HasAnOrigin(call[r])
  BY DEF IInv, CallsAreChecked, CallsHaveAnOrigin, IsUnderway, Steps
<1>3. to \in Versions
  BY <1>1, <1>2, CallsUnderwayAreCalls DEF IInv, Calls
<1>4. rows' = [rows EXCEPT ![to] = [meta |-> m, at |-> call[r].at]] /\ ~Present(to)
  BY <1>1 DEF Commit, Stored, Insertable
<1>5. Metas' = [Metas EXCEPT ![to] = m]
  BY <1>3, <1>4 DEF IInv, TypeOK, Metas
<1>6. WellFormed(m) /\ GuardAccepts(m)
  BY <1>1, <1>2 DEF IsChecked
<1>7. Catalog!Write(to, m)
  BY <1>3, <1>4, <1>5, <1>6
  DEF Catalog!Write, Catalog!Exists, Catalog!WellFormed, Catalog!GuardAccepts, WellFormed,
      GuardAccepts, Metas, Present
<1>8. CASE IsDrafted(call[r])
  BY <1>1, <1>3, <1>7, <1>8 DEF IsDrafted, Catalog!VersionsNext
<1>9. CASE IsPlaced(call[r])
  <2>1. PICK v \in Versions, form \in Forms :
              /\ Present(v) /\ ~rows[v].meta.hold /\ MayFollow(v, to)
              /\ m = Held(rows[v].meta, form)
    BY <1>1, <1>9 DEF IsPlaced
  <2>2. m = Catalog!Held(Metas[v], form)
    BY <2>1, Zenon DEF Held, Catalog!Held, Metas
  <2>3. Catalog!PlaceHold(v, to, form)
    <3>1. Catalog!Exists(v) /\ Catalog!MayFollow(v, to) /\ ~Metas[v].hold
      BY <2>1 DEF Catalog!Exists, Catalog!MayFollow, MayFollow, Metas, Present
    <3>2. Catalog!Write(to, Catalog!Held(Metas[v], form))
      BY <1>7, <2>2 DEF Catalog!Write, Catalog!WellFormed, Catalog!GuardAccepts
    <3>3. QED
      BY <3>1, <3>2, Zenon DEF Catalog!PlaceHold, Metas
  <2>4. QED
    BY <1>3, <2>3 DEF Catalog!VersionsNext
<1>10. CASE IsFreed(call[r])
  <2>1. PICK v \in Versions, p \in PolicyIds, form \in Forms :
              /\ Present(v) /\ rows[v].meta.hold /\ MayFollow(v, to)
              /\ m = Released(rows[v].meta, p, form)
    BY <1>1, <1>10 DEF IsFreed
  <2>2. m = Catalog!Released(Metas[v], p, form)
    BY <2>1, Zenon DEF Released, Catalog!Released, Metas
  <2>3. Catalog!ReleaseHold(v, to, p, form)
    <3>1. Catalog!Exists(v) /\ Catalog!MayFollow(v, to) /\ Metas[v].hold
      BY <2>1 DEF Catalog!Exists, Catalog!MayFollow, MayFollow, Metas, Present
    <3>2. Catalog!Write(to, Catalog!Released(Metas[v], p, form))
      BY <1>7, <2>2 DEF Catalog!Write, Catalog!WellFormed, Catalog!GuardAccepts
    <3>3. QED
      BY <3>1, <3>2, Zenon DEF Catalog!ReleaseHold, Metas
  <2>4. QED
    BY <1>3, <2>3 DEF Catalog!VersionsNext
<1>11. QED
  BY <1>2, <1>8, <1>9, <1>10 DEF HasAnOrigin

(* With PostgreSQL every step is one of the store of versions that are        *)
(* written once, or none.                                                     *)
THEOREM Refinement == Spec => ImplementsSourceVersions
<1>1. Init => Catalog!NoVersions
  BY DEF Init, NoRow, Catalog!NoVersions
<1>2. IInv /\ [Next]_vars =>
         [Pg => [Catalog!VersionsNext]_([v \in Versions |-> rows[v].meta])]_vars
  <2> SUFFICES ASSUME IInv, Next, Pg, rows' # rows
               PROVE  Catalog!VersionsNext
    OBVIOUS
  <2>1. PICK r \in Requests : Commit(r) /\ call[r].pc = "commit"
    BY RowsChangeByCalls
  <2>2. QED
    BY <2>1, CommitWrites
<1>3. QED
  BY <1>1, <1>2, Invariant, PTL DEF Spec, ImplementsSourceVersions

-----------------------------------------------------------------------------
\* What the latest version of an object needs, besides: times that tell stored versions
\* apart, and placed holds that are holds.
TimesTellVersions ==
    \A v, w \in Versions : Present(v) /\ Present(w) /\ rows[v].at = rows[w].at => v = w
PlacedAreHeld ==
    \A r \in Requests : IsUnderway(call[r]) /\ call[r].op = "place" => call[r].meta.hold

LEMMA LeastNumber ==
    ASSUME NEW T, T \subseteq Nat, T # {}
    PROVE  \E n \in T : \A m \in T : n <= m
<1> DEFINE R == OpToRel(<, Nat)
<1>1. IsWellFoundedOn(R, Nat)
  BY NatLessThanWellFounded
<1>2. ASSUME NEW x \in Nat, NEW y \in Nat, x < y PROVE <<x, y>> \in R
  BY <1>2 DEF OpToRel
<1> HIDE DEF R
<1>3. \E n \in T : \A m \in T : ~(<<m, n>> \in R)
  BY <1>1, WFMin, Zenon
<1>4. PICK n \in T : \A m \in T : ~(<<m, n>> \in R)
  BY <1>3
<1>5. ASSUME NEW m \in T PROVE n <= m
  <2>1. n \in Nat /\ m \in Nat /\ ~(m < n)
    BY <1>2, <1>4
  <2> QED
    BY <2>1
<1> QED
  BY <1>5

\* Versions of o in a catalog, and those of them that no other is later than.
StoredIn(t, o) == {v \in Versions : Object[v] = o /\ t[v].meta # Absent}
IsLatestIn(t, o, v) == v \in StoredIn(t, o) /\ \A w \in StoredIn(t, o) : t[w].at <= t[v].at

\* Times are numbers below the clock's, so that one of them is the last.
LEMMA LatestExists ==
    ASSUME NEW t, NEW n \in Nat, NEW o, StoredIn(t, o) # {},
           \A v \in Versions : t[v].at \in Nat /\ t[v].at <= n
    PROVE  \E v : IsLatestIn(t, o, v)
<1> DEFINE Ages == {n - t[v].at : v \in StoredIn(t, o)}
<1>1. Ages \subseteq Nat /\ Ages # {}
  BY DEF StoredIn
<1> HIDE DEF Ages
<1>2. PICK a \in Ages : \A b \in Ages : a <= b
  BY <1>1, LeastNumber
<1> USE DEF Ages
<1>3. PICK v \in StoredIn(t, o) : a = n - t[v].at
  BY <1>2
<1>4. ASSUME NEW w \in StoredIn(t, o) PROVE t[w].at <= t[v].at
  <2>1. n - t[w].at \in Ages
    OBVIOUS
  <2> HIDE DEF Ages
  <2>2. n - t[v].at <= n - t[w].at
    BY <1>2, <1>3, <2>1
  <2>3. t[v].at \in Nat /\ t[w].at \in Nat
    BY DEF StoredIn
  <2> QED
    BY <2>2, <2>3
<1> QED
  BY <1>3, <1>4 DEF IsLatestIn

LEMMA LatestOfRows ==
    ASSUME NEW o, NEW n \in Nat, StoredIn(rows, o) # {},
           \A v \in Versions : rows[v].at \in Nat /\ rows[v].at <= n
    PROVE  IsLatestIn(rows, o, LatestOf(o))
<1>1. PICK v : IsLatestIn(rows, o, v)
  BY LatestExists
<1>2. \A x \in Versions : IsLatestIn(rows, o, x) <=>
         /\ Object[x] = o /\ Present(x)
         /\ \A w \in Versions : Object[w] = o /\ Present(w) => rows[w].at <= rows[x].at
  BY DEF IsLatestIn, StoredIn, Present
<1>3. v \in Versions
  BY <1>1 DEF IsLatestIn, StoredIn
<1> DEFINE P(x) == /\ Object[x] = o /\ Present(x)
                   /\ \A w \in Versions :
                         Object[w] = o /\ Present(w) => rows[w].at <= rows[x].at
<1>4. P(v)
  BY <1>1, <1>2, <1>3
<1>5. LatestOf(o) = CHOOSE x \in Versions : P(x)
  BY DEF LatestOf
<1> HIDE DEF P
<1>6. LatestOf(o) \in Versions /\ P(LatestOf(o))
  BY <1>3, <1>4, <1>5
<1> QED
  BY <1>2, <1>6 DEF P

\* What a call stores has a time of its own, and the last one where it replaces a version.
LEMMA StepsOfTheRows ==
    ASSUME IInv, Next, rows' # rows, ~Restarting
    PROVE  \E r \in Requests, time \in Nat :
              /\ IsUnderway(call[r]) /\ call[r] \in Calls /\ Stored(r, time)
              /\ \A v \in Versions : Present(v) => rows[v].at # time
              /\ Present(call[r].to) => \A v \in Versions : rows[v].at < time
<1>1. CASE \E r \in Requests : Pg /\ Commit(r) /\ IsUnderway(call[r]) /\ call[r].pc = "commit"
  <2>1. PICK r \in Requests : Pg /\ Commit(r) /\ IsUnderway(call[r]) /\ call[r].pc = "commit"
    BY <1>1
  <2>2. call[r] \in Calls
    BY <2>1, CallsUnderwayAreCalls DEF IInv
  <2>3. Stored(r, call[r].at) /\ ~Present(call[r].to)
    BY <2>1 DEF Commit, Insertable
  <2>4. \A v \in Versions : rows[v].at # call[r].at
    BY <2>1 DEF IInv, TransactionsAreDistinct, IsUncommitted
  <2>5. call[r].at \in Nat
    BY <2>2 DEF Calls
  <2> QED
    BY <2>1, <2>2, <2>3, <2>4, <2>5
<1>2. CASE \E r \in Requests : ~Pg /\ Store(r)
  <2>1. PICK r \in Requests : Store(r)
    BY <1>2
  <2>2. IsUnderway(call[r])
    BY <2>1 DEF Store, At, IsUnderway, Steps
  <2>3. call[r] \in Calls
    BY <2>2, CallsUnderwayAreCalls DEF IInv
  <2>4. \A v \in Versions : rows[v].at < clock + 1
    BY RowsAreTyped DEF IInv, TypeOK, ClockCounts
  <2>5. Stored(r, clock + 1) /\ clock + 1 \in Nat
    BY <2>1 DEF IInv, TypeOK, Store
  <2>6. \A v \in Versions : rows[v].at # clock + 1
    BY <2>4, RowsAreTyped DEF IInv
  <2> QED
    BY <2>2, <2>3, <2>4, <2>5, <2>6
<1> QED
  BY <1>1, <1>2, RowsChangeByCalls

LEMMA OnlyRestartsRestart ==
    ASSUME IInv, Next, Restarting PROVE Restart
<1>1. ASSUME NEW r \in Requests, Step(r) PROVE FALSE
  BY <1>1 DEF Step, Put, Begin, Commit, InsertFails, Check, Store, Manifest, Restarting
<1>2. ASSUME NEW r \in Requests, NEW op, NEW to, NEW m, NEW proof, Begins(r, op, to, m, proof)
      PROVE  FALSE
  BY <1>2 DEF Begins, Restarting
<1>3. ~\E v \in Versions : AppendReceipt(v)
  BY DEF AppendReceipt, Restarting
<1> QED
  BY <1>1, <1>2, <1>3 DEF Next, Add, PlaceHoldOn, ReleaseHoldOf

LEMMA TimesStep == IInv /\ TimesTellVersions /\ [Next]_vars => TimesTellVersions'
<1> SUFFICES ASSUME IInv, TimesTellVersions, [Next]_vars, rows' # rows,
                    NEW v \in Versions, NEW w \in Versions, Present(v)', Present(w)',
                    rows'[v].at = rows'[w].at
             PROVE  v = w
  BY DEF TimesTellVersions, Present
<1>1. Next
  BY DEF vars
<1>2. CASE ~Restarting
  <2>1. PICK r \in Requests, time \in Nat :
              /\ Stored(r, time) /\ call[r] \in Calls
              /\ \A x \in Versions : Present(x) => rows[x].at # time
    BY <1>1, <1>2, StepsOfTheRows
  <2>2. rows' = [rows EXCEPT ![call[r].to] = [meta |-> call[r].meta, at |-> time]]
    BY <2>1 DEF Stored
  <2>3. rows \in [Versions -> [meta: Metadata, at: Nat] \cup {NoRow}]
    BY DEF IInv, TypeOK
  <2>4. ASSUME NEW x \in Versions, Present(x)'
        PROVE  IF x = call[r].to THEN rows'[x].at = time
               ELSE rows'[x] = rows[x] /\ Present(x) /\ rows[x].at # time
    BY <2>1, <2>2, <2>3, <2>4 DEF Present
  <2> QED
    BY <2>4 DEF TimesTellVersions
<1>3. CASE Restarting
  <2>1. Restart
    BY <1>1, <1>3, OnlyRestartsRestart
  <2>2. rows' = [x \in Versions |-> NoRow]
    BY <2>1 DEF Restart
  <2> QED
    BY <2>2 DEF Present, NoRow
<1> QED
  BY <1>2, <1>3

\* A legal hold command marks the copy that it is about to store.
LEMMA PlacedStep == IInv /\ PlacedAreHeld /\ [Next]_vars => PlacedAreHeld'
<1> SUFFICES ASSUME IInv, PlacedAreHeld, [Next]_vars, NEW r \in Requests,
                    IsUnderway(call'[r]), call'[r].op = "place"
             PROVE  call'[r].meta.hold
  BY DEF PlacedAreHeld, IsUnderway
<1>0. call \in [Requests -> AllCalls] /\ TypeOK
  BY DEF IInv, TypeOK, AllCalls
<1>1. CASE call'[r] = call[r]
  BY <1>1 DEF PlacedAreHeld
<1>2. ASSUME NEW s \in Requests, NEW op, NEW to, NEW m, NEW proof,
             Begins(s, op, to, m, proof), op = "place" => m.hold
      PROVE  call'[r].meta.hold
  <2>1. CASE s = r
    BY <1>0, <1>2, <2>1 DEF Begins
  <2>2. CASE s # r
    BY <1>0, <1>1, <1>2, <2>2 DEF Begins
  <2> QED
    BY <2>1, <2>2
<1>3. ASSUME NEW s \in Requests, NEW v \in Versions, NEW w \in Versions, NEW form \in Forms,
             PlaceHoldOn(s, v, w, form)
      PROVE  call'[r].meta.hold
  <2>1. Readable(v) /\ Begins(s, "place", w, Held(rows[v].meta, form), FALSE)
    BY <1>3 DEF PlaceHoldOn
  <2>2. rows[v].meta \in Metadata
    BY <1>0, <2>1, RowsAreTyped DEF Readable
  <2>3. Held(rows[v].meta, form).hold
    BY <2>2 DEF Held, Metadata
  <2> QED
    BY <1>2, <2>1, <2>3
<1>4. ASSUME NEW s \in Requests, NEW pc \in Steps, IsUnderway(call[s]), GoTo(s, pc)
      PROVE  call'[r].meta.hold
  <2>1. PICK q \in Calls : /\ call' = [call EXCEPT ![s] = q]
                           /\ q.op = call[s].op /\ q.meta = call[s].meta
    BY <1>0, <1>4, CallsThatGoOn
  <2>2. CASE s = r
    BY <1>0, <1>4, <2>1, <2>2 DEF PlacedAreHeld
  <2>3. CASE s # r
    BY <1>0, <1>1, <2>1, <2>3
  <2> QED
    BY <2>2, <2>3
<1>5. ASSUME NEW s \in Requests, Fail(s) \/ Succeed(s) PROVE call'[r].meta.hold
  <2>1. CASE s = r
    BY <1>0, <1>5, <2>1 DEF Fail, Succeed, IsUnderway, Steps
  <2>2. CASE s # r
    BY <1>0, <1>1, <1>5, <2>2 DEF Fail, Succeed
  <2> QED
    BY <2>1, <2>2
<1>6. ASSUME NEW s \in Requests, Step(s) PROVE call'[r].meta.hold
  <2>1. IsUnderway(call[s])
    BY <1>6 DEF Step, Put, Begin, Commit, InsertFails, Check, Store, Manifest, At, IsUnderway, Steps
  <2>2. CASE Begin(s)
    <3>1. /\ call' = [call EXCEPT ![s] = [call[s] EXCEPT !.pc = "commit", !.at = clock + 1]]
          /\ call[s] \in Calls
      BY <1>0, <2>1, <2>2, CallsUnderwayAreCalls DEF Begin
    <3>2. CASE s = r
      BY <1>0, <2>1, <3>1, <3>2 DEF PlacedAreHeld, Calls
    <3>3. CASE s # r
      BY <1>0, <1>1, <3>1, <3>3
    <3> QED
      BY <3>2, <3>3
  <2>3. CASE ~Begin(s)
    <3>1. \/ Fail(s) \/ Succeed(s)
          \/ \E pc \in Steps : GoTo(s, pc)
      BY <1>6, <2>3 DEF Step, Put, Commit, InsertFails, Check, Store, Manifest, AfterStore, Steps
    <3> QED
      BY <1>4, <1>5, <2>1, <3>1
  <2> QED
    BY <2>2, <2>3
<1>7. CASE Restart
  BY <1>7 DEF Restart, IsUnderway, Steps, PlacedAreHeld
<1>8. CASE UNCHANGED vars \/ \E v \in Versions : AppendReceipt(v)
  BY <1>1, <1>8 DEF vars, AppendReceipt
<1> QED
  BY <1>2, <1>3, <1>6, <1>7, <1>8 DEF Next, Add, ReleaseHoldOf

LEMMA TimesAndHolds == Spec => []TimesTellVersions /\ []PlacedAreHeld
<1>1. Init => TimesTellVersions /\ PlacedAreHeld
  BY DEF Init, TimesTellVersions, PlacedAreHeld, Present, NoRow, IsUnderway, Steps
<1> QED
  BY <1>1, TimesStep, PlacedStep, Invariant, PTL DEF Spec

\* Whatever hold a call places, on a version of this object or another, leaves the latest
\* version of an object under the hold it is under.
LEMMA HoldsStay ==
    ASSUME IInv, IInv', TimesTellVersions, PlacedAreHeld, NEW o, LatestHeld(o),
           NEW r \in Requests, NEW time \in Nat, call[r] \in Calls, IsUnderway(call[r]),
           Stored(r, time), call[r].op = "place",
           Present(call[r].to) => \A v \in Versions : rows[v].at < time
    PROVE  LatestHeld(o)'
<1> DEFINE to == call[r].to
<1>1. /\ rows \in [Versions -> [meta: Metadata, at: Nat] \cup {NoRow}]
      /\ to \in Versions /\ call[r].meta \in Metadata /\ call[r].meta.hold
  BY DEF IInv, TypeOK, Calls, PlacedAreHeld
<1>2. /\ rows'[to] = [meta |-> call[r].meta, at |-> time]
      /\ \A v \in Versions : v # to => rows'[v] = rows[v]
  BY <1>1 DEF Stored
<1>3. \A v \in Versions : rows[v].at \in Nat /\ rows[v].at <= clock
  BY RowsAreTyped DEF IInv, ClockCounts
<1>4. \A v \in Versions : rows'[v].at \in Nat /\ rows'[v].at <= clock'
  <2>1. TypeOK' /\ ClockCounts'
    BY DEF IInv
  <2> QED
    BY <2>1 DEF TypeOK, ClockCounts, NoRow
<1>5. PICK old : old = LatestOf(o) /\ IsLatestIn(rows, o, old) /\ rows[old].meta.hold
  <2>1. StoredIn(rows, o) # {} /\ clock \in Nat
    BY DEF LatestHeld, StoredIn, Present, IInv, TypeOK
  <2> QED
    BY <1>3, <2>1, LatestOfRows DEF LatestHeld
<1>6. Absent \notin Metadata
  BY VersionsAssumption
<1>7. old \in StoredIn(rows', o)
  BY <1>1, <1>2, <1>5, <1>6 DEF IsLatestIn, StoredIn
<1>8. PICK new : new = LatestOf(o)' /\ IsLatestIn(rows', o, new)
  <2> DEFINE P(v) == /\ Object[v] = o /\ Present(v)'
                     /\ \A w \in Versions :
                           Object[w] = o /\ Present(w)' => rows'[w].at <= rows'[v].at
  <2>1. clock' \in Nat
    BY DEF IInv, TypeOK
  <2>2. PICK v : IsLatestIn(rows', o, v)
    BY <1>4, <1>7, <2>1, LatestExists
  <2>3. \A x \in Versions : P(x) <=> IsLatestIn(rows', o, x)
    BY DEF IsLatestIn, StoredIn, Present
  <2>4. LatestOf(o)' = CHOOSE x \in Versions : P(x)
    BY DEF LatestOf
  <2>5. v \in Versions
    BY <2>2 DEF IsLatestIn, StoredIn
  <2> HIDE DEF P
  <2>6. PICK x : x = LatestOf(o)' /\ x \in Versions /\ P(x)
    BY <2>2, <2>3, <2>4, <2>5
  <2> QED
    BY <2>3, <2>6
<1>9. rows'[new].meta.hold
  <2>1. CASE new = to
    BY <1>1, <1>2, <2>1
  <2>2. CASE new # to
    <3>1. new \in StoredIn(rows, o) /\ rows'[new] = rows[new]
      BY <1>2, <1>8, <2>2 DEF IsLatestIn, StoredIn
    <3>2. rows[new].at <= rows[old].at /\ rows'[old].at <= rows[new].at
      BY <1>5, <1>7, <1>8, <3>1 DEF IsLatestIn
    <3>3. old # to
      <4>1. CASE old = to
        <5>1. rows[new].at < time /\ rows'[old].at = time
          BY <1>2, <1>5, <3>1, <4>1 DEF IsLatestIn, StoredIn, Present
        <5> QED
          BY <1>3, <3>1, <3>2, <5>1 DEF StoredIn
      <4> QED
        BY <4>1
    <3>4. rows[old].at = rows[new].at
      BY <1>2, <1>3, <1>5, <3>1, <3>2, <3>3 DEF IsLatestIn, StoredIn
    <3>5. old = new
      BY <1>5, <3>1, <3>4 DEF TimesTellVersions, IsLatestIn, StoredIn, Present
    <3> QED
      BY <1>5, <3>1, <3>5
  <2> QED
    BY <2>1, <2>2
<1> QED
  BY <1>8, <1>9 DEF LatestHeld, IsLatestIn, StoredIn, Present

(* The latest version of an object stops being under legal hold only by a      *)
(* restart in memory or by a call that stores a release or an added version,   *)
(* for any number of overlapping calls and versions.                           *)
THEOREM HoldsEndByReleaseOrAdd == Spec => HoldEndsByReleaseOrAdd
<1> DEFINE Ended(v) == LatestHeld(Object[v]) /\ ~LatestHeld(Object[v])'
           Stores(r) == /\ call[r].pc \in Steps /\ call[r].op \in {"release", "add"}
                        /\ rows'[call[r].to] # rows[call[r].to]
           Reason(v) == \/ Restarting
                        \/ \E r \in Requests : Stores(r)
<1>1. IInv /\ TimesTellVersions /\ PlacedAreHeld /\ [Next]_vars
        => [\A v \in Versions : Ended(v) => Reason(v)]_vars
  <2> SUFFICES ASSUME IInv, TimesTellVersions, PlacedAreHeld, Next,
                      NEW v \in Versions, Ended(v), ~Restarting
               PROVE  \E r \in Requests : Stores(r)
    OBVIOUS
  <2>1. rows' # rows
    BY DEF LatestHeld, LatestOf, Present
  <2>2. PICK r \in Requests, time \in Nat :
              /\ IsUnderway(call[r]) /\ call[r] \in Calls /\ Stored(r, time)
              /\ Present(call[r].to) => \A w \in Versions : rows[w].at < time
    BY <2>1, StepsOfTheRows
  <2>3. call[r].op # "place"
    BY <2>2, HoldsStay, NextPreserves
  <2>4. rows'[call[r].to] # rows[call[r].to]
    BY <2>1, <2>2 DEF Stored, IInv, TypeOK, Calls
  <2> QED
    BY <2>2, <2>3, <2>4 DEF Calls, IsUnderway
<1> QED
  BY <1>1, TimesAndHolds, Invariant, PTL DEF Spec, HoldEndsByReleaseOrAdd
=============================================================================
