# A verification of the Collabio suite

TLA+ modules that model the parts of the suite (`src/app`) where several actors change
shared state, TLC configurations that model-check them on small instances, and TLAPS
proofs of the properties that matter most for every size of the instance. Paths below
are relative to `src/`; the rows of `PROJECT.json` under `map` say, for each
definition, which lines it models.

    tlc -config VectorIndexOverlap.cfg MCVectorIndex.tla    # one run; see "The runs"
    tlapm VectorIndexProofs.tla                             # one module of proofs

## 1. The system and its parts

The suite is one FastAPI process (`app/main.py`, deployed by `docker-compose.yml` next
to PostgreSQL) and a vector worker. The endpoints are plain `def` functions, so FastAPI
runs them in a pool of threads: **two requests interleave between any two Python
statements that touch shared objects, and between any two database transactions.**
Nothing in the modelled code takes a Python lock; what protects shared state is
PostgreSQL's constraints, row locks and one advisory lock.

| Part | State it keeps | Operations | Who else touches it | What is hard |
|---|---|---|---|---|
| **Vector index**: `rag/vector_worker.py`, `rag/pgvector_store.py`, `rag/source_indexing.py` | chunk rows of `vector_embedding_chunks`, each with a lifecycle state and an ACL version | reindex a source (mark, one upsert per chunk, delete orphans), propagate a deletion, transition one chunk | search reads the active rows; the ACL version comes from a resolver that was given it when it was built; worker audit events | each store call commits on its own; two jobs of a source overlap; a failure leaves a half-done reindex that nothing resumes |
| **Audit loggers**: `ai_control_plane/audit.py` | PostgreSQL: events, checkpoints, WORM exports; JSONL: a file and a list in memory | `record`, `create_checkpoint`, `record_worm_export`, `load`, verify | every other part records through `record` | gap-free numbering and hash linking under concurrency; torn writes and restarts (JSONL) |
| **Platform module registry**: `platform/modules.py`, endpoints of `main.py` | one state per tenant and module, in memory | provision, enable, disable, suspend, and the decommission workflow: request, block, cancel, reopen, complete | every module endpoint passes its gate; audit log | read a state, write a changed copy; a long protocol of guards and a validator; restart |
| **Knowledge base service**: `platform/knowledge_base.py` | articles, approval ledger, write receipts, source objects | dry run, approve, execute | four stores without a common transaction; audit log; module gate | failure between the stores; retries; approvals that grow stale; overlapping executions |
| **Source objects**: `storage/source_objects.py`, `source_object_storage.py`, `legal_hold.py`, `retention.py` | versions with their metadata: two dictionaries in memory, or catalog rows plus a content store | put, get, place and release a hold by adding a version, receipts | knowledge base, cryptoshredding, backup | content before catalog row, no common transaction; two policy files that both must accept a version; restart of the content store |
| **Keys**: `kms/`, `operations/restore_drill.py` | key versions destroyed (in memory), envelope and shred manifests, drill reports | encrypt, decrypt, rewrap, cryptoshred, restore drills | legal hold, retention | keys shared by many versions and destroyed on behalf of one; a restart forgets |
| **JSON registries**: `rag/embedding_model_admin.py`, `platform/tenant_policies.py`, `platform/admin_models.py` | a dictionary and a JSON file | register, approve, retire a model version; AI settings of a tenant | the indexing pipeline has read its model once | read, change a copy, write; a temporary file whose name all calls share; torn files |
| **Token verification**: `platform/context.py`, `platform/jwt_replay_store.py` | cached signing keys with their time, the table of token ids | verify: refresh when due, look up the key, refresh once more, check claims and replay | every request | a cache that threads empty and fill without a lock; key rotation, outages, stale keys; check, then insert |
| **Directory**: `platform/context.py`, `platform/authz_admin.py` | tables of principals, roles, groups, assignments, ACL and ABAC rows | resolve a request by five queries; eight upserts | every request; audit log | the tables change between the queries; event and upsert in different transactions |
| LLM gateway, retrieval and keyword search, parsers, benchmarks, voice guard, CRM/ERP views, legacy SQL discovery, migrations, API composition, data classes | none of their own, or read only | functions of one request | audit log, module gate | little that depends on order |

What makes them correct:

- *Vector index*: a row a reindex hides is shown again or deleted by somebody; a deleted
  row does not come back; search does not see a mix of two ACL versions; a command that
  names the current ACL version does not bring back an older one.
- *Audit*: every tenant has one chain that verifies at every moment; nobody loses an
  event to a race; checkpoints keep describing a prefix; no event that a caller was told
  of is missing after a restart.
- *Modules*: no enabling before provisioning; compliance access ends only with a
  completed decommission; the audit trail misses no change; decommissioning is final.
- *Knowledge base*: nothing published without source and receipt; nothing executed twice;
  unique keys; articles change by approved proposals only, and these are audited.
- *Source objects*: what is stored can be read and passes its checks; a call that failed
  has stored nothing; versions do not change; a hold ends by a release or a new version.
- *Keys*: shredded content stays unreadable; what is retained or held stays readable;
  a drill does not restore what was shredded.
- *JSON registries*: finished changes survive a restart and the file can always be
  loaded; retirements and approvals are not undone; every entry is told of by an event.
- *Tokens*: withdrawn keys stop being trusted, published ones are; a token is accepted
  once; a verification ends.
- *Directory*: a request gets what one moment's tables grant; refusals have a cause;
  changes are made by administrators; the audit log tells what the tables hold.

## 2. The modules

`AuditLog` is the abstract specification of the loggers: `PgAuditStore` and
`JsonlAuditLog` implement it. `SourceVersions` is the abstract specification of the
source object store: `SourceCatalog` implements it, and `KeyLifecycle` extends it, so
that keys are shredded under versions that are added, held and released meanwhile.
`RetentionRules` holds the pure rules both build on. The other components meet through
the audit log and the module gate only, by calls whose effect on the caller is "it
returned" or "it raised"; each module therefore models these calls in place (a failing
call is part of `Fail`, `Rollback`, `UpsertFails`, ...) instead of composing everything.

Each component `X` has `X` (the model and its properties) and `MCX` (the values that TLC
uses). Its proofs are in `XProofs`, except that `AuditLogProofs` is about both loggers and
`RegistryProofs` about `ModuleLifecycle` and `JsonRegistries`.

### `VectorIndex`

The rows of **one source version**. `rows` is the table, one row per model version and
chunk; `job` the jobs handed to the worker; `aclNow` the ACL version of the source
metadata; `touched` a history variable, the rows an operator moved by hand.

| Action | Code |
|---|---|
| `BeginReindex`, `BeginDeletion` | `index_source` up to the first store call, with the worker's validation, which compares the command's `expected_acl_version` with the resolver's version a second time |
| `MarkSourceForReindex` | the `UPDATE` active → reindex_pending |
| `UpsertEmbedding` | one `INSERT ... ON CONFLICT DO UPDATE ... WHERE`, a silent no-op on a tombstone |
| `DeleteReindexOrphans` | the `UPDATE` of pending rows that are not chunks of this job |
| `TransitionSourceLifecycle` | `propagate_deletion` |
| `Complete`, `Fail` | the completed event; an exception or a dead process at any point |
| `TransitionLifecycle` | the single-chunk transition |

Every store call opens a connection and commits before it returns: one call is one
atomic action, and calls of different jobs interleave freely.

`RepositorySourceResolver` answers with the ACL version it was built with, and a command
names a version, or none (`Expectations`), that may have been made at any time before. Both
are therefore any version up to `aclNow`; the code compares them with each other and with
nothing else, and neither does the upsert compare with the row. `job.command` is history:
whether the command named the version that was current when the job began. The ACL *hash*
of a command is left out: it covers tenant, object, version and classification and stays
the same when the ACL changes.

`Overlapping = FALSE` adds
the assumption that the jobs of one source run one after the other. **The code does not
enforce that**; it holds where one worker works off a queue. The properties about ACLs need
it, the others are checked and proved without it.

### `AuditLog`, `AuditEvents`, `PgAuditStore`

`AuditLog`: one sequence of events per tenant, to which a step appends one new event.
`AuditEvents` declares the events and the first link of a chain, for both loggers.

`PgAuditStore`: `events`, `evidence` (checkpoints) and `exported` (WORM exports) hold
what is **committed**; `lock` is `pg_advisory_xact_lock` per tenant; `session` the
transaction of each call, with what it has read so far. One action per SQL statement:
`LockTenantChain`, `ReadTail` or `ReadChain`, `InsertEvent` or `InsertCheckpoint`, commit,
and `Rollback` at any point. Statements read what is committed when they start
(READ COMMITTED, PostgreSQL's default, which the code does not change). The primary key
and unique constraints of migration 0014 are modelled as they act: an insert waits for an
uncommitted row of the same key and fails on a committed one. A hash stands for
everything it covers, so an event stands for its hash. Two tenants whose lock ids
collide would block each other more, never less; the model leaves collisions out.

### `JsonlAuditLog`

`file`, `memory` (the list of each process), `terminated` (whether the last line ends in
a newline), and each thread's call: `BeginRecord` reads the previous hash, `BuildEvent`
the length, `WriteLine` appends to the file, `AppendEvent` to the list. An interrupted
write leaves nothing, part of the line, or all but the newline; the next line is then
glued to it. `Restart` loads the file, or refuses to start. `returned` is a history
variable: what callers were told. This logger is the code's default;
`docker-compose.yml` gives the API the PostgreSQL one.

### `ModuleLifecycle`

One module of one tenant. An administrator's call is three or four steps: `Begin` (the
endpoint records the audit event **before** it calls the registry), `ReadState` with the
operation's guards, for a decommission request a second read (`DecommissionCheck`), and
`Upsert`, which stores a changed copy of what was read if `TenantModuleState`'s validator
accepts it. `Restart` brings the seed back: the registry is in memory. The timestamps and
reference lists that each workflow step leaves are the set `evidence`; features are
"some" or "none".

### `KnowledgeBaseWrite`

`articles` maps each article to its current version; a *version* stands for the proposed
version with its source object and source version, whose ids come together from one dry
run. `ledger` is the approval evidence, `receipts` and `sources` the two stores that are
written before the article, `executed` counts audit events, `call` the requests under
way. `execute_write` is the sequence `Execute` (everything that is verified first) →
`AppendReceipt` → `AddSource` → the article repository → `RefreshEvidence` (evidence is
built again and compared, then the execution is audited). PostgreSQL's repository applies in one
transaction (`ApplyInTransaction`); the one in memory, which `main.py` deploys, copies a
tuple and replaces it later (`CopyArticles`, `ReplaceArticles`). `Restart` keeps ledger and
receipts and, with the repositories in memory, brings the demo articles back.
Source-version evidence is a function of the current version and restore evidence one of
all articles, so the article map stands for their hashes.

### `RetentionRules`, `SourceVersions`, `SourceCatalog`

`RetentionRules` has the metadata of a version, with what the checks tell apart (data
class, object type, lifecycle, policy, hold, key reference, whether its timestamps have
the canonical form, whether its hash fits), and the rules: the guard of the record, the
retention policies with what their validators accept, the retention manifest, the bucket
profiles with their lock modes, and what reading from the database gives back. Policies
and buckets are CONSTANTS restricted by the validators of the two policy files.

`SourceVersions`: versions are written once; a hold or release writes another version.

`SourceCatalog` has both repositories (`backend`). Over PostgreSQL a call is `Put` (the
content store, in memory, which is the only one there is), `Begin`, then `Commit` or
`InsertFails` (unique key, receipt, lost connection), and for holds `Manifest`, which
builds the retention manifest again after the write. In memory it is `Check`, then
`Store`. `at` is the time of the transaction, which tells the versions of different calls
apart; `Restart` empties what is in memory.

### `KeyLifecycle`

`destroyed` is the adapter's set in memory, `envelopes` the key versions each version has
an envelope manifest for, `shreds` and `reports` the evidence with the run of the process
it stems from. `Shred` is `cryptoshred` with retention, hold, lifecycle and key checks;
`Rewrap` adds an envelope under a later key version and leaves the old one; the two drills
are `EncryptedRestoreDrill` and `ShreddedRestoreDrill`. Nothing in `src` calls these
services from several threads, so a call is a step.

### `JsonRegistries`

`registry` chooses the behaviour of the embedding models or the tenant policies, which
share the way they write. `memory` is the dictionary; `disk` the content of every file
that was created; `file` and `temp` which of them has the registry's and the temporary
name, since a rename moves a file that another call may have open. A call is the read with
its guards (`Register`, `Approve`, `Retire`, `UpdateTenantAiSettings`), `Upsert` into the
dictionary, `ListRows`, `Open` (truncates), `Flush`, `Replace` and `Audit`; `WriteFails` and
`AuditFails` can take each step's place. `BuildPipeline` and `IndexSource` are the pipeline
that keeps the model version it was built with. `alone` says whether no other call has
been writing meanwhile.

### `TokenVerification`

The key cache of one issuer and the replay table. A call refreshes when the cache is due
(`FetchKeys` or `FetchFails`, `Clear`, `Install`, `Stamp`: separate statements without a
lock), looks for the key (`Key`), refreshes once more when it is missing, checks `Claims`,
then `Contains` and `Record`. The clearing comprehension iterates over a dictionary that
another thread may grow: `ClearIsDisturbed`. Times are ages that stop where they make no
difference: `age` of the cache, `withdrawn` of each key, `lag` of a call since it read the
clock. `steady` and `alone` are history: the key was published all the time, nobody
else was refreshing.

### `AuthzDirectory`

`row` are the eight tables by primary key, `log` the audit events, `call` the requests. A
request is resolved by `ReadPrincipal`, `ReadMembership`, `ReadRoles`, `ReadGroups` and
`ReadObjects`; an administrator then records an event (`RecordEvent`) and upserts
(`Upsert...`) unless a constraint or the database refuses (`UpsertFails`). `before` and
`changes` are history: what the tables granted at the start, and how many upserts of
others were committed since. `muddled` are the keys with events that overlapped or were
left without an upsert.

## 3. The runs

The properties of a run are about hazards; the type invariants of the modules are
proved (section 4) and not checked by TLC as well.

| Run (cfg) | Instance | Distinct states | Shows |
|---|---|---|---|
| `vector_overlap` (`VectorIndexOverlap`) | 3 overlapping jobs, 1 model, 2 chunks | 648,097 | hidden rows are owed, tombstones stay, and, under fairness, hidden rows are resolved |
| `vector_serial` (`VectorIndexSerial`) | 3 serial jobs, 1 model, 2 chunks, 2 ACL versions, commands naming either or none | 2,695,561 | visible ACL uniform; only a stale command brings back an older version |
| `pg_audit` (`PgAuditStore`) | 3 sessions, 2 tenants, 2 events | 20,613 | chains verify, no conflict, evidence holds, refinement of `AuditLog`, calls end |
| `jsonl_audit` (`JsonlAuditLog`) | 1 process, 1 thread, 4 events | 14,556 | file verifies after failed writes and crashes, restarts keep what was returned, refinement of `AuditLog` |
| `jsonl_threads` (`JsonlAuditLogThreads`) | 1 process, 2 threads, 2 events | – | **violated**: two threads fork the chain |
| `modules` (`ModuleLifecycle`) | 2 administrators | 585,834 | compliance access and audit trail under stale writes; only a stale write or a restart undoes a decommission |
| `kb_write` (`KnowledgeBaseWrite`) | 3 articles (2 with one key), 3 versions, 3 proposals, 2 requests, both repositories | 162,585 | source and receipt before publication, executed once, unique keys, approved transactions |
| `source_catalog` (`SourceCatalog`) | 3 calls, 2 at a time, 3 versions of one object, 4 policies, 3 buckets, both repositories, 1 restart | 198,895 | stored versions are readable, only failures leave content behind, holds end by releases or new versions, refinement of `SourceVersions` |
| `key_lifecycle` (`KeyLifecycle`) | 3 versions, 2 key versions, 3 policies, 2 days, 1 restart | 408,382 | what shredding makes unreadable and when, what it must not, no restore after a shred |
| `json_registries` (`JsonRegistries`) | 3 calls, 2 at a time, 2 entries, both registries | 2,629,998 | finished changes survive restarts, changes stay, entries are audited, only approved models index |
| `token_verification` (`TokenVerification`) | 2 threads, 2 keys, 1 token, intervals of 1, both outage policies | 749,332 | how long a withdrawn key is trusted, that a published one is, a token accepted once, verifications end |
| `authz_directory` (`AuthzDirectory`) | 2 requests, 2 subjects, 3 users, 1 role, 1 group, 3 ACL entries, 2 events | 1,201,336 | snapshots, refusals, changes by administrators, log and tables |

**Bounds.** Jobs, sessions, administrators, callers: two are needed for a race, and a
third where somebody must wait for, or come after, two others (jobs, sessions, requests
of registries and catalog, of which two are under way at a time: `MaxPending`). Two
chunks tell "one of the job's chunks" from "an orphan" and allow a partial reindex; two
ACL versions tell old from new. Two events on one tenant make a chain with a predecessor,
two tenants show that chains do not mix. Four JSONL events are one before, one during and
two after a failure or crash. Three proposals are two rivals and a repetition. Three
versions of an object are one, its hold and its release; one key version can be shared by
two of them while the second allows a rewrap. `MaxReceipts = 1` tells versions with a
receipt from others. One day separates "retained" from "expired". Refresh interval, grace
time and call time of one unit each make every comparison of ages come out both ways. Two
events of the directory are two upserts that can meet one request between its five
queries. `NChunks`, `MaxAcl`, `Events`, `Versions`, `Proposals`, `Requests`, `MaxPending`,
`MaxReceipts`, `MaxRestarts`, `MaxDays`, `MaxEvents` and `MaxCallTime` are the only bounds
on growth; each is a constant, in the guard of the action it bounds. In the theorems they
are arbitrary.

**Deadlock** is checked in `token_verification` and `authz_directory`, whose processes
serve requests for ever. The other cfgs have `CHECK_DEADLOCK FALSE`: events, jobs,
proposals, versions or calls are bounded sets that are used up, after which nothing need
happen; the code, too, may just have no request.

**Symmetry** permutes jobs, administrators, callers, requests, proposals and versions, and
only in runs that check no liveness.

**Fairness.** `VectorIndex!FairSpec`: the thread of a running job keeps being scheduled
(`WF` on its next store call); `Fail` stays possible at any time, so the property excuses
failed jobs. `PgAuditStore!FairSpec`: strong fairness of each session's next statement.
Weak fairness would not do, since the advisory lock is enabled and disabled as others take
it; PostgreSQL grants it in the order of the requests, which is what strong fairness
stands for. `TokenVerification!Fairness`: weak fairness of a thread's next step, since a
fetch ends by its timeout with or without an answer and everything else does not wait.
Nothing is assumed of administrators, callers, the issuer or the clock.

**Mutants.** Each property of a passing run comes with a variant of a definition (a
dropped guard, a swapped order, an off-by-one), named in `PROJECT.json`, under which TLC
finds it violated. The variants stand in the modules just before the definition they
vary, and nothing else uses them.

## 4. What is proved

All theorems are proved for every value of the constants that satisfies the modules'
`ASSUME`s: a chunk count of at least one; names that differ; a spoiled line that is no
record (`LinesAssumption`) and a chain's start that is no event (`GenesisAssumption`); demo
articles with keys of their own; policy files that their validators accept; a seeded
directory whose foreign keys hold, and a refusal that no context equals
(`RefusedAssumption`). They are safety properties, each by an inductive invariant that TLC
found no counterexample to before. Three theorems have a hypothesis: `OneVisibleAcl` and
`RegressionsAreStale` are about jobs that run one after the other, `OneWriterVerifies` about
one process with one thread.

- **`VectorIndexProofs`**: `TypeCorrectness`, `HiddenRowsAreOwed`, `TombstonesAreKept` for
  arbitrary interleavings; `OneVisibleAcl` and `RegressionsAreStale` for serial jobs.
  `PendingIsOwed` becomes inductive with the counters' types (a running reindex knows its
  size and ACL): a mark makes the job owe every row it hides, and `Owes` ends for a chunk
  exactly with the call that resolves it. The ACL theorems rest on `SerialInv`: at most
  one job runs, and once it has marked, whatever is active in its model version was
  written by it. `RegressionsAreStale` rests on `AclOrder`: nothing carries a newer ACL
  version than the source, and a running reindex whose command was fresh carries one that is
  no older than any row, since it was compared with the version current at its start.
- **`AuditLogProofs`**, about `PgAuditStore`: `TypeCorrectness`, `ChainsVerify`, `SequencesAreFree`,
  `EvidenceStaysTrue`. The invariant says that who has read the chain holds the lock
  (`HoldsLock`), so that the tail it read is still the tail (`TailKnown`) and the
  evidence it computed still true (`SeenKnown`) when it commits; `Counted` ties the last
  number to the number of rows, which makes the checkpoint's count right.
  `Refinement`: the store implements `AuditLog`. A commit adds the row with the next
  number, and a set of rows with one more, later row is the longer sequence
  (`ChainAppends`); that the event is new is `Fresh`: its id belongs to one call, and no
  other step begins a record call or gives it another event (`OthersBeginNoRecord`).
- **`AuditLogProofs`**, about `JsonlAuditLog`: `LogTypeCorrect`, `ReturnedSurviveRestart`
  (the property `RestartKeepsReturned`) and `LogIsImplemented` (`ImplementsOneLog`) for any
  number of processes and threads, and `OneWriterVerifies` (`FileVerifies`). What
  is kept without a lock rests on the file: it changes at its end only, and a line once
  spoiled stays spoiled, so that a file that can be read has every line it had. Hence what
  was returned is a line of it or the file can never be read again (`ReturnedAreRead`); two
  lines have different events since a call's event is in no line and in no other call
  (`EventsDiffer`). The refinement ranks the whole lines of the file by their position
  (`Ranked`): a line that a step adds has the next rank, and all the others keep theirs.
  With one writer the list is the file, as long as lines end and but for the line just
  written (`ChainInv`), so that the line it has built continues the chain; the run
  `jsonl_threads` shows that two threads break it.
- **`RegistryProofs`**, about `ModuleLifecycle`: `TypeCorrectness`, `ProvisionedBeforeEnabled`,
  `ComplianceIsNotOptional`, `EveryChangeIsAudited`, `OnlyStaleWritesUndo`. Writes replace
  states nobody has looked at, so the proof never uses the state that is replaced: what an
  operation makes of **any** state it allows and the validator accepts is fine
  (`ChangedIsFine`), and a call about to write has checked the state it carries
  (`CheckedState`). No operation is allowed in a decommissioned module
  (`NothingAfterDecommission`), so a write that changes one has seen another state.
- **`RegistryProofs`**, about `JsonRegistries`: `RegistryTypeCorrect`, `EntriesAreTold`
  (`EntriesAreAudited`), `OnlyApprovedIndex` (`IndexedWasApproved`), `OnlyStaleCopiesUndo`
  (`ChangesStay`) and `FinishedChangesSurvive` (`FinishedSurvivesRestart`). Every entry, in
  the dictionary, in a file or in the rows a call carries, is a seed, is told of by an
  event, or was made by a call that has not recorded its event (`EntriesAreKnown`, with the
  entries of the registry's kind, `OneKind`). A copy keeps what its operation does not set
  (`CopiesKeep`), so an entry is undone only by a call that saw an older one. For the
  restart: the registry's and the temporary name are of two files (`FilesDiffer`) and, while
  no two calls have been writing at the same time, what a restart would load is the
  dictionary, but for the entries of calls that are writing, have failed or were lost
  (`FileIsCurrent`).
- **`KnowledgeBaseWriteProofs`**: `TypeCorrectness`, `NothingPublishedWithoutSource`,
  `EveryVersionExecutedOnce`, `KeysStayUnique`, `TransactionsAreApproved`. The receipt
  is the lock of a version: who passed `AppendReceipt` owns the version, owners of one
  version do not coexist (`OwnersDiffer`), and an executed version has no owner any more
  (`ExecutedIsApproved`). Copies of the articles that the in-memory repository carries
  are sound by themselves (`CopyIsSound`), which is why lost updates break neither key
  uniqueness nor sources.
- **`SourceCatalogProofs`**: `TypeCorrect`, `StoredCanBeRead`, `ContentHasAReason`,
  `FailuresAreWithoutVersion`, `RecordsHaveALock`, `VersionsStay`, and `Refinement`: over
  PostgreSQL the catalog implements `SourceVersions`. A call past a step knows what the step
  established (`CallsAreChecked`) and a row knows it of the call that stored it
  (`RowsWereChecked`); transactions have times of their own (`TransactionsAreDistinct`), so
  that a failed call's version is nobody's; every call's metadata comes from a draft or
  from a version that is there and does not change (`CallsHaveAnOrigin`).
  `HoldsEndByReleaseOrAdd`: the times tell the stored versions apart (`TimesTellVersions`)
  and a placed version is under hold (`PlacedAreHeld`). Which version is the latest is
  therefore determined; a latest one exists since times are numbers below the clock's,
  among which one is the greatest (`LatestExists`). A call that places a hold stores one more
  held version, before or after the latest one.
- **`KeyLifecycleProofs`**: `TypeCorrect`, `ShredIsEffective`, `EvidenceIsUnique`,
  `RetentionIsKept`, `OnlyShredsLose`, `DrillsRespectShreds`. A version is written under a
  key of its class (`KeysOfTheirClass`), its envelopes bear that key version or a later one
  (`EnvelopesOfRecords`), the key of a shred manifest of this run is destroyed
  (`ShredsAreDestroyed`), and a destroyed key is that of a record which the retention rules
  had released (`DestroyedWereReleased`), which stays so since versions never change.
- **`TokenVerificationProofs`**: `TypeCorrect`, `AcceptedOnce`, `Trusted`, `TrustIsLimited`. An
  accepted token is
  recorded (`AcceptedIsRecorded`). While a call counts as alone nobody else refreshes
  (`OthersWait`), so the key it has fetched, which is published all the time, is in the
  fetched set, then in the cache, and there when it looks again (`KeyIsFetched`).
  The limit of trust has an invariant of its own, `TrustInv`, which adds up ages: a fetched key
  is as old as the call that fetched it (`FetchedIsRecent`); what is in the cache when a call
  dates it was fetched by a call that overlapped this one (`CacheIsRecent`), so a dated cache
  is at most two call times behind (`DatedCache`); and a key is looked up only in a cache that
  was recent enough when the call read the clock (`CacheIsUsable`), a third call time before.
- **`AuthzDirectoryProofs`**: `TypeCorrect`, `RowsAreTold`, `LogIsComplete`,
  `RefusalsHaveACause`, `ReadsAreOneLook` (`OneChangeIsASnapshot`) and `AdminsChange`
  (`ChangedByAdmins`). A row refers to an event that is never changed; of a key that is not
  muddled at most one upsert is under way (`OneUpsertAtATime`), and it is that of the last
  event (`LastEventIsUpserted`), so that the upsert makes the row what the last event says.
  The last two theorems relate what a request ends with to the tables it began with.
  As long as one change was committed meanwhile, there are tables, those at the start or
  those of now, that differ in one row at most and one of which tells all that the request
  has read (`OneLook`). Each query that follows reads other rows than those before it, so it
  finds the same in both or has the changed row to itself (`OneQueryDiffers`).

**Only model-checked**: liveness under fairness (`PendingResolved`, `EveryCallEnds`,
`VerificationsEnd`), which is out of the prover's reach. That `FileVerifies` needs one
writer, and the statements of section 5, are counterexamples of TLC. All the other
properties of the runs are theorems.

## 5. Where code and documents disagree

`JsonlAuditLogger.record` is not safe for the threads that call it (run `jsonl_threads`):
two events get the same number and predecessor, and the file is refused at the next start.

Further statements that TLC refutes. Each is a definition of its module with a cfg that is
not among the runs; `tlc -config <cfg> MC<module>.tla` shows the counterexample:

| cfg | Definition | Statement | What the code does |
|---|---|---|---|
| `VectorIndexModelScope` | `DeletionReachesAllChunks` | `docs/VECTOR_INDEX_MODEL.md:91`: `propagate_deletion` moves all chunks for a source version | the `UPDATE` is restricted to the store's own model version |
| `VectorIndexStaleCommand` | `AclNeverRegresses` | `docs/VECTOR_INDEX_MODEL.md:43`: `acl_version` is copied from authoritative source metadata (so that a row would not go back to an older one) | the resolver's version is fixed when it is built; a command as old as the resolver, or one that names no version, is accepted after the ACL has changed |
| `ModuleLifecycleLostUpdate` | `DecommissionedIsFinal` | no guard leads out of `decommissioned` | `upsert_tenant_module` stores copies of states read earlier, without lock or version |
| `ModuleLifecycleDisable` | `EnabledCanBeDisabled` | `COMPLIANCE_MATRIX.md` CM-016: modules can be disabled tenant-wise | a cancelled decommission leaves `decommission_cancelled_at_utc` for good; the validator then refuses the disabled copy of a module with features on |
| `KnowledgeBaseWriteLostUpdate` | `ChangesApproved` | articles change by approved proposals applied to the version they were approved for | `apply_write` of the in-memory repository loses updates |
| `KnowledgeBaseWriteUnaudited` | `AppliedIsAudited` | an execution that is applied is audited | `execute_write` compares the evidence of **all** articles after its writes; another article written meanwhile makes it raise before the event |
| `JsonRegistriesRetired` | `RetiredIsNotUsed` | `docs/VECTOR_INDEX_MODEL.md:116`, `docs/MODEL_REGISTRY.md:64`: a retired version is not used for indexing | the pipeline reads its model once, when it is built |
| `KeyLifecycleHeld` | `HeldStaysReadable` | `docs/LEGAL_HOLD_API.md:72`: an active legal hold blocks cryptoshredding | the hold of the version that is shredded is checked; its key is shared by versions of the same class, held ones included, and by a version that a hold was added to later |

Behaviour the models show that no document contradicts: the upsert of
a tombstone counts as written when a source grows again; a module disabled while merely
available can neither be provisioned nor enabled; a refused lifecycle call leaves its
audit event; an approved write that failed after its receipt cannot be repeated; two
processes that share a JSONL file break its chain (set `Processes` to two); a restart
forgets module changes and the local adapter's destroyed keys; a version whose timestamps
are not in the database's form cannot be read back through `PgSourceObjectRepository`;
with two upserts between its queries a request can be granted what no single state of the
tables grants; two writers of a registry file can leave an older content on disk or
none that loads, which is why `FinishedSurvivesRestart` speaks of calls that do not
overlap; the bound of `TrustEnds` is
reached, so it cannot be lowered.

## 6. What is not modelled, and why

Within the modelled parts: embeddings, SQL text, row level security, search and ranking
(read-only); the worker's audit events (the order of store calls does not depend on
them); the metadata of audit events; the contents of articles. Hashes, HMACs and
encryption are ideal. Disk errors that corrupt what was written before are out of scope,
and so is a commit whose acknowledgement is lost: a `Rollback` or a failed insert has
changed nothing. Of source objects, ids and hashes are left out where the checks cannot
tell them apart. Of token verification: the JSON replay store, static key sets, the
header based resolver of development, the health view.
Of the directory: the in-memory store, which tests use, and other tenants. The
registries of models, prompts and tools are loaded like the two modelled ones and never
written. The in-process key adapter is the only one in the repository.

Two limits bear on what `TokenVerification` shows. *Issuers*: there is one. All issuers share
the dictionary `self._keys`, and a refresh of another one replaces it by a copy
(`context.py:468`) that may have been made before this issuer's keys were dropped: withdrawn
keys are back, those just fetched are lost, and the cache is dated as fresh. So `TrustEnds`,
`TrustIsLimited` and `PublishedIsTrusted` hold for a deployment with one issuer, or where
refreshes of different issuers do not overlap. *Purge*: rows of the replay table are never
deleted. The administrator's purge (`authz_admin.py:733-757`) deletes those whose token expires
at or before a time that the caller names, while `context.py:492` accepts a token within
`allowed_clock_skew_seconds`, 30 by default, after its expiry, and a call in progress has
checked it earlier still. So `TokenAcceptedOnce` and the theorem about it hold for tokens whose
rows no purge has deleted; a purge must name a time that lies more than the skew, and what a
verification takes, in the past.

Other parts: database migrations run in one transaction under an exclusive table lock, so
nothing interleaves. The LLM gateway, retrieval and keyword search, parsers, benchmarks,
the voice guard, CRM/ERP views, legacy SQL discovery, data classes and the API composition
apart from the endpoints above keep no state, or no step of theirs depends on an earlier
one. `PROJECT.json` has the reason for each.
