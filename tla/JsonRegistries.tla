---------------------------- MODULE JsonRegistries ----------------------------
(***************************************************************************)
(* Registries that are dictionaries in memory and JSON files on disk: the  *)
(* embedding model versions with their administration (register, approve,  *)
(* retire), and the tenant policies with the AI settings endpoint.  The    *)
(* endpoints run in threads of one process.  A call reads an entry, puts a *)
(* changed copy of it into the dictionary, writes all entries to a         *)
(* temporary file whose name all calls share, renames that file over the   *)
(* registry's file, and records an audit event.  A start of the process    *)
(* loads the file, and fails when it is not valid JSON.                    *)
(*                                                                         *)
(* The indexing pipeline reads its model version once, when it is built.   *)
(* The registries of models, prompts and tool permissions are loaded in    *)
(* the same way and never written.                                         *)
(***************************************************************************)
EXTENDS Naturals, FiniteSets

CONSTANTS
    Requests,       \* calls, each made once
    Registries,     \* which of the two is looked at
    Keys,           \* model versions, or tenants
    SeededKeys,     \* those that are in the file when the process starts
    Classes,        \* data classes that source objects are indexed with
    MaxPending,     \* bound on the calls that are under way at the same time
    Missing,        \* no entry, or no temporary file
    Garbled         \* content of a file that is no JSON, an empty one included

ASSUME RegistriesAssumption ==
    /\ Registries \subseteq {"embedding_models", "tenant_policies"}
    /\ SeededKeys \subseteq Keys
    /\ Classes # {}

VARIABLES
    registry,       \* the registry that this behaviour is about
    up,             \* the process has started
    memory,         \* entry of each key
    disk,           \* content of each file that was created: the first, and one per call
    file, temp,     \* which of them have the registry's name and the temporary one
    calls,
    told,           \* entries that audit events tell of
    pipeline,       \* model version the indexing pipeline was built with
    indexed         \* model versions and data classes that were indexed

regVars == <<registry, up, memory, disk, file, temp, calls, told, pipeline, indexed>>

EmbeddingModelVersions ==
    [classes: (SUBSET Classes) \ {{}}, approved: BOOLEAN, retired: BOOLEAN]
TenantPolicies == [ai: BOOLEAN, rag: BOOLEAN]
Entries == EmbeddingModelVersions \cup TenantPolicies

First == "first"
Files == Requests \cup {First}
Rows == [Keys -> Entries \cup {Missing}]

ASSUME NamesAssumption ==
    /\ First \notin Requests
    /\ Missing \notin Files
    /\ Garbled \notin Rows

\* What each operation is there to change.
Sets ==
    [register |-> {"classes", "approved", "retired"}, approve |-> {"classes", "approved"},
     retire |-> {"retired"}, set_ai |-> {"ai"}, set_rag |-> {"rag"}]
Operations == DOMAIN Sets

Writing == {"rows", "open", "flush", "replace"}
Running == {"upsert", "audit"} \cup Writing
Unfinished == Running \cup {"failed", "lost"}
Calls ==
    [pc: Unfinished, op: Operations, key: Keys, seen: Entries \cup {Missing}, new: Entries,
     rows: Rows \cup {Missing},      \* the entries it is going to write
     handle: Files \cup {Missing},   \* the file it has open
     alone: BOOLEAN]                \* no other call has been writing at the same time
Others == [pc: {"new", "done"}, alone: BOOLEAN]

RegTypeOK ==
    /\ registry \in Registries
    /\ up \in BOOLEAN
    /\ memory \in Rows
    /\ disk \in [Files -> Rows \cup {Garbled}]
    /\ file \in Files /\ temp \in Files \cup {Missing}
    /\ calls \in [Requests -> Calls \cup Others]
    /\ told \subseteq Keys \X Entries
    /\ pipeline \in {Missing} \cup (Keys \X EmbeddingModelVersions)
    /\ indexed \subseteq Keys \X Classes

DefaultEntry(kind) ==
    IF kind = "embedding_models"
    THEN [classes |-> Classes, approved |-> TRUE, retired |-> FALSE]
    ELSE [ai |-> TRUE, rag |-> TRUE]
SeedRows(kind) == [k \in Keys |-> IF k \in SeededKeys THEN DefaultEntry(kind) ELSE Missing]

RegInit ==
    /\ registry \in Registries
    /\ up = TRUE
    /\ memory = SeedRows(registry)
    /\ disk = [f \in Files |-> IF f = First THEN SeedRows(registry) ELSE Garbled]
    /\ file = First /\ temp = Missing
    /\ calls = [r \in Requests |-> [pc |-> "new", alone |-> TRUE]]
    /\ told = {}
    /\ pipeline = Missing
    /\ indexed = {}

-----------------------------------------------------------------------------
Embedding == registry = "embedding_models"
InStep(r, pc) == calls[r].pc = pc
Goes(r, pc) == calls' = [calls EXCEPT ![r].pc = pc]

\* A call reads the entry, checks it and makes the copy it will store.  Calls that are
\* refused change nothing and are left out.
Reads(r, op, k, new) ==
    /\ up /\ InStep(r, "new")
    /\ Cardinality({q \in Requests : calls[q].pc \in Running}) < MaxPending
    /\ calls' = [calls EXCEPT ![r] =
                 [pc |-> "upsert", op |-> op, key |-> k, seen |-> memory[k], new |-> new,
                  rows |-> Missing, handle |-> Missing, alone |-> TRUE]]
    /\ UNCHANGED <<registry, up, memory, disk, file, temp, told, pipeline, indexed>>

RegistrableAgain(k) == k \in Keys
Registrable(k) == memory[k] = Missing
Register(r, k, classes) ==
    /\ Embedding /\ Registrable(k)
    /\ Reads(r, "register", k, [classes |-> classes, approved |-> FALSE, retired |-> FALSE])

\* The request can name other classes than the version was registered with.
Approved(m, classes) == [m EXCEPT !.classes = classes, !.approved = TRUE]
Approve(r, k, classes) ==
    /\ Embedding /\ memory[k] # Missing
    /\ ~memory[k].approved /\ ~memory[k].retired
    /\ Reads(r, "approve", k, Approved(memory[k], classes))

Retire(r, k) ==
    /\ Embedding /\ memory[k] # Missing
    /\ ~memory[k].retired
    /\ Reads(r, "retire", k, [memory[k] EXCEPT !.retired = TRUE])

\* The policy is read with the request's context, before its body is looked at.
UpdateTenantAiSettings(r, k, value) ==
    /\ ~Embedding /\ memory[k] # Missing
    /\ \/ Reads(r, "set_ai", k, [memory[k] EXCEPT !.ai = value])
       \/ Reads(r, "set_rag", k, [memory[k] EXCEPT !.rag = value])

-----------------------------------------------------------------------------
\* The dictionary is changed first.
UpsertEntry(r) ==
    /\ InStep(r, "upsert")
    /\ memory' = [memory EXCEPT ![calls[r].key] = calls[r].new]
    /\ LET others == {q \in Requests \ {r} : calls[q].pc \in Writing}
       IN  calls' = [q \in Requests |->
                     IF q = r THEN [calls[r] EXCEPT !.pc = "rows", !.alone = others = {}]
                     ELSE IF q \in others THEN [calls[q] EXCEPT !.alone = FALSE]
                     ELSE calls[q]]
    /\ UNCHANGED <<registry, up, disk, file, temp, told, pipeline, indexed>>

ListRows(r) ==
    /\ InStep(r, "rows")
    /\ calls' = [calls EXCEPT ![r].pc = "open", ![r].rows = memory]
    /\ UNCHANGED <<registry, up, memory, disk, file, temp, told, pipeline, indexed>>

OpenInPlace(r) ==
    /\ InStep(r, "open")
    /\ temp' = file
    /\ disk' = [disk EXCEPT ![file] = Garbled]
    /\ calls' = [calls EXCEPT ![r].pc = "flush", ![r].handle = file]
    /\ UNCHANGED <<registry, up, memory, file, told, pipeline, indexed>>

\* Opening the temporary file for writing empties it, or creates it.
Open(r) ==
    /\ InStep(r, "open")
    /\ LET f == IF temp = Missing THEN r ELSE temp
       IN  /\ temp' = f
           /\ disk' = [disk EXCEPT ![f] = Garbled]
           /\ calls' = [calls EXCEPT ![r].pc = "flush", ![r].handle = f]
    /\ UNCHANGED <<registry, up, memory, file, told, pipeline, indexed>>

\* The text goes to the start of the file that was opened, whatever its name is by now;
\* the end of a longer text that another call has put there stays.
Flush(r) ==
    /\ InStep(r, "flush")
    /\ \E content \in {calls[r].rows} \cup
                      (IF disk[calls[r].handle] \in {Garbled, calls[r].rows}
                       THEN {} ELSE {Garbled}) :
          disk' = [disk EXCEPT ![calls[r].handle] = content]
    /\ Goes(r, "replace")
    /\ UNCHANGED <<registry, up, memory, file, temp, told, pipeline, indexed>>

\* Path.replace raises when there is no temporary file any more.
Replace(r) ==
    /\ InStep(r, "replace")
    /\ IF temp = Missing
       THEN Goes(r, "failed") /\ UNCHANGED <<file, temp>>
       ELSE Goes(r, "audit") /\ file' = temp /\ temp' = Missing
    /\ UNCHANGED <<registry, up, memory, disk, told, pipeline, indexed>>

\* The disk may be full when the file is created or written.
WriteFails(r) ==
    /\ calls[r].pc \in {"open", "flush"}
    /\ Goes(r, "failed")
    /\ UNCHANGED <<registry, up, memory, disk, file, temp, told, pipeline, indexed>>

Audit(r) ==
    /\ InStep(r, "audit")
    /\ told' = told \cup {<<calls[r].key, calls[r].new>>}
    /\ calls' = [calls EXCEPT ![r] = [pc |-> "done", alone |-> @.alone]]
    /\ UNCHANGED <<registry, up, memory, disk, file, temp, pipeline, indexed>>

AuditFailureIsIgnored(r) ==
    /\ InStep(r, "audit")
    /\ calls' = [calls EXCEPT ![r] = [pc |-> "done", alone |-> @.alone]]
    /\ UNCHANGED <<registry, up, memory, disk, file, temp, told, pipeline, indexed>>
AuditFails(r) ==
    /\ InStep(r, "audit")
    /\ Goes(r, "failed")
    /\ UNCHANGED <<registry, up, memory, disk, file, temp, told, pipeline, indexed>>

-----------------------------------------------------------------------------
BuildPipeline(k) ==
    /\ up /\ Embedding /\ memory[k] # Missing
    /\ pipeline' = <<k, memory[k]>>
    /\ UNCHANGED <<registry, up, memory, disk, file, temp, calls, told, indexed>>

ModelAllowsDraft(m, class) == ~m.retired /\ class \in m.classes
ModelAllows(m, class) == m.approved /\ ~m.retired /\ class \in m.classes

IndexSource(class) ==
    /\ up /\ pipeline # Missing
    /\ ModelAllows(pipeline[2], class)
    /\ indexed' = indexed \cup {<<pipeline[1], class>>}
    /\ UNCHANGED <<registry, up, memory, disk, file, temp, calls, told, pipeline>>

\* The process stops, in the middle of any call, and is started again.
RestartProcess ==
    /\ up
    /\ up' = (disk[file] # Garbled)
    /\ memory' = IF up' THEN disk[file] ELSE memory
    /\ calls' = [r \in Requests |->
                 IF calls[r].pc \in Running THEN [calls[r] EXCEPT !.pc = "lost"] ELSE calls[r]]
    /\ pipeline' = Missing
    /\ UNCHANGED <<registry, disk, file, temp, told, indexed>>

BeginCall(r) ==
    \E k \in Keys :
        \/ \E classes \in (SUBSET Classes) \ {{}} :
              Register(r, k, classes) \/ Approve(r, k, classes)
        \/ Retire(r, k)
        \/ \E value \in BOOLEAN : UpdateTenantAiSettings(r, k, value)

Step(r) ==
    \/ UpsertEntry(r) \/ ListRows(r) \/ Open(r) \/ Flush(r) \/ Replace(r) \/ WriteFails(r)
    \/ Audit(r) \/ AuditFails(r)

RegNext ==
    \/ \E r \in Requests : BeginCall(r) \/ Step(r)
    \/ \E k \in Keys : BuildPipeline(k)
    \/ \E class \in Classes : IndexSource(class)
    \/ RestartProcess

RegSpec == RegInit /\ [][RegNext]_regVars
-----------------------------------------------------------------------------
Alone == \A r \in Requests : calls[r].alone

(* Unless two calls have been writing at the same time, the process starts     *)
(* again wherever it was stopped, a half-written file included, and a restart  *)
(* loses only changes whose calls were under way or had reported an error.     *)
FinishedSurvivesRestart ==
    [][RestartProcess /\ Alone =>
         /\ up'
         /\ \A k \in Keys :
               memory'[k] # memory[k] =>
                   \E r \in Requests : calls[r].pc \in Unfinished /\ calls[r].key = k]_regVars

(* A model version stays retired, keeps its approval, and a tenant keeps its  *)
(* settings, until a call changes just that; only a call that has not seen    *)
(* the latest entry, or a restart, undoes what another call has done.         *)
ChangesStay ==
    [][\A k \in Keys :
         memory[k] # Missing /\ memory'[k] # Missing =>
            \A f \in DOMAIN memory[k] :
                memory'[k][f] # memory[k][f] =>
                    \/ \E r \in Requests :
                          /\ InStep(r, "upsert") /\ InStep(r, "rows")' /\ calls[r].key = k
                          /\ \/ calls[r].op # "register" /\ f \in Sets[calls[r].op]
                             \/ calls[r].seen # memory[k]
                    \/ RestartProcess]_regVars

KnownEntry(k, m) ==
    \/ m = SeedRows(registry)[k]
    \/ <<k, m>> \in told
    \/ \E r \in Requests : calls[r].pc \in Unfinished /\ calls[r].key = k /\ calls[r].new = m

(* An entry in the dictionary that the seed does not have is told of by an    *)
(* audit event, or the call that made it is under way or has failed.          *)
EntriesAreAudited == \A k \in Keys : KnownEntry(k, memory[k])

(* Sources of a class were only indexed with a model version that had been    *)
(* approved for the class, by an audited or an unfinished call or the seed.   *)
IndexedWasApproved ==
    \A x \in indexed :
        \E m \in EmbeddingModelVersions :
            KnownEntry(x[1], m) /\ m.approved /\ x[2] \in m.classes

(* A retired model version is not used to index sources.                      *)
RetiredIsNotUsed ==
    [][\A x \in indexed' \ indexed : memory[x[1]] # Missing => ~memory[x[1]].retired]_regVars
=============================================================================
