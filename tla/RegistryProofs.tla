--------------------------- MODULE RegistryProofs ---------------------------
(***************************************************************************)
(* What holds of the registries however many calls overlap.                *)
(*                                                                         *)
(* A call on a module's state writes a copy of a state that may be stale,  *)
(* so the argument rests on what the call has checked of that state and on *)
(* the validator, never on the state the write replaces.                   *)
(*                                                                         *)
(* A call on a registry that is kept in a file leaves behind entries that  *)
(* it has made from the one it saw; the argument follows every entry, in   *)
(* the dictionary and in each file, to the call or the seed it comes from. *)
(* What a restart reads is the dictionary again as long as no two calls    *)
(* have been writing at the same time.                                     *)
(***************************************************************************)
EXTENDS ModuleLifecycle, JsonRegistries, TLAPS

CheckedState == \A a \in Admins : At(a, "write") => Allowed(call[a].op, call[a].seen)
CheckingRequest == \A a \in Admins : At(a, "check") => call[a].op = "request"

IInv ==
    /\ TypeOK
    /\ EnabledIsProvisioned
    /\ ComplianceAccessKept
    /\ CheckedState
    /\ CheckingRequest

Fine(m) ==
    /\ m.status = "enabled" => m.provisioned /\ m.migrated
    /\ m.provisioned /\ m.status \notin ComplianceAccess =>
        /\ m.status = "decommissioned"
        /\ {"request", "complete"} \subseteq m.evidence
        /\ ~m.features

LEMMA SeedIsFine == Seed \in Module /\ Fine(Seed)
  BY SwitchesAssumption DEF Seed, Absent, Module, Status, Fine, InWorkflow

LEMMA SelectedIsBoolean ==
    ASSUME NEW m \in Module, NEW select \in Selection
    PROVE  Selected(select, m) \in BOOLEAN
  BY DEF Selected, Module, Selection

(* What an operation makes of a state that it has checked and that the validator *)
(* accepts is fine.                                                              *)
LEMMA ChangedIsFine ==
    ASSUME NEW m \in Module, NEW op \in Operation, NEW select \in Selection, Allowed(op, m)
    PROVE  /\ Changed(op, select, m) \in Module
           /\ Valid(Changed(op, select, m)) => Fine(Changed(op, select, m))
<1> DEFINE new == Changed(op, select, m)
<1>1. CASE op = "provision"
  <2>1. new = [status |-> "disabled", provisioned |-> TRUE, migrated |-> TRUE,
               features |-> Selected(select, m), evidence |-> {}]
    BY <1>1 DEF Changed, WorkflowStep
  <2> QED
    BY <2>1, SelectedIsBoolean DEF Module, Status, Fine, ComplianceAccess
<1>2. CASE op = "enable"
  <2>1. new = [m EXCEPT !.status = "enabled", !.features = Selected(select, m)]
    BY <1>2 DEF Changed, WorkflowStep
  <2>2. m.provisioned /\ m.migrated
    BY <1>2 DEF Allowed, Enablable
  <2> QED
    BY <2>1, <2>2, SelectedIsBoolean DEF Module, Status, Fine, ComplianceAccess
<1>3. CASE op \in {"disable", "suspend"}
  <2>1. new = [m EXCEPT !.status = Target(op)]
    BY <1>3 DEF Changed, WorkflowStep
  <2>2. Target(op) \in {"disabled", "suspended"}
    BY <1>3 DEF Target
  <2> QED
    BY <2>1, <2>2 DEF Module, Status, Fine, ComplianceAccess
<1>4. CASE op \in WorkflowStep
  <2>1. new = [m EXCEPT !.status = Target(op), !.features = FALSE,
                        !.evidence = EvidenceWith(op, m)]
    BY <1>4 DEF Changed, WorkflowStep
  <2>2. Target(op) \in {"disabled", "decommission_requested", "decommission_blocked",
                        "decommissioned"}
    BY <1>4 DEF Target, WorkflowStep
  <2>3. EvidenceWith(op, m) \in SUBSET WorkflowStep
    BY <1>4 DEF EvidenceWith, Module
  <2>4. new \in Module /\ new.status = Target(op)
    BY <2>1, <2>2, <2>3 DEF Module, Status, InWorkflow
  <2>5. Valid(new) => Fine(new)
    BY <2>2, <2>4 DEF Valid, Fine, ComplianceAccess, InWorkflow, Module
  <2> QED
    BY <2>4, <2>5
<1> QED
  BY <1>1, <1>2, <1>3, <1>4 DEF Operation

LEMMA InitInv == Init => IInv
<1> SUFFICES ASSUME Init PROVE IInv
  OBVIOUS
<1>1. module \in Module /\ Fine(module)
  BY SeedIsFine DEF Init
<1> QED
  BY <1>1 DEF Init, IInv, TypeOK, EnabledIsProvisioned, ComplianceAccessKept, Fine,
              CheckedState, CheckingRequest, At, Idle

(* The fields of a call that is under way.                                       *)
LEMMA CallFields ==
    ASSUME TypeOK, NEW a \in Admins, ~At(a, "idle")
    PROVE  /\ call[a] \in Call
           /\ call[a].op \in Operation
           /\ call[a].select \in Selection
           /\ call[a].seen \in Module
<1>1. call[a] \in Call
  BY DEF TypeOK, At, Idle
<1> QED
  BY <1>1 DEF Call

LEMMA NextInv == IInv /\ [Next]_vars => IInv'
<1> SUFFICES ASSUME IInv, [Next]_vars PROVE IInv'
  OBVIOUS
<1>1. ASSUME NEW a \in Admins, NEW op \in Operation, NEW select \in Selection,
             Begin(a, op, select)
      PROVE  IInv'
  <2> DEFINE new == [pc |-> "audited", op |-> op, select |-> select, seen |-> Absent]
  <2>1. call' = [call EXCEPT ![a] = new] /\ module' = module
        /\ audited' = audited \cup {Target(op)}
    BY <1>1 DEF Begin, AuditedWith
  <2>2. Absent \in Module
    BY DEF Absent, Module, Status
  <2>3. new \in Call /\ new.pc = "audited"
    BY <2>2 DEF Call
  <2>4. Target(op) \in Status
    BY DEF Operation, WorkflowStep, Target, Status, InWorkflow
  <2> HIDE DEF new
  <2>5. TypeOK'
    BY <2>1, <2>3, <2>4 DEF IInv, TypeOK
  <2>6. CheckedState' /\ CheckingRequest'
    BY <2>1, <2>3 DEF IInv, TypeOK, CheckedState, CheckingRequest, At, Allowed
  <2> QED
    BY <2>1, <2>5, <2>6 DEF IInv, EnabledIsProvisioned, ComplianceAccessKept
<1>2. ASSUME NEW a \in Admins, Return(a), UNCHANGED <<module, audited>> PROVE IInv'
  <2>1. TypeOK'
    BY <1>2 DEF IInv, TypeOK, Return
  <2>2. CheckedState' /\ CheckingRequest'
    BY <1>2 DEF IInv, TypeOK, CheckedState, CheckingRequest, At, Return, Idle
  <2> QED
    BY <1>2, <2>1, <2>2 DEF IInv, EnabledIsProvisioned, ComplianceAccessKept
<1>3. ASSUME NEW a \in Admins, ReadState(a) PROVE IInv'
  <2>1. CASE call[a].op = "request" \/ Allowed(call[a].op, module)
    <3> DEFINE pc == IF call[a].op = "request" THEN "check" ELSE "write"
               new == [call[a] EXCEPT !.seen = module, !.pc = pc]
    <3>1. ~At(a, "idle") /\ UNCHANGED <<module, audited>>
      BY <1>3 DEF ReadState, At
    <3>2. call' = [call EXCEPT ![a] = new]
      BY <1>3, <2>1 DEF ReadState
    <3>3. call[a] \in Call
      BY <3>1, CallFields DEF IInv
    <3>4. /\ new \in Call
          /\ new.pc = pc /\ new.op = call[a].op /\ new.seen = module
      BY <3>3 DEF Call, IInv, TypeOK
    <3>5. new.pc = "write" => Allowed(new.op, new.seen)
      BY <2>1, <3>4
    <3> HIDE DEF new, pc
    <3>6. TypeOK'
      BY <3>1, <3>2, <3>4 DEF IInv, TypeOK
    <3>7. CheckedState'
      BY <3>2, <3>5 DEF IInv, TypeOK, CheckedState, At, Allowed
    <3>8. CheckingRequest'
      BY <3>2, <3>4 DEF IInv, TypeOK, CheckingRequest, At, pc
    <3> QED
      BY <3>1, <3>6, <3>7, <3>8 DEF IInv, EnabledIsProvisioned, ComplianceAccessKept
  <2>2. CASE ~(call[a].op = "request" \/ Allowed(call[a].op, module))
    BY <1>2, <1>3, <2>2 DEF ReadState
  <2> QED
    BY <2>1, <2>2
<1>4. ASSUME NEW a \in Admins, DecommissionCheck(a) PROVE IInv'
  <2>1. CASE Allowed("request", call[a].seen) /\ call' = [call EXCEPT ![a].pc = "write"]
    <3> DEFINE new == [call[a] EXCEPT !.pc = "write"]
    <3>1. ~At(a, "idle") /\ UNCHANGED <<module, audited>>
      BY <1>4 DEF DecommissionCheck, At
    <3>2. call' = [call EXCEPT ![a] = new]
      BY <2>1
    <3>3. call[a] \in Call
      BY <3>1, CallFields DEF IInv
    <3>4. new \in Call /\ new.op = call[a].op /\ new.seen = call[a].seen
      BY <3>3 DEF Call
    <3>5. call[a].op = "request"
      BY <1>4 DEF DecommissionCheck, At, IInv, CheckingRequest
    <3>6. Allowed(new.op, new.seen)
      BY <2>1, <3>4, <3>5
    <3> HIDE DEF new
    <3>7. TypeOK'
      BY <3>1, <3>2, <3>4 DEF IInv, TypeOK
    <3>8. CheckedState'
      BY <3>2, <3>6 DEF IInv, TypeOK, CheckedState, At, Allowed
    <3>9. CheckingRequest'
      BY <3>2, <3>4, <3>5 DEF IInv, TypeOK, CheckingRequest, At
    <3> QED
      BY <3>1, <3>7, <3>8, <3>9 DEF IInv, EnabledIsProvisioned, ComplianceAccessKept
  <2>2. CASE Return(a)
    BY <1>2, <1>4, <2>2 DEF DecommissionCheck
  <2> QED
    BY <1>4, <2>1, <2>2 DEF DecommissionCheck
<1>5. ASSUME NEW a \in Admins, Upsert(a) PROVE IInv'
  <2> DEFINE new == Changed(call[a].op, call[a].select, call[a].seen)
  <2>1. ~At(a, "idle") /\ Allowed(call[a].op, call[a].seen)
    BY <1>5 DEF Upsert, At, IInv, CheckedState
  <2>2. new \in Module /\ (Valid(new) => Fine(new))
    BY <2>1, CallFields, ChangedIsFine DEF IInv
  <2>3. module' = (IF Valid(new) THEN new ELSE module) /\ Return(a) /\ UNCHANGED audited
    BY <1>5 DEF Upsert
  <2> HIDE DEF new
  <2>4. TypeOK'
    BY <2>2, <2>3 DEF IInv, TypeOK, Return
  <2>5. EnabledIsProvisioned' /\ ComplianceAccessKept'
    BY <2>2, <2>3 DEF IInv, EnabledIsProvisioned, ComplianceAccessKept, Fine
  <2>6. CheckedState' /\ CheckingRequest'
    BY <2>3 DEF IInv, TypeOK, CheckedState, CheckingRequest, At, Return, Idle
  <2> QED
    BY <2>4, <2>5, <2>6 DEF IInv
<1>6. ASSUME Restart PROVE IInv'
  <2>1. module' = Seed /\ call' = [a \in Admins |-> Idle] /\ UNCHANGED audited
    BY <1>6 DEF Restart
  <2>2. Seed \in Module /\ Fine(Seed)
    BY SeedIsFine
  <2>3. TypeOK'
    BY <2>1, <2>2 DEF IInv, TypeOK
  <2>4. EnabledIsProvisioned' /\ ComplianceAccessKept'
    BY <2>1, <2>2 DEF EnabledIsProvisioned, ComplianceAccessKept, Fine
  <2>5. CheckedState' /\ CheckingRequest'
    BY <2>1 DEF CheckedState, CheckingRequest, At, Idle
  <2> QED
    BY <2>3, <2>4, <2>5 DEF IInv
<1>7. CASE UNCHANGED vars
  BY <1>7 DEF vars, IInv, TypeOK, EnabledIsProvisioned, ComplianceAccessKept,
              CheckedState, CheckingRequest, At, Allowed
<1> QED
  BY <1>1, <1>3, <1>4, <1>5, <1>6, <1>7 DEF Next

THEOREM Invariance == Spec => []IInv
  BY InitInv, NextInv, PTL DEF Spec

(* The registry's state and the calls stay well formed.                          *)
THEOREM TypeCorrectness == Spec => []TypeOK
<1>1. IInv => TypeOK
  BY DEF IInv
<1> QED
  BY <1>1, Invariance, PTL

(* However many calls overlap, an enabled module was provisioned and migrated.   *)
THEOREM ProvisionedBeforeEnabled == Spec => []EnabledIsProvisioned
<1>1. IInv => EnabledIsProvisioned
  BY DEF IInv
<1> QED
  BY <1>1, Invariance, PTL

(* However many calls overlap, compliance access to a provisioned module ends    *)
(* only with a decommission that has its evidence.                               *)
THEOREM ComplianceIsNotOptional == Spec => []ComplianceAccessKept
<1>1. IInv => ComplianceAccessKept
  BY DEF IInv
<1> QED
  BY <1>1, Invariance, PTL
-----------------------------------------------------------------------------
CallsAreAudited == \A a \in Admins : ~At(a, "idle") => Target(call[a].op) \in audited
AuditInv == ChangesAreAudited /\ CallsAreAudited

LEMMA ChangedHasTarget ==
    ASSUME NEW m \in Module, NEW op \in Operation, NEW select \in Selection
    PROVE  Changed(op, select, m).status = Target(op)
<1>1. CASE op = "provision"
  BY <1>1 DEF Changed, Target, WorkflowStep
<1>2. CASE op = "enable"
  BY <1>2 DEF Changed, Target, WorkflowStep, Module
<1>3. CASE op \in {"disable", "suspend"}
  BY <1>3 DEF Changed, WorkflowStep, Module
<1>4. CASE op \in WorkflowStep
  BY <1>4 DEF Changed, WorkflowStep, Module
<1> QED
  BY <1>1, <1>2, <1>3, <1>4 DEF Operation

LEMMA NextAuditInv == IInv /\ AuditInv /\ [Next]_vars => AuditInv'
<1> SUFFICES ASSUME IInv, AuditInv, [Next]_vars PROVE AuditInv'
  OBVIOUS
<1> USE DEF AuditInv, ChangesAreAudited
<1>1. ASSUME NEW a \in Admins, NEW op \in Operation, NEW select \in Selection,
             Begin(a, op, select)
      PROVE  AuditInv'
  BY <1>1 DEF IInv, TypeOK, Begin, AuditedWith, CallsAreAudited, At
<1>2. ASSUME NEW a \in Admins, Return(a), UNCHANGED audited PROVE CallsAreAudited'
  BY <1>2 DEF IInv, TypeOK, Return, CallsAreAudited, At, Idle
<1>3. ASSUME NEW a \in Admins, ReadState(a) \/ DecommissionCheck(a) PROVE AuditInv'
  <2>1. UNCHANGED <<module, audited>> /\ call[a] \in Call /\ ~At(a, "idle")
    BY <1>3, CallFields DEF IInv, ReadState, DecommissionCheck, At
  <2>2. CASE Return(a)
    BY <1>2, <2>1, <2>2
  <2>3. CASE ~Return(a)
    <3>1. PICK new \in Call : call' = [call EXCEPT ![a] = new] /\ new.op = call[a].op
      <4>1. CASE ReadState(a)
        <5> DEFINE pc == IF call[a].op = "request" THEN "check" ELSE "write"
                   new == [call[a] EXCEPT !.seen = module, !.pc = pc]
        <5>1. new \in Call /\ new.op = call[a].op
          BY <2>1 DEF Call, IInv, TypeOK
        <5>2. call' = [call EXCEPT ![a] = new]
          BY <2>3, <4>1 DEF ReadState
        <5> QED
          BY <5>1, <5>2
      <4>2. CASE DecommissionCheck(a)
        <5> DEFINE new == [call[a] EXCEPT !.pc = "write"]
        <5>1. new \in Call /\ new.op = call[a].op
          BY <2>1 DEF Call
        <5>2. call' = [call EXCEPT ![a] = new]
          BY <2>3, <4>2 DEF DecommissionCheck
        <5> QED
          BY <5>1, <5>2
      <4> QED
        BY <1>3, <4>1, <4>2
    <3> QED
      BY <2>1, <3>1 DEF IInv, TypeOK, CallsAreAudited, At
  <2> QED
    BY <2>2, <2>3
<1>4. ASSUME NEW a \in Admins, Upsert(a) PROVE AuditInv'
  <2>1. ~At(a, "idle") /\ Return(a) /\ UNCHANGED audited
    BY <1>4 DEF Upsert, At
  <2>2. \/ module' = module
        \/ module' = Changed(call[a].op, call[a].select, call[a].seen)
    BY <1>4 DEF Upsert
  <2>3. module'.status \in {module.status, Target(call[a].op)}
    BY <2>1, <2>2, CallFields, ChangedHasTarget DEF IInv
  <2> QED
    BY <1>2, <2>1, <2>3 DEF CallsAreAudited
<1>5. ASSUME Restart PROVE AuditInv'
  BY <1>5 DEF Restart, CallsAreAudited, At, Idle
<1>6. CASE UNCHANGED vars
  BY <1>6 DEF vars, CallsAreAudited, At
<1> QED
  BY <1>1, <1>3, <1>4, <1>5, <1>6 DEF Next

(* However many calls overlap, a module never has a status that the audit trail  *)
(* does not know.                                                                *)
THEOREM EveryChangeIsAudited == Spec => []ChangesAreAudited
<1>1. Init => AuditInv
  BY DEF Init, AuditInv, ChangesAreAudited, CallsAreAudited, At, Idle
<1>2. AuditInv => ChangesAreAudited
  BY DEF AuditInv
<1> QED
  BY <1>1, <1>2, NextAuditInv, Invariance, PTL DEF Spec

(* No operation is allowed on a decommissioned module.                           *)
LEMMA NothingAfterDecommission ==
    ASSUME NEW op \in Operation, NEW m \in Module, m.status = "decommissioned"
    PROVE  ~Allowed(op, m)
  BY DEF Allowed, Operation, WorkflowStep, InWorkflow, Enablable, Requestable,
         UnderDecommission

(* A decommissioned module comes back only by the write of a state that is no    *)
(* longer the module's, or by a restart, for any number of administrators.       *)
THEOREM OnlyStaleWritesUndo == Spec => FinalUnlessStale
<1> DEFINE Final == module.status = "decommissioned" =>
                       module'.status = "decommissioned" \/ Undone
<1>1. IInv /\ [Next]_vars => [Final]_vars
  <2> SUFFICES ASSUME IInv, Next, module.status = "decommissioned", ~Undone
               PROVE  module'.status = "decommissioned"
    BY DEF vars
  <2>1. CASE \E a \in Admins : Upsert(a)
    <3>1. PICK a \in Admins : Upsert(a)
      BY <2>1
    <3>2. call[a].seen = module /\ At(a, "write")
      BY <3>1 DEF Undone, StaleUpsert, Upsert
    <3>3. Allowed(call[a].op, module) /\ call[a].op \in Operation /\ module \in Module
      BY <3>2, CallFields DEF IInv, TypeOK, CheckedState, At
    <3> QED
      BY <3>3, NothingAfterDecommission
  <2>2. CASE ~\E a \in Admins : Upsert(a)
    <3>1. module' = module
      BY <2>2 DEF Next, Begin, ReadState, DecommissionCheck, Undone
    <3> QED
      BY <3>1
  <2> QED
    BY <2>1, <2>2
<1> QED
  BY <1>1, Invariance, PTL DEF Spec, FinalUnlessStale
-----------------------------------------------------------------------------
EntriesOf(kind) == IF kind = "embedding_models" THEN EmbeddingModelVersions ELSE TenantPolicies
RowsOf(kind) == [Keys -> EntriesOf(kind) \cup {Missing}]
HasRows == {"open", "flush", "replace"}
HasHandle == {"flush", "replace"}

CallOfKind(r) ==
    /\ calls[r].pc \in Unfinished => calls[r].new \in EntriesOf(registry)
    /\ calls[r].pc \in HasRows => calls[r].rows \in RowsOf(registry)
    /\ calls[r].pc \in HasHandle => calls[r].handle \in Files
    /\ calls[r].pc \in {"new", "upsert"} => calls[r].alone

(* A registry's entries are of one kind, and a call that writes has its rows.    *)
OneKind ==
    /\ memory \in RowsOf(registry)
    /\ \A f \in Files : disk[f] # Garbled => disk[f] \in RowsOf(registry)
    /\ \A r \in Requests : CallOfKind(r)

LEMMA SeedIsOfItsKind == \A kind \in Registries : SeedRows(kind) \in RowsOf(kind)
  BY RegistriesAssumption
     DEF SeedRows, DefaultEntry, RowsOf, EntriesOf, EmbeddingModelVersions, TenantPolicies

LEMMA KindsAreEntries ==
    ASSUME NEW kind PROVE EntriesOf(kind) \subseteq Entries /\ RowsOf(kind) \subseteq Rows
<1>1. EntriesOf(kind) \subseteq Entries
  BY DEF EntriesOf, Entries
<1>2. EntriesOf(kind) \cup {Missing} \subseteq Entries \cup {Missing}
  BY <1>1
<1> QED
  BY <1>1, <1>2 DEF RowsOf, Rows

LEMMA InitKind == RegInit => RegTypeOK /\ OneKind
<1> SUFFICES ASSUME RegInit PROVE RegTypeOK /\ OneKind
  OBVIOUS
<1>1. memory \in RowsOf(registry) /\ memory \in Rows
  BY SeedIsOfItsKind, KindsAreEntries DEF RegInit
<1>2. disk \in [Files -> Rows \cup {Garbled}]
      /\ \A f \in Files : disk[f] # Garbled => disk[f] \in RowsOf(registry)
  BY <1>1 DEF RegInit
<1>3. calls \in [Requests -> Calls \cup Others]
  BY DEF RegInit, Others
<1>4. \A r \in Requests : calls[r].pc = "new" /\ calls[r].alone
  BY DEF RegInit
<1>5. file \in Files /\ temp = Missing
  BY DEF RegInit, Files, First
<1>6. RegTypeOK
  BY <1>1, <1>2, <1>3, <1>5 DEF RegInit, RegTypeOK
<1> QED
  BY <1>1, <1>2, <1>4, <1>6
     DEF OneKind, CallOfKind, InStep, Unfinished, Running, Writing, HasRows, HasHandle

(* The fields of a call that is under way, has failed or was lost.               *)
LEMMA EntryCallFields ==
    ASSUME RegTypeOK, NEW r \in Requests, calls[r].pc \in Unfinished
    PROVE  /\ calls[r] \in Calls
           /\ calls[r].op \in Operations /\ calls[r].key \in Keys
           /\ calls[r].seen \in Entries \cup {Missing} /\ calls[r].new \in Entries
           /\ calls[r].rows \in Rows \cup {Missing} /\ calls[r].handle \in Files \cup {Missing}
           /\ calls[r].alone \in BOOLEAN
<1>1. calls[r] \in Calls
  BY DEF RegTypeOK, Others, Unfinished, Running, Writing
<1> QED
  BY <1>1 DEF Calls

(* What a step of call r leaves of the calls: only r's own progress changes.     *)
Moved(r, pc) ==
    /\ calls' \in [Requests -> Calls \cup Others]
    /\ calls'[r] \in Calls
    /\ calls'[r].pc = pc
    /\ calls'[r].op = calls[r].op /\ calls'[r].key = calls[r].key
    /\ calls'[r].seen = calls[r].seen /\ calls'[r].new = calls[r].new
OthersWait(r) == \A q \in Requests \ {r} : calls'[q] = calls[q]

LEMMA GoesMoves ==
    ASSUME RegTypeOK, NEW r \in Requests, calls[r].pc \in Unfinished,
           NEW pc \in Unfinished, Goes(r, pc)
    PROVE  /\ Moved(r, pc) /\ OthersWait(r)
           /\ calls'[r].rows = calls[r].rows /\ calls'[r].handle = calls[r].handle
           /\ calls'[r].alone = calls[r].alone
<1>1. calls[r] \in Calls
  BY EntryCallFields
<1>2. calls' = [calls EXCEPT ![r] = [calls[r] EXCEPT !.pc = pc]]
  BY DEF Goes
<1>3. [calls[r] EXCEPT !.pc = pc] \in Calls
  BY <1>1 DEF Calls
<1> QED
  BY <1>1, <1>2, <1>3 DEF Moved, OthersWait, RegTypeOK, Calls

LEMMA UpsertMoves ==
    ASSUME RegTypeOK, NEW r \in Requests, UpsertEntry(r)
    PROVE  /\ Moved(r, "rows")
           /\ calls'[r].alone = (\A q \in Requests \ {r} : calls[q].pc \notin Writing)
           /\ \A q \in Requests \ {r} :
                 /\ calls[q].pc \notin Writing => calls'[q] = calls[q]
                 /\ calls[q].pc \in Writing =>
                       /\ Moved(q, calls[q].pc) /\ ~calls'[q].alone
                       /\ calls'[q].rows = calls[q].rows /\ calls'[q].handle = calls[q].handle
<1> DEFINE others == {q \in Requests \ {r} : calls[q].pc \in Writing}
           mine == [calls[r] EXCEPT !.pc = "rows", !.alone = others = {}]
           theirs(q) == [calls[q] EXCEPT !.alone = FALSE]
<1>1. calls[r] \in Calls
  BY EntryCallFields DEF UpsertEntry, InStep, Unfinished, Running
<1>2. mine \in Calls
  BY <1>1 DEF Calls, Unfinished, Running, Writing
<1>3. \A q \in others : calls[q] \in Calls /\ theirs(q) \in Calls
  <2> TAKE q \in others
  <2>1. calls[q] \in Calls
    BY EntryCallFields DEF Unfinished, Running
  <2> QED
    BY <2>1 DEF Calls
<1>4. calls' = [q \in Requests |->
                 IF q = r THEN mine ELSE IF q \in others THEN theirs(q) ELSE calls[q]]
  BY DEF UpsertEntry
<1>5. calls'[r] = mine /\ \A q \in Requests \ {r} :
         calls'[q] = IF calls[q].pc \in Writing THEN theirs(q) ELSE calls[q]
  BY <1>4
<1>6. calls' \in [Requests -> Calls \cup Others]
  BY <1>2, <1>3, <1>4 DEF RegTypeOK
<1>7. Moved(r, "rows") /\ calls'[r].alone = (others = {})
  BY <1>1, <1>5, <1>6, <1>2 DEF Moved, Calls
<1>8. (others = {}) = (\A q \in Requests \ {r} : calls[q].pc \notin Writing)
  OBVIOUS
<1>9. ASSUME NEW q \in Requests \ {r}, calls[q].pc \in Writing
      PROVE  /\ Moved(q, calls[q].pc) /\ ~calls'[q].alone
             /\ calls'[q].rows = calls[q].rows /\ calls'[q].handle = calls[q].handle
  BY <1>3, <1>5, <1>6, <1>9 DEF Moved, Calls
<1> QED
  BY <1>5, <1>7, <1>8, <1>9

LEMMA AuditEnds ==
    ASSUME RegTypeOK, NEW r \in Requests, Audit(r)
    PROVE  /\ calls' \in [Requests -> Calls \cup Others]
           /\ calls'[r].pc = "done" /\ calls'[r].alone = calls[r].alone
           /\ OthersWait(r)
<1> DEFINE done == [pc |-> "done", alone |-> calls[r].alone]
<1>1. calls[r].alone \in BOOLEAN
  BY EntryCallFields DEF Audit, InStep, Unfinished, Running
<1>2. calls' = [calls EXCEPT ![r] = done] /\ done \in Others
  BY <1>1 DEF Audit, Others
<1> QED
  BY <1>2 DEF RegTypeOK, OthersWait

LEMMA ReadsMoves ==
    ASSUME RegTypeOK, NEW r \in Requests, NEW op \in Operations, NEW k \in Keys,
           NEW new \in Entries, Reads(r, op, k, new)
    PROVE  /\ calls' \in [Requests -> Calls \cup Others]
           /\ calls'[r].pc = "upsert" /\ calls'[r].op = op /\ calls'[r].key = k
           /\ calls'[r].seen = memory[k] /\ calls'[r].new = new /\ calls'[r].alone
           /\ OthersWait(r)
<1> DEFINE mine == [pc |-> "upsert", op |-> op, key |-> k, seen |-> memory[k], new |-> new,
                    rows |-> Missing, handle |-> Missing, alone |-> TRUE]
<1>1. calls' = [calls EXCEPT ![r] = mine]
  BY DEF Reads
<1>2. memory[k] \in Entries \cup {Missing}
  BY DEF RegTypeOK, Rows
<1>3. mine \in Calls
  BY <1>2 DEF Calls, Unfinished, Running
<1>4. /\ calls' \in [Requests -> Calls \cup Others] /\ OthersWait(r)
      /\ calls'[r] = mine
  BY <1>1, <1>3 DEF RegTypeOK, OthersWait
<1> QED
  BY <1>4

(* Every call reads an entry and makes a copy of the registry's kind, in which   *)
(* only the fields differ that its operation is there to change.                 *)
LEMMA BeginReads ==
    ASSUME RegTypeOK, OneKind, NEW r \in Requests, BeginCall(r)
    PROVE  \E op \in Operations, k \in Keys, new \in EntriesOf(registry) :
              /\ Reads(r, op, k, new)
              /\ op = "register" => memory[k] = Missing
              /\ op # "register" => \A f \in (DOMAIN memory[k]) \ Sets[op] : new[f] = memory[k][f]
<1> DEFINE Result ==
      \E op \in Operations, k \in Keys, new \in EntriesOf(registry) :
              /\ Reads(r, op, k, new)
              /\ op = "register" => memory[k] = Missing
              /\ op # "register" => \A f \in (DOMAIN memory[k]) \ Sets[op] : new[f] = memory[k][f]
<1> USE DEF Operations, Sets
<1>1. \A k \in Keys : memory[k] # Missing => memory[k] \in EntriesOf(registry)
  BY DEF OneKind, RowsOf
<1>2. ASSUME NEW k \in Keys, NEW classes \in (SUBSET Classes) \ {{}}, Register(r, k, classes)
      PROVE  Result
  <2> DEFINE new == [classes |-> classes, approved |-> FALSE, retired |-> FALSE]
  <2>1. new \in EntriesOf(registry) /\ Reads(r, "register", k, new) /\ memory[k] = Missing
    BY <1>2 DEF Register, Registrable, Embedding, EntriesOf, EmbeddingModelVersions
  <2> QED
    BY <2>1
<1>3. ASSUME NEW k \in Keys, NEW classes \in (SUBSET Classes) \ {{}}, Approve(r, k, classes)
      PROVE  Result
  <2> DEFINE new == Approved(memory[k], classes)
  <2>1. memory[k] \in EmbeddingModelVersions /\ Reads(r, "approve", k, new)
    BY <1>1, <1>3 DEF Approve, Embedding, EntriesOf
  <2>2. new \in EntriesOf(registry)
    BY <1>3, <2>1 DEF Approve, Approved, Embedding, EntriesOf, EmbeddingModelVersions
  <2>3. \A f \in (DOMAIN memory[k]) \ {"classes", "approved"} : new[f] = memory[k][f]
    BY <2>1 DEF Approved, EmbeddingModelVersions
  <2> QED
    BY <2>1, <2>2, <2>3
<1>4. ASSUME NEW k \in Keys, Retire(r, k)
      PROVE  Result
  <2> DEFINE new == [memory[k] EXCEPT !.retired = TRUE]
  <2>1. memory[k] \in EmbeddingModelVersions /\ Reads(r, "retire", k, new)
    BY <1>1, <1>4 DEF Retire, Embedding, EntriesOf
  <2>2. new \in EntriesOf(registry)
    BY <1>4, <2>1 DEF Retire, Embedding, EntriesOf, EmbeddingModelVersions
  <2>3. \A f \in (DOMAIN memory[k]) \ {"retired"} : new[f] = memory[k][f]
    BY <2>1 DEF EmbeddingModelVersions
  <2> QED
    BY <2>1, <2>2, <2>3
<1>5. ASSUME NEW k \in Keys, NEW value \in BOOLEAN, UpdateTenantAiSettings(r, k, value)
      PROVE  Result
  <2>1. memory[k] \in TenantPolicies /\ EntriesOf(registry) = TenantPolicies
    BY <1>1, <1>5 DEF UpdateTenantAiSettings, Embedding, EntriesOf
  <2>2. CASE Reads(r, "set_ai", k, [memory[k] EXCEPT !.ai = value])
    <3>1. /\ [memory[k] EXCEPT !.ai = value] \in TenantPolicies
          /\ \A f \in (DOMAIN memory[k]) \ {"ai"} :
                [memory[k] EXCEPT !.ai = value][f] = memory[k][f]
      BY <2>1 DEF TenantPolicies
    <3> QED
      BY <2>1, <2>2, <3>1
  <2>3. CASE Reads(r, "set_rag", k, [memory[k] EXCEPT !.rag = value])
    <3>1. /\ [memory[k] EXCEPT !.rag = value] \in TenantPolicies
          /\ \A f \in (DOMAIN memory[k]) \ {"rag"} :
                [memory[k] EXCEPT !.rag = value][f] = memory[k][f]
      BY <2>1 DEF TenantPolicies
    <3> QED
      BY <2>1, <2>3, <3>1
  <2> QED
    BY <1>5, <2>2, <2>3 DEF UpdateTenantAiSettings
<1> QED
  BY <1>2, <1>3, <1>4, <1>5 DEF BeginCall

LEMMA KindStep == RegTypeOK /\ OneKind /\ [RegNext]_regVars => RegTypeOK' /\ OneKind'
<1> SUFFICES ASSUME RegTypeOK, OneKind, [RegNext]_regVars PROVE RegTypeOK' /\ OneKind'
  OBVIOUS
<1> USE DEF Unfinished, Running, Writing, HasRows, HasHandle
<1>1. ASSUME NEW r \in Requests, BeginCall(r) PROVE RegTypeOK' /\ OneKind'
  <2>1. PICK op \in Operations, k \in Keys, new \in EntriesOf(registry) : Reads(r, op, k, new)
    BY <1>1, BeginReads
  <2>2. /\ calls' \in [Requests -> Calls \cup Others] /\ OthersWait(r)
        /\ calls'[r].pc = "upsert" /\ calls'[r].new = new /\ calls'[r].alone
    <3>1. new \in Entries
      BY KindsAreEntries
    <3> QED
      BY <2>1, <3>1, ReadsMoves
  <2>3. UNCHANGED <<registry, up, memory, disk, file, temp, told, pipeline, indexed>>
    BY <2>1 DEF Reads
  <2> QED
    BY <2>2, <2>3 DEF RegTypeOK, OneKind, CallOfKind, OthersWait, InStep
<1>2. ASSUME NEW r \in Requests, UpsertEntry(r) PROVE RegTypeOK' /\ OneKind'
  <2>1. Moved(r, "rows")
    BY <1>2, UpsertMoves
  <2>2. /\ memory' = [memory EXCEPT ![calls[r].key] = calls[r].new]
        /\ UNCHANGED <<registry, up, disk, file, temp, told, pipeline, indexed>>
        /\ calls[r].pc \in Unfinished
    BY <1>2 DEF UpsertEntry, InStep
  <2>3. calls[r].new \in EntriesOf(registry) /\ calls[r].key \in Keys
    BY <2>2, EntryCallFields DEF OneKind, CallOfKind
  <2>4. memory' \in RowsOf(registry)
    BY <2>2, <2>3 DEF OneKind, RowsOf
  <2>5. CallOfKind(r)'
    BY <2>1, <2>2, <2>3 DEF Moved, CallOfKind, InStep
  <2>6. ASSUME NEW q \in Requests \ {r} PROVE CallOfKind(q)'
    <3>1. CASE calls[q].pc \notin Writing
      BY <3>1, <1>2, <2>2, UpsertMoves DEF OneKind, CallOfKind, InStep
    <3>2. CASE calls[q].pc \in Writing
      BY <3>2, <1>2, <2>2, UpsertMoves DEF OneKind, CallOfKind, InStep, Moved
    <3> QED
      BY <3>1, <3>2
  <2> QED
    BY <2>1, <2>2, <2>4, <2>5, <2>6, KindsAreEntries DEF RegTypeOK, OneKind, Moved
<1>3. ASSUME NEW r \in Requests, ListRows(r) PROVE RegTypeOK' /\ OneKind'
  <2>1. calls[r] \in Calls
    BY <1>3, EntryCallFields DEF ListRows, InStep
  <2>2. calls' = [calls EXCEPT ![r] = [calls[r] EXCEPT !.pc = "open", !.rows = memory]]
        /\ UNCHANGED <<registry, up, memory, disk, file, temp, told, pipeline, indexed>>
    BY <1>3 DEF ListRows
  <2>3. [calls[r] EXCEPT !.pc = "open", !.rows = memory] \in Calls
    BY <2>1 DEF Calls, RegTypeOK
  <2> QED
    BY <1>3, <2>1, <2>2, <2>3 DEF RegTypeOK, OneKind, CallOfKind, InStep, Calls, ListRows
<1>4. ASSUME NEW r \in Requests, Open(r) PROVE RegTypeOK' /\ OneKind'
  <2> DEFINE f == IF temp = Missing THEN r ELSE temp
  <2>1. calls[r] \in Calls /\ f \in Files
    BY <1>4, EntryCallFields DEF Open, InStep, RegTypeOK, Files
  <2>2. /\ calls' = [calls EXCEPT ![r] = [calls[r] EXCEPT !.pc = "flush", !.handle = f]]
        /\ temp' = f /\ disk' = [disk EXCEPT ![f] = Garbled]
        /\ UNCHANGED <<registry, up, memory, file, told, pipeline, indexed>>
    BY <1>4 DEF Open
  <2>3. [calls[r] EXCEPT !.pc = "flush", !.handle = f] \in Calls
    BY <2>1 DEF Calls
  <2> QED
    BY <1>4, <2>1, <2>2, <2>3 DEF RegTypeOK, OneKind, CallOfKind, InStep, Calls, Open
<1>5. ASSUME NEW r \in Requests, Flush(r) PROVE RegTypeOK' /\ OneKind'
  <2>1. Moved(r, "replace") /\ OthersWait(r)
        /\ calls'[r].rows = calls[r].rows /\ calls'[r].handle = calls[r].handle
    BY <1>5, GoesMoves DEF Flush, InStep
  <2>2. calls[r].rows \in RowsOf(registry) /\ calls[r].handle \in Files
    BY <1>5 DEF Flush, InStep, OneKind, CallOfKind
  <2>3. PICK content \in {calls[r].rows, Garbled} :
           disk' = [disk EXCEPT ![calls[r].handle] = content]
    BY <1>5 DEF Flush
  <2>4. UNCHANGED <<registry, up, memory, file, temp, told, pipeline, indexed>>
    BY <1>5 DEF Flush
  <2>5. calls[r].rows \in Rows
    BY <2>2, KindsAreEntries
  <2> QED
    BY <1>5, <2>1, <2>2, <2>3, <2>4, <2>5
       DEF RegTypeOK, OneKind, CallOfKind, InStep, Moved, OthersWait, Flush
<1>6. ASSUME NEW r \in Requests, Replace(r) PROVE RegTypeOK' /\ OneKind'
  <2>1. PICK pc \in {"failed", "audit"} : Goes(r, pc)
    BY <1>6 DEF Replace
  <2>2. Moved(r, pc) /\ OthersWait(r)
    BY <1>6, <2>1, GoesMoves DEF Replace, InStep
  <2>3. file' \in Files /\ temp' \in Files \cup {Missing}
        /\ UNCHANGED <<registry, up, memory, disk, told, pipeline, indexed>>
    BY <1>6 DEF Replace, RegTypeOK
  <2> QED
    BY <1>6, <2>2, <2>3
       DEF RegTypeOK, OneKind, CallOfKind, InStep, Moved, OthersWait, Replace
<1>7. ASSUME NEW r \in Requests, WriteFails(r) \/ AuditFails(r) PROVE RegTypeOK' /\ OneKind'
  <2>1. Moved(r, "failed") /\ OthersWait(r) /\ calls[r].pc \in Unfinished
    BY <1>7, GoesMoves DEF WriteFails, AuditFails, InStep
  <2>2. UNCHANGED <<registry, up, memory, disk, file, temp, told, pipeline, indexed>>
    BY <1>7 DEF WriteFails, AuditFails
  <2> QED
    BY <2>1, <2>2 DEF RegTypeOK, OneKind, CallOfKind, InStep, Moved, OthersWait
<1>8. ASSUME NEW r \in Requests, Audit(r) PROVE RegTypeOK' /\ OneKind'
  <2>1. calls' \in [Requests -> Calls \cup Others] /\ calls'[r].pc = "done" /\ OthersWait(r)
    BY <1>8, AuditEnds
  <2>2. /\ told' = told \cup {<<calls[r].key, calls[r].new>>}
        /\ UNCHANGED <<registry, up, memory, disk, file, temp, pipeline, indexed>>
    BY <1>8 DEF Audit
  <2>3. calls[r].key \in Keys /\ calls[r].new \in Entries
    BY <1>8, EntryCallFields DEF Audit, InStep
  <2> QED
    BY <2>1, <2>2, <2>3 DEF RegTypeOK, OneKind, CallOfKind, InStep, OthersWait
<1>9. ASSUME NEW k \in Keys, BuildPipeline(k) PROVE RegTypeOK' /\ OneKind'
  <2>1. /\ memory[k] \in EmbeddingModelVersions
        /\ pipeline' = <<k, memory[k]>>
        /\ UNCHANGED <<registry, up, memory, disk, file, temp, calls, told, indexed>>
    BY <1>9 DEF BuildPipeline, Embedding, OneKind, RowsOf, EntriesOf
  <2> QED
    BY <2>1 DEF RegTypeOK, OneKind, CallOfKind, InStep
<1>10. ASSUME NEW class \in Classes, IndexSource(class) PROVE RegTypeOK' /\ OneKind'
  <2>1. /\ pipeline[1] \in Keys
        /\ indexed' = indexed \cup {<<pipeline[1], class>>}
        /\ UNCHANGED <<registry, up, memory, disk, file, temp, calls, told, pipeline>>
    BY <1>10 DEF IndexSource, RegTypeOK
  <2> QED
    BY <2>1 DEF RegTypeOK, OneKind, CallOfKind, InStep
<1>11. ASSUME RestartProcess PROVE RegTypeOK' /\ OneKind'
  <2>1. /\ up' = (disk[file] # Garbled)
        /\ memory' = IF up' THEN disk[file] ELSE memory
        /\ calls' = [r \in Requests |->
                     IF calls[r].pc \in Running THEN [calls[r] EXCEPT !.pc = "lost"] ELSE calls[r]]
        /\ pipeline' = Missing
        /\ UNCHANGED <<registry, disk, file, temp, told, indexed>>
    BY <1>11 DEF RestartProcess
  <2>2. memory' \in RowsOf(registry)
    BY <2>1 DEF RegTypeOK, OneKind
  <2>3. ASSUME NEW r \in Requests
        PROVE  calls'[r] \in Calls \cup Others /\ CallOfKind(r)'
    <3>1. CASE calls[r].pc \in Running
      <4>1. calls[r] \in Calls
        BY <3>1, EntryCallFields
      <4>2. calls'[r] = [calls[r] EXCEPT !.pc = "lost"]
        BY <2>1, <3>1
      <4> QED
        BY <2>1, <3>1, <4>1, <4>2 DEF OneKind, CallOfKind, InStep, Calls
    <3>2. CASE calls[r].pc \notin Running
      BY <2>1, <3>2 DEF RegTypeOK, OneKind, CallOfKind, InStep
    <3> QED
      BY <3>1, <3>2
  <2>4. calls' \in [Requests -> Calls \cup Others]
    BY <2>1, <2>3
  <2>5. memory' \in Rows /\ up' \in BOOLEAN
    BY <2>1, <2>2, KindsAreEntries
  <2> QED
    BY <2>1, <2>2, <2>3, <2>4, <2>5 DEF RegTypeOK, OneKind
<1>12. CASE UNCHANGED regVars
  BY <1>12 DEF regVars, RegTypeOK, OneKind, CallOfKind, InStep
<1> QED
  BY <1>1, <1>2, <1>3, <1>4, <1>5, <1>6, <1>7, <1>8, <1>9, <1>10, <1>11, <1>12
     DEF RegNext, Step

(* A call that was not told of by an event stays what it is, or is told of.      *)
Survives(r) ==
    \/ calls'[r].pc \in Unfinished /\ calls'[r].key = calls[r].key /\ calls'[r].new = calls[r].new
    \/ <<calls[r].key, calls[r].new>> \in told'

LEMMA CallsSurvive ==
    ASSUME RegTypeOK, OneKind, [RegNext]_regVars
    PROVE  /\ registry' = registry /\ told \subseteq told'
           /\ \A q \in Requests : calls[q].pc \in Unfinished => Survives(q)
<1> DEFINE Result ==
      /\ registry' = registry /\ told \subseteq told'
      /\ \A q \in Requests : calls[q].pc \in Unfinished => Survives(q)
<1> USE DEF Unfinished, Running, Writing, Survives
<1>1. ASSUME NEW r \in Requests, BeginCall(r) PROVE Result
  <2>1. PICK op \in Operations, k \in Keys, new \in EntriesOf(registry) : Reads(r, op, k, new)
    BY <1>1, BeginReads
  <2>2. new \in Entries
    BY KindsAreEntries
  <2>3. OthersWait(r)
    BY <2>1, <2>2, ReadsMoves
  <2> QED
    BY <2>1, <2>3 DEF Reads, InStep, OthersWait
<1>2. ASSUME NEW r \in Requests, UpsertEntry(r) PROVE Result
  <2>1. Moved(r, "rows") /\ UNCHANGED <<registry, told>>
    BY <1>2, UpsertMoves DEF UpsertEntry
  <2>2. ASSUME NEW q \in Requests \ {r}, calls[q].pc \in Unfinished PROVE Survives(q)
    <3>1. CASE calls[q].pc \notin Writing
      BY <2>2, <3>1, <1>2, UpsertMoves
    <3>2. CASE calls[q].pc \in Writing
      BY <3>2, <1>2, UpsertMoves DEF Moved
    <3> QED
      BY <3>1, <3>2
  <2> QED
    BY <2>1, <2>2 DEF Moved
<1>3. ASSUME NEW r \in Requests, ListRows(r) \/ Open(r) PROVE Result
  <2>1. calls[r] \in Calls
    BY <1>3, EntryCallFields DEF ListRows, Open, InStep
  <2> QED
    BY <1>3, <2>1 DEF RegTypeOK, Calls, ListRows, Open
<1>4. ASSUME NEW r \in Requests, NEW pc \in Unfinished, Goes(r, pc), calls[r].pc \in Unfinished,
             UNCHANGED <<registry, told>>
      PROVE  Result
  BY <1>4, GoesMoves DEF Moved, OthersWait
<1>5. ASSUME NEW r \in Requests, Flush(r) \/ Replace(r) \/ WriteFails(r) \/ AuditFails(r)
      PROVE  Result
  <2>1. PICK pc \in Unfinished : Goes(r, pc)
    BY <1>5 DEF Flush, Replace, WriteFails, AuditFails
  <2>2. calls[r].pc \in Unfinished /\ UNCHANGED <<registry, told>>
    BY <1>5 DEF Flush, Replace, WriteFails, AuditFails, InStep
  <2> QED
    BY <1>4, <2>1, <2>2
<1>6. ASSUME NEW r \in Requests, Audit(r) PROVE Result
  BY <1>6, AuditEnds DEF Audit, OthersWait
<1>7. ASSUME RestartProcess PROVE Result
  <2>1. ASSUME NEW q \in Requests, calls[q].pc \in Unfinished PROVE Survives(q)
    <3>1. calls[q] \in Calls
      BY <2>1, EntryCallFields
    <3> QED
      BY <1>7, <2>1, <3>1 DEF RestartProcess, Calls
  <2> QED
    BY <1>7, <2>1 DEF RestartProcess
<1>8. ASSUME (\E k \in Keys : BuildPipeline(k)) \/ (\E class \in Classes : IndexSource(class))
             \/ UNCHANGED regVars
      PROVE  Result
  BY <1>8 DEF BuildPipeline, IndexSource, regVars
<1> QED
  BY <1>1, <1>2, <1>3, <1>5, <1>6, <1>7, <1>8 DEF RegNext, Step

LEMMA KnownStays ==
    ASSUME RegTypeOK, OneKind, [RegNext]_regVars
    PROVE  \A k \in Keys : \A m : KnownEntry(k, m) => KnownEntry(k, m)'
<1> SUFFICES ASSUME NEW k \in Keys, NEW m, KnownEntry(k, m) PROVE KnownEntry(k, m)'
  OBVIOUS
<1>1. registry' = registry /\ told \subseteq told'
  BY CallsSurvive
<1>2. CASE m = SeedRows(registry)[k] \/ <<k, m>> \in told
  BY <1>1, <1>2 DEF KnownEntry
<1>3. CASE \E r \in Requests : calls[r].pc \in Unfinished /\ calls[r].key = k /\ calls[r].new = m
  BY <1>3, CallsSurvive DEF KnownEntry, Survives
<1> QED
  BY <1>2, <1>3 DEF KnownEntry

(* Wherever an entry can be read from, it is known.                              *)
KnownRows(rows) == \A k \in Keys : KnownEntry(k, rows[k])
EntriesAreKnown ==
    /\ KnownRows(memory)
    /\ \A f \in Files : disk[f] # Garbled => KnownRows(disk[f])
    /\ \A r \in Requests : calls[r].pc \in HasRows => KnownRows(calls[r].rows)
    /\ pipeline # Missing => KnownEntry(pipeline[1], pipeline[2])

LEMMA InitKnown == RegInit => EntriesAreKnown /\ IndexedWasApproved
<1> SUFFICES ASSUME RegInit PROVE EntriesAreKnown /\ IndexedWasApproved
  OBVIOUS
<1>1. \A k \in Keys : KnownEntry(k, SeedRows(registry)[k])
  BY DEF KnownEntry
<1> QED
  BY <1>1 DEF RegInit, EntriesAreKnown, KnownRows, HasRows, IndexedWasApproved

(* Rows that are known stay known.                                               *)
LEMMA KnownRowsStay ==
    ASSUME RegTypeOK, OneKind, [RegNext]_regVars
    PROVE  \A rows : KnownRows(rows) => KnownRows(rows)'
  BY KnownStays DEF KnownRows

(* A step that copies no rows and reads no entry of the pipeline.                *)
LEMMA NothingRead ==
    ASSUME RegTypeOK, OneKind, EntriesAreKnown, [RegNext]_regVars,
           UNCHANGED <<memory, pipeline>>,
           \A f \in Files : disk'[f] # Garbled => disk'[f] = disk[f],
           \A r \in Requests : calls'[r].pc \in HasRows =>
              calls[r].pc \in HasRows /\ calls'[r].rows = calls[r].rows
    PROVE  EntriesAreKnown'
<1>1. /\ KnownRows(memory)'
      /\ \A f \in Files : disk'[f] # Garbled => KnownRows(disk[f])'
      /\ \A r \in Requests : calls'[r].pc \in HasRows => KnownRows(calls[r].rows)'
  BY KnownRowsStay DEF EntriesAreKnown, KnownRows
<1>2. pipeline' # Missing => KnownEntry(pipeline[1], pipeline[2])'
  BY KnownStays DEF EntriesAreKnown, RegTypeOK
<1> QED
  BY <1>1, <1>2 DEF EntriesAreKnown

LEMMA KnownStep == RegTypeOK /\ OneKind /\ EntriesAreKnown /\ [RegNext]_regVars => EntriesAreKnown'
<1> SUFFICES ASSUME RegTypeOK, OneKind, EntriesAreKnown, [RegNext]_regVars PROVE EntriesAreKnown'
  OBVIOUS
<1> USE DEF Unfinished, Running, Writing, HasRows
<1>1. ASSUME NEW r \in Requests, BeginCall(r) PROVE EntriesAreKnown'
  <2>1. PICK op \in Operations, k \in Keys, new \in EntriesOf(registry) : Reads(r, op, k, new)
    BY <1>1, BeginReads
  <2>2. new \in Entries
    BY KindsAreEntries
  <2>3. calls'[r].pc = "upsert" /\ OthersWait(r)
    BY <2>1, <2>2, ReadsMoves
  <2>4. UNCHANGED <<memory, pipeline, disk>>
    BY <2>1 DEF Reads
  <2> QED
    BY <2>3, <2>4, NothingRead DEF OthersWait
<1>2. ASSUME NEW r \in Requests, UpsertEntry(r) PROVE EntriesAreKnown'
  <2>1. Moved(r, "rows")
    BY <1>2, UpsertMoves
  <2>2. /\ memory' = [memory EXCEPT ![calls[r].key] = calls[r].new]
        /\ UNCHANGED <<registry, disk, pipeline>> /\ calls[r].pc \in Unfinished
    BY <1>2 DEF UpsertEntry, InStep
  <2>4. KnownRows(memory)'
    <3> SUFFICES ASSUME NEW k \in Keys PROVE KnownEntry(k, memory[k])'
      BY DEF KnownRows
    <3>1. CASE k = calls[r].key
      BY <2>1, <2>2, <3>1 DEF KnownEntry, Moved, RegTypeOK, Rows
    <3>2. CASE k # calls[r].key
      <4>1. memory'[k] = memory[k]
        BY <2>2, <3>2 DEF RegTypeOK, Rows
      <4> QED
        BY <4>1, KnownStays DEF EntriesAreKnown, KnownRows
    <3> QED
      BY <3>1, <3>2
  <2>5. ASSUME NEW q \in Requests, calls'[q].pc \in HasRows PROVE KnownRows(calls[q].rows)'
    <3>1. q # r
      BY <2>1, <2>5 DEF Moved
    <3>2. calls[q].pc \in HasRows /\ calls'[q].rows = calls[q].rows
      <4>1. CASE calls[q].pc \notin Writing
        BY <1>2, <2>5, <3>1, <4>1, UpsertMoves
      <4>2. CASE calls[q].pc \in Writing
        BY <1>2, <2>5, <3>1, <4>2, UpsertMoves DEF Moved
      <4> QED
        BY <4>1, <4>2
    <3> QED
      BY <3>2, KnownRowsStay DEF EntriesAreKnown, KnownRows
  <2>6. \A f \in Files : disk'[f] # Garbled => KnownRows(disk[f])'
    BY <2>2, KnownRowsStay DEF EntriesAreKnown, KnownRows
  <2>7. pipeline' # Missing => KnownEntry(pipeline[1], pipeline[2])'
    BY <2>2, KnownStays DEF EntriesAreKnown, RegTypeOK
  <2> QED
    BY <2>4, <2>5, <2>6, <2>7 DEF EntriesAreKnown
<1>3. ASSUME NEW r \in Requests, ListRows(r) PROVE EntriesAreKnown'
  <2>1. calls' = [calls EXCEPT ![r] = [calls[r] EXCEPT !.pc = "open", !.rows = memory]]
        /\ UNCHANGED <<memory, disk, pipeline>>
    BY <1>3 DEF ListRows
  <2>2. calls[r] \in Calls
    BY <1>3, EntryCallFields DEF ListRows, InStep
  <2>3. KnownRows(memory)' /\ calls'[r].rows = memory
    BY <2>1, <2>2, KnownRowsStay DEF EntriesAreKnown, KnownRows, RegTypeOK, Calls
  <2>4. ASSUME NEW q \in Requests, calls'[q].pc \in HasRows PROVE KnownRows(calls[q].rows)'
    <3>1. CASE q = r
      BY <2>1, <2>3, <3>1 DEF KnownRows
    <3>2. CASE q # r
      BY <2>1, <2>4, <3>2, KnownRowsStay DEF EntriesAreKnown, KnownRows, RegTypeOK
    <3> QED
      BY <3>1, <3>2
  <2>5. \A f \in Files : disk'[f] # Garbled => KnownRows(disk[f])'
    BY <2>1, KnownRowsStay DEF EntriesAreKnown, KnownRows
  <2>6. pipeline' # Missing => KnownEntry(pipeline[1], pipeline[2])'
    BY <2>1, KnownStays DEF EntriesAreKnown, RegTypeOK
  <2> QED
    BY <2>3, <2>4, <2>5, <2>6 DEF EntriesAreKnown
<1>4. ASSUME NEW r \in Requests, Open(r) PROVE EntriesAreKnown'
  <2>1. PICK f : /\ calls' = [calls EXCEPT ![r] = [calls[r] EXCEPT !.pc = "flush", !.handle = f]]
                 /\ disk' = [disk EXCEPT ![f] = Garbled]
    BY <1>4 DEF Open
  <2>2. UNCHANGED <<memory, pipeline>> /\ calls[r].pc = "open"
    BY <1>4 DEF Open, InStep
  <2>3. calls[r] \in Calls
    BY <2>2, EntryCallFields
  <2>4. \A g \in Files : disk'[g] # Garbled => disk'[g] = disk[g]
    BY <2>1 DEF RegTypeOK
  <2>5. \A q \in Requests : calls'[q].rows = calls[q].rows /\ (q # r => calls'[q].pc = calls[q].pc)
    BY <2>1, <2>3 DEF RegTypeOK, Calls
  <2> QED
    BY <2>2, <2>4, <2>5, NothingRead
<1>5. ASSUME NEW r \in Requests, Flush(r) PROVE EntriesAreKnown'
  <2>1. Moved(r, "replace") /\ OthersWait(r) /\ calls'[r].rows = calls[r].rows
    BY <1>5, GoesMoves DEF Flush, InStep
  <2>2. PICK content \in {calls[r].rows, Garbled} :
           disk' = [disk EXCEPT ![calls[r].handle] = content]
    BY <1>5 DEF Flush
  <2>3. UNCHANGED <<memory, pipeline>> /\ calls[r].pc = "flush"
    BY <1>5 DEF Flush, InStep
  <2>4. KnownRows(memory)' /\ KnownRows(calls[r].rows)'
    BY <2>1, <2>3, KnownRowsStay DEF EntriesAreKnown, KnownRows
  <2>5. ASSUME NEW f \in Files, disk'[f] # Garbled PROVE KnownRows(disk[f])'
    <3>1. CASE disk'[f] = disk[f]
      BY <2>5, <3>1, KnownRowsStay DEF EntriesAreKnown, KnownRows
    <3>2. CASE disk'[f] = calls[r].rows
      BY <2>1, <2>3, <3>2, KnownRowsStay DEF EntriesAreKnown, KnownRows
    <3> QED
      BY <2>2, <2>5, <3>1, <3>2 DEF RegTypeOK
  <2>6. \A q \in Requests : calls'[q].pc \in HasRows => KnownRows(calls[q].rows)'
    BY <2>1, <2>3, KnownRowsStay DEF EntriesAreKnown, KnownRows, OthersWait
  <2>7. pipeline' # Missing => KnownEntry(pipeline[1], pipeline[2])'
    BY <2>3, KnownStays DEF EntriesAreKnown, RegTypeOK
  <2> QED
    BY <2>4, <2>5, <2>6, <2>7 DEF EntriesAreKnown
<1>6. ASSUME NEW r \in Requests, Replace(r) \/ WriteFails(r) \/ AuditFails(r)
      PROVE  EntriesAreKnown'
  <2>1. PICK pc \in {"failed", "audit"} : Goes(r, pc)
    BY <1>6 DEF Replace, WriteFails, AuditFails
  <2>2. UNCHANGED <<memory, disk, pipeline>> /\ calls[r].pc \in Unfinished
    BY <1>6 DEF Replace, WriteFails, AuditFails, InStep
  <2>3. Moved(r, pc) /\ OthersWait(r)
    BY <2>1, <2>2, GoesMoves
  <2> QED
    BY <2>2, <2>3, NothingRead DEF Moved, OthersWait
<1>7. ASSUME NEW r \in Requests, Audit(r) PROVE EntriesAreKnown'
  <2>1. calls'[r].pc = "done" /\ OthersWait(r)
    BY <1>7, AuditEnds
  <2>2. UNCHANGED <<memory, disk, pipeline>>
    BY <1>7 DEF Audit
  <2> QED
    BY <2>1, <2>2, NothingRead DEF OthersWait
<1>8. ASSUME NEW k \in Keys, BuildPipeline(k) PROVE EntriesAreKnown'
  <2>1. pipeline' = <<k, memory[k]>> /\ UNCHANGED <<memory, disk, calls>>
    BY <1>8 DEF BuildPipeline
  <2>2. KnownEntry(k, memory[k])'
    BY <2>1, KnownStays DEF EntriesAreKnown, KnownRows
  <2>3. KnownEntry(pipeline[1], pipeline[2])'
    BY <2>1, <2>2 DEF KnownEntry
  <2> QED
    BY <2>1, <2>3, KnownRowsStay DEF EntriesAreKnown, KnownRows
<1>9. ASSUME NEW class \in Classes, IndexSource(class) PROVE EntriesAreKnown'
  BY <1>9, NothingRead DEF IndexSource
<1>10. ASSUME RestartProcess PROVE EntriesAreKnown'
  <2>1. /\ memory' = memory \/ (disk[file] # Garbled /\ memory' = disk[file])
        /\ pipeline' = Missing /\ disk' = disk
    BY <1>10 DEF RestartProcess
  <2>2. KnownRows(memory)'
    BY <2>1, KnownRowsStay DEF EntriesAreKnown, KnownRows, RegTypeOK
  <2>3. ASSUME NEW q \in Requests, calls'[q].pc \in HasRows PROVE KnownRows(calls[q].rows)'
    <3>1. calls[q].pc \notin Running
      <4> SUFFICES ASSUME calls[q].pc \in Running PROVE calls'[q].pc = "lost"
        BY <2>3
      <4>1. calls[q] \in Calls
        BY EntryCallFields
      <4> QED
        BY <1>10, <4>1 DEF RestartProcess, Calls
    <3>2. calls'[q] = calls[q]
      BY <1>10, <3>1 DEF RestartProcess
    <3> QED
      BY <2>3, <3>1, <3>2
  <2>4. \A f \in Files : disk'[f] # Garbled => KnownRows(disk[f])'
    BY <2>1, KnownRowsStay DEF EntriesAreKnown, KnownRows
  <2> QED
    BY <2>1, <2>2, <2>3, <2>4 DEF EntriesAreKnown
<1>11. CASE UNCHANGED regVars
  BY <1>11, NothingRead DEF regVars
<1> QED
  BY <1>1, <1>2, <1>3, <1>4, <1>5, <1>6, <1>7, <1>8, <1>9, <1>10, <1>11 DEF RegNext, Step

LEMMA IndexedStep ==
    RegTypeOK /\ OneKind /\ EntriesAreKnown /\ IndexedWasApproved /\ [RegNext]_regVars
        => IndexedWasApproved'
<1> SUFFICES ASSUME RegTypeOK, OneKind, EntriesAreKnown, IndexedWasApproved, [RegNext]_regVars,
                    NEW x \in indexed'
             PROVE  \E m \in EmbeddingModelVersions :
                       KnownEntry(x[1], m)' /\ m.approved /\ x[2] \in m.classes
  BY DEF IndexedWasApproved
<1>1. CASE x \in indexed
  <2>1. x[1] \in Keys
    BY <1>1 DEF RegTypeOK
  <2> QED
    BY <1>1, <2>1, KnownStays DEF IndexedWasApproved
<1>2. ASSUME NEW class \in Classes, IndexSource(class)
      PROVE  x \in indexed \/ x = <<pipeline[1], class>>
  BY <1>2 DEF IndexSource
<1>3. CASE \E class \in Classes : IndexSource(class) /\ x = <<pipeline[1], class>>
  <2>1. PICK class \in Classes : IndexSource(class) /\ x = <<pipeline[1], class>>
    BY <1>3
  <2>2. /\ pipeline[1] \in Keys /\ pipeline[2] \in EmbeddingModelVersions
        /\ KnownEntry(pipeline[1], pipeline[2])
        /\ pipeline[2].approved /\ class \in pipeline[2].classes
    BY <2>1 DEF IndexSource, ModelAllows, RegTypeOK, EntriesAreKnown
  <2> QED
    BY <2>1, <2>2, KnownStays
<1>4. indexed' = indexed \/ \E class \in Classes : IndexSource(class)
  BY DEF RegNext, Step, BeginCall, Register, Approve, Retire, UpdateTenantAiSettings,
         Reads, UpsertEntry, ListRows, Open, Flush, Replace, WriteFails, Audit,
         AuditFails, BuildPipeline, RestartProcess, regVars
<1> QED
  BY <1>1, <1>2, <1>3, <1>4

(* The invariant of what is known, and the two results it gives.                 *)
KnownInv == RegTypeOK /\ OneKind /\ EntriesAreKnown /\ IndexedWasApproved

LEMMA KnownInvariance == RegSpec => []KnownInv
<1>1. RegInit => KnownInv
  BY InitKind, InitKnown DEF KnownInv
<1>2. KnownInv /\ [RegNext]_regVars => KnownInv'
  BY KindStep, KnownStep, IndexedStep DEF KnownInv
<1> QED
  BY <1>1, <1>2, PTL DEF RegSpec

(* The dictionary, the files and the calls of a registry stay well formed, for any *)
(* number of calls, keys and data classes.                                       *)
THEOREM RegistryTypeCorrect == RegSpec => []RegTypeOK
<1>1. KnownInv => RegTypeOK
  BY DEF KnownInv
<1> QED
  BY <1>1, KnownInvariance, PTL

(* However calls overlap, fail and are lost in restarts, an entry of the dictionary *)
(* is the seed's, or an audit event tells of it, or its call is under way or failed. *)
THEOREM EntriesAreTold == RegSpec => []EntriesAreAudited
<1>1. KnownInv => EntriesAreAudited
  BY DEF KnownInv, EntriesAreKnown, KnownRows, EntriesAreAudited
<1> QED
  BY <1>1, KnownInvariance, PTL

(* Sources of a class are only indexed with a model version that the seed or some *)
(* call has approved for it, however stale the pipeline's copy is.               *)
THEOREM OnlyApprovedIndex == RegSpec => []IndexedWasApproved
<1>1. KnownInv => IndexedWasApproved
  BY DEF KnownInv
<1> QED
  BY <1>1, KnownInvariance, PTL

-----------------------------------------------------------------------------
(* The copy of a call that is about to store it has kept what it must keep.      *)
CopyKeeps(r) ==
    InStep(r, "upsert") =>
        /\ calls[r].op = "register" => calls[r].seen = Missing
        /\ calls[r].op # "register" =>
              \A f \in (DOMAIN calls[r].seen) \ Sets[calls[r].op] :
                 calls[r].new[f] = calls[r].seen[f]
CopiesKeep == \A r \in Requests : CopyKeeps(r)

(* Only Begin brings a call to its upsert, and no other step changes its copy.   *)
LEMMA UpsertsBegin ==
    ASSUME RegTypeOK, OneKind, [RegNext]_regVars, NEW q \in Requests, InStep(q, "upsert")',
           ~ BeginCall(q)
    PROVE  calls'[q] = calls[q]
<1> USE DEF Unfinished, Running, Writing, InStep
<1>1. ASSUME NEW r \in Requests, BeginCall(r) PROVE calls'[q] = calls[q]
  <2>1. PICK op \in Operations, k \in Keys, new \in EntriesOf(registry) : Reads(r, op, k, new)
    BY <1>1, BeginReads
  <2>2. new \in Entries
    BY KindsAreEntries
  <2>3. OthersWait(r)
    BY <2>1, <2>2, ReadsMoves
  <2> QED
    BY <1>1, <2>3 DEF OthersWait
<1>2. ASSUME NEW r \in Requests, UpsertEntry(r) PROVE calls'[q] = calls[q]
  BY <1>2, UpsertMoves DEF Moved
<1>3. ASSUME NEW r \in Requests, ListRows(r) \/ Open(r) PROVE calls'[q] = calls[q]
  <2>1. calls[r] \in Calls
    BY <1>3, EntryCallFields DEF ListRows, Open
  <2> QED
    BY <1>3, <2>1 DEF RegTypeOK, Calls, ListRows, Open
<1>4. ASSUME NEW r \in Requests, Flush(r) \/ Replace(r) \/ WriteFails(r) \/ AuditFails(r)
      PROVE  calls'[q] = calls[q]
  <2>1. PICK pc \in Unfinished \ {"upsert"} : Goes(r, pc)
    BY <1>4 DEF Flush, Replace, WriteFails, AuditFails
  <2>2. calls[r].pc \in Unfinished
    BY <1>4 DEF Flush, Replace, WriteFails, AuditFails
  <2> QED
    BY <2>1, <2>2, GoesMoves DEF Moved, OthersWait
<1>5. ASSUME NEW r \in Requests, Audit(r) PROVE calls'[q] = calls[q]
  BY <1>5, AuditEnds DEF OthersWait
<1>6. ASSUME RestartProcess PROVE calls'[q] = calls[q]
  <2>1. CASE calls[q].pc \in Running
    BY <1>6, <2>1, EntryCallFields DEF RestartProcess, Calls
  <2>2. CASE calls[q].pc \notin Running
    BY <1>6, <2>2 DEF RestartProcess
  <2> QED
    BY <2>1, <2>2
<1>7. ASSUME (\E k \in Keys : BuildPipeline(k)) \/ (\E class \in Classes : IndexSource(class))
             \/ UNCHANGED regVars
      PROVE  calls'[q] = calls[q]
  BY <1>7 DEF BuildPipeline, IndexSource, regVars
<1> QED
  BY <1>1, <1>2, <1>3, <1>4, <1>5, <1>6, <1>7 DEF RegNext, Step

LEMMA CopiesStep == RegTypeOK /\ OneKind /\ CopiesKeep /\ [RegNext]_regVars => CopiesKeep'
<1> SUFFICES ASSUME RegTypeOK, OneKind, CopiesKeep, [RegNext]_regVars, NEW r \in Requests,
                    InStep(r, "upsert")'
             PROVE  CopyKeeps(r)'
  BY DEF CopiesKeep, CopyKeeps
<1>1. CASE BeginCall(r)
  <2>1. PICK op \in Operations, k \in Keys, new \in EntriesOf(registry) :
           /\ Reads(r, op, k, new)
           /\ op = "register" => memory[k] = Missing
           /\ op # "register" => \A f \in (DOMAIN memory[k]) \ Sets[op] : new[f] = memory[k][f]
    BY <1>1, BeginReads
  <2>2. new \in Entries
    BY KindsAreEntries
  <2>3. calls'[r].op = op /\ calls'[r].seen = memory[k] /\ calls'[r].new = new
    BY <2>1, <2>2, ReadsMoves
  <2> QED
    BY <2>1, <2>3 DEF CopyKeeps
<1>2. CASE ~ BeginCall(r)
  <2>1. calls'[r] = calls[r]
    BY <1>2, UpsertsBegin
  <2> QED
    BY <2>1 DEF CopiesKeep, CopyKeeps, InStep
<1> QED
  BY <1>1, <1>2

LEMMA CopiesInvariance == RegSpec => [](RegTypeOK /\ OneKind /\ CopiesKeep)
<1>1. RegInit => CopiesKeep
  BY DEF RegInit, CopiesKeep, CopyKeeps, InStep
<1> QED
  BY <1>1, InitKind, KindStep, CopiesStep, PTL DEF RegSpec

(* The step's part of ChangesStay.                                               *)
UndoneBy(k, f) ==
    \/ \E r \in Requests :
          /\ InStep(r, "upsert") /\ InStep(r, "rows")' /\ calls[r].key = k
          /\ \/ calls[r].op # "register" /\ f \in Sets[calls[r].op]
             \/ calls[r].seen # memory[k]
    \/ RestartProcess

LEMMA ChangeHasACause ==
    ASSUME RegTypeOK, OneKind, CopiesKeep, [RegNext]_regVars,
           NEW k \in Keys, memory[k] # Missing,
           NEW f \in DOMAIN memory[k], memory'[k][f] # memory[k][f]
    PROVE  UndoneBy(k, f)
<1>1. \/ \E r \in Requests : UpsertEntry(r)
      \/ RestartProcess
      \/ memory' = memory
  BY DEF RegNext, Step, BeginCall, Register, Approve, Retire, UpdateTenantAiSettings,
         Reads, ListRows, Open, Flush, Replace, WriteFails, Audit, AuditFails,
         BuildPipeline, IndexSource, regVars
<1>2. ASSUME NEW r \in Requests, UpsertEntry(r) PROVE UndoneBy(k, f)
  <2>1. InStep(r, "upsert") /\ InStep(r, "rows")'
    BY <1>2, UpsertMoves DEF UpsertEntry, Moved, InStep
  <2>2. calls[r].key = k /\ memory'[k] = calls[r].new
    BY <1>2 DEF UpsertEntry, RegTypeOK, Rows
  <2>3. CASE calls[r].seen # memory[k]
    BY <2>1, <2>2, <2>3 DEF UndoneBy
  <2>4. CASE calls[r].seen = memory[k]
    <3>1. calls[r].op # "register"
      BY <2>1, <2>4 DEF CopiesKeep, CopyKeeps
    <3>2. f \in Sets[calls[r].op]
      BY <2>1, <2>2, <2>4, <3>1 DEF CopiesKeep, CopyKeeps
    <3> QED
      BY <2>1, <2>2, <3>1, <3>2 DEF UndoneBy
  <2> QED
    BY <2>3, <2>4
<1> QED
  BY <1>1, <1>2 DEF UndoneBy

(* A retirement, an approval and a tenant's setting are undone only by a call that *)
(* has read an older entry, or by a restart.                                     *)
THEOREM OnlyStaleCopiesUndo == RegSpec => ChangesStay
<1>1. RegTypeOK /\ OneKind /\ CopiesKeep /\ [RegNext]_regVars =>
        [\A k \in Keys :
           memory[k] # Missing /\ memory'[k] # Missing =>
              \A f \in DOMAIN memory[k] : memory'[k][f] # memory[k][f] => UndoneBy(k, f)]_regVars
  BY ChangeHasACause
<1> QED
  BY <1>1, CopiesInvariance, PTL DEF RegSpec, ChangesStay, UndoneBy
-----------------------------------------------------------------------------

(* No step makes a call count as alone again, or brings it back to before the    *)
(* opening of its file.                                                          *)
BeforeFile == {"new", "upsert", "rows", "open"}
LEMMA NoWayBack ==
    ASSUME RegTypeOK, OneKind, [RegNext]_regVars, NEW q \in Requests
    PROVE  /\ calls'[q].alone => calls[q].alone
           /\ calls'[q].pc \in BeforeFile => calls[q].pc \in BeforeFile
<1> DEFINE Result == /\ calls'[q].alone => calls[q].alone
                     /\ calls'[q].pc \in BeforeFile => calls[q].pc \in BeforeFile
<1> USE DEF Unfinished, Running, Writing, BeforeFile, InStep
<1>1. ASSUME NEW r \in Requests, BeginCall(r) PROVE Result
  <2>1. PICK op \in Operations, k \in Keys, new \in EntriesOf(registry) : Reads(r, op, k, new)
    BY <1>1, BeginReads
  <2>2. new \in Entries
    BY KindsAreEntries
  <2>3. OthersWait(r) /\ calls[r].pc = "new" /\ calls[r].alone
    BY <2>1, <2>2, ReadsMoves DEF Reads, OneKind, CallOfKind
  <2> QED
    BY <2>3 DEF OthersWait
<1>2. ASSUME NEW r \in Requests, UpsertEntry(r) PROVE Result
  <2>1. calls[r].pc = "upsert" /\ Moved(r, "rows")
    BY <1>2, UpsertMoves DEF UpsertEntry
  <2>2. CASE q = r
    <3>1. calls[r].alone
      BY <1>2, <2>1 DEF OneKind, CallOfKind
    <3> QED
      BY <2>1, <2>2, <3>1
  <2>3. CASE q # r
    BY <1>2, <2>3, UpsertMoves DEF Moved
  <2> QED
    BY <2>2, <2>3
<1>3. ASSUME NEW r \in Requests, ListRows(r) \/ Open(r) PROVE Result
  <2>1. calls[r] \in Calls
    BY <1>3, EntryCallFields DEF ListRows, Open
  <2> QED
    BY <1>3, <2>1 DEF RegTypeOK, Calls, ListRows, Open
<1>4. ASSUME NEW r \in Requests, Flush(r) \/ Replace(r) \/ WriteFails(r) \/ AuditFails(r)
      PROVE  Result
  <2>1. PICK pc \in Unfinished \ BeforeFile : Goes(r, pc)
    BY <1>4 DEF Flush, Replace, WriteFails, AuditFails
  <2>2. calls[r].pc \in Unfinished
    BY <1>4 DEF Flush, Replace, WriteFails, AuditFails
  <2> QED
    BY <2>1, <2>2, GoesMoves DEF Moved, OthersWait
<1>5. ASSUME NEW r \in Requests, Audit(r) PROVE Result
  BY <1>5, AuditEnds DEF OthersWait
<1>6. ASSUME RestartProcess PROVE Result
  <2>1. CASE calls[q].pc \in Running
    <3>1. calls[q] \in Calls
      BY <2>1, EntryCallFields
    <3> QED
      BY <1>6, <2>1, <3>1 DEF RestartProcess, Calls
  <2>2. CASE calls[q].pc \notin Running
    BY <1>6, <2>2 DEF RestartProcess
  <2> QED
    BY <2>1, <2>2
<1>7. ASSUME (\E k \in Keys : BuildPipeline(k)) \/ (\E class \in Classes : IndexSource(class))
             \/ UNCHANGED regVars
      PROVE  Result
  BY <1>7 DEF BuildPipeline, IndexSource, regVars
<1> QED
  BY <1>1, <1>2, <1>3, <1>4, <1>5, <1>6, <1>7 DEF RegNext, Step

LEMMA AloneBefore == ASSUME RegTypeOK, OneKind, [RegNext]_regVars, Alone' PROVE Alone
  BY NoWayBack DEF Alone

(* The registry's file and the temporary one are two files, and neither is that  *)
(* of a call that has not opened one yet.                                        *)
FilesDiffer ==
    /\ temp # file
    /\ \A r \in Requests : calls[r].pc \in BeforeFile => r \notin {file, temp}

LEMMA FilesDifferStep == RegTypeOK /\ OneKind /\ FilesDiffer /\ [RegNext]_regVars => FilesDiffer'
<1> SUFFICES ASSUME RegTypeOK, OneKind, FilesDiffer, [RegNext]_regVars PROVE FilesDiffer'
  OBVIOUS
<1>1. ASSUME NEW r \in Requests, Open(r) PROVE FilesDiffer'
  <2>1. calls[r].pc = "open" /\ calls[r] \in Calls
    BY <1>1, EntryCallFields DEF Open, InStep, Unfinished, Running, Writing
  <2>2. temp' = (IF temp = Missing THEN r ELSE temp) /\ file' = file
    BY <1>1 DEF Open
  <2>3. calls'[r].pc = "flush" /\ \A q \in Requests \ {r} : calls'[q] = calls[q]
    BY <1>1, <2>1 DEF Open, RegTypeOK, Calls
  <2> QED
    BY <2>1, <2>2, <2>3 DEF FilesDiffer, BeforeFile
<1>2. ASSUME NEW r \in Requests, Replace(r) PROVE FilesDiffer'
  <2>1. \/ temp = Missing /\ UNCHANGED <<file, temp>>
        \/ temp # Missing /\ file' = temp /\ temp' = Missing
    BY <1>2 DEF Replace
  <2>2. Missing \notin Requests
    BY NamesAssumption DEF Files
  <2> QED
    BY <2>1, <2>2, NoWayBack DEF FilesDiffer
<1>3. CASE UNCHANGED <<file, temp>>
  BY <1>3, NoWayBack DEF FilesDiffer
<1>4. \/ \E r \in Requests : Open(r) \/ Replace(r)
      \/ UNCHANGED <<file, temp>>
  <2>1. ASSUME NEW r \in Requests, BeginCall(r) PROVE UNCHANGED <<file, temp>>
    BY <2>1 DEF BeginCall, Register, Approve, Retire, UpdateTenantAiSettings, Reads
  <2>2. ASSUME NEW r \in Requests, Step(r) PROVE Open(r) \/ Replace(r) \/ UNCHANGED <<file, temp>>
    BY <2>2 DEF Step, UpsertEntry, ListRows, Flush, WriteFails, Audit, AuditFails
  <2> QED
    BY <2>1, <2>2 DEF RegNext, BuildPipeline, IndexSource, RestartProcess, regVars
<1> QED
  BY <1>1, <1>2, <1>3, <1>4

(* While no two calls have been writing at the same time, the file has what the  *)
(* memory has, but for the calls that are writing, have failed or were lost.     *)
OneWriter == \A r, q \in Requests : calls[r].pc \in Writing /\ calls[q].pc \in Writing => r = q
WriterIsAhead(r) ==
    /\ calls[r].pc \in HasRows => calls[r].rows = memory
    /\ calls[r].pc \in HasHandle => calls[r].handle = temp /\ temp # Missing
    /\ InStep(r, "flush") => disk[temp] = Garbled
    /\ InStep(r, "replace") => disk[temp] = memory
SavedOrUnfinished(k) ==
    \/ disk[file][k] = memory[k]
    \/ \E r \in Requests : calls[r].pc \in Writing \cup {"failed", "lost"} /\ calls[r].key = k
FileIsCurrent ==
    /\ OneWriter
    /\ disk[file] # Garbled
    /\ \A r \in Requests : WriterIsAhead(r)
    /\ \A k \in Keys : SavedOrUnfinished(k)

LEMMA InitFiles == RegInit => FilesDiffer /\ FileIsCurrent
<1> SUFFICES ASSUME RegInit PROVE FilesDiffer /\ FileIsCurrent
  OBVIOUS
<1>1. memory \in Rows /\ disk[file] = memory
  BY InitKind DEF RegInit, RegTypeOK, Files
<1>2. \A r \in Requests : calls[r].pc = "new"
  BY DEF RegInit
<1>3. file = First /\ temp = Missing
  BY DEF RegInit
<1> QED
  BY <1>1, <1>2, <1>3, NamesAssumption
     DEF FilesDiffer, FileIsCurrent, OneWriter, WriterIsAhead, SavedOrUnfinished, HasRows,
         HasHandle, InStep, Writing, Files

LEMMA CurrentStep ==
    ASSUME RegTypeOK, OneKind, FilesDiffer, FileIsCurrent, [RegNext]_regVars, Alone'
    PROVE  FileIsCurrent'
<1> USE DEF Unfinished, Running, Writing, HasRows, HasHandle, InStep
<1>a. ASSUME NEW r \in Requests, calls[r].pc \in Writing
      PROVE  \A q \in Requests \ {r} : calls[q].pc \notin Writing
  BY <1>a DEF FileIsCurrent, OneWriter
<1>b. file \in Files /\ memory # Garbled
  BY NamesAssumption DEF RegTypeOK
<1>1. ASSUME NEW r \in Requests, BeginCall(r) PROVE FileIsCurrent'
  <2>1. PICK op \in Operations, k \in Keys, new \in EntriesOf(registry) : Reads(r, op, k, new)
    BY <1>1, BeginReads
  <2>2. new \in Entries
    BY KindsAreEntries
  <2>3. calls'[r].pc = "upsert" /\ calls[r].pc = "new" /\ OthersWait(r)
        /\ UNCHANGED <<memory, disk, file, temp>>
    BY <2>1, <2>2, ReadsMoves DEF Reads
  <2> QED
    BY <2>3 DEF FileIsCurrent, OneWriter, WriterIsAhead, SavedOrUnfinished, OthersWait
<1>2. ASSUME NEW r \in Requests, UpsertEntry(r) PROVE FileIsCurrent'
  <2>1. Moved(r, "rows") /\ UNCHANGED <<disk, file, temp>>
        /\ memory' = [memory EXCEPT ![calls[r].key] = calls[r].new]
    BY <1>2, UpsertMoves DEF UpsertEntry
  <2>2. calls'[r].alone
    BY DEF Alone
  <2>3. \A q \in Requests \ {r} : calls[q].pc \notin Writing /\ calls'[q] = calls[q]
    BY <1>2, <2>2, UpsertMoves
  <2>4. ASSUME NEW k \in Keys PROVE SavedOrUnfinished(k)'
    <3>1. CASE k = calls[r].key
      BY <2>1, <3>1 DEF SavedOrUnfinished, Moved
    <3>2. CASE k # calls[r].key
      <4>1. memory'[k] = memory[k]
        BY <2>1, <3>2 DEF RegTypeOK, Rows
      <4>2. calls[r].pc = "upsert"
        BY <1>2 DEF UpsertEntry
      <4> QED
        BY <2>1, <2>3, <4>1, <4>2 DEF FileIsCurrent, SavedOrUnfinished
    <3> QED
      BY <3>1, <3>2
  <2> QED
    BY <2>1, <2>3, <2>4 DEF FileIsCurrent, OneWriter, WriterIsAhead, Moved
<1>3. ASSUME NEW r \in Requests, ListRows(r) PROVE FileIsCurrent'
  <2>1. calls[r] \in Calls /\ calls[r].pc = "rows"
    BY <1>3, EntryCallFields DEF ListRows
  <2>2. /\ calls' = [calls EXCEPT ![r] = [calls[r] EXCEPT !.pc = "open", !.rows = memory]]
        /\ UNCHANGED <<memory, disk, file, temp>>
    BY <1>3 DEF ListRows
  <2>3. /\ calls'[r].pc = "open" /\ calls'[r].rows = memory /\ calls'[r].key = calls[r].key
        /\ OthersWait(r)
    BY <2>1, <2>2 DEF RegTypeOK, Calls, OthersWait
  <2> QED
    BY <1>a, <2>1, <2>2, <2>3
       DEF FileIsCurrent, OneWriter, WriterIsAhead, SavedOrUnfinished, OthersWait
<1>4. ASSUME NEW r \in Requests, Open(r) PROVE FileIsCurrent'
  <2> DEFINE f == IF temp = Missing THEN r ELSE temp
  <2>1. calls[r] \in Calls /\ calls[r].pc = "open"
    BY <1>4, EntryCallFields DEF Open
  <2>2. /\ calls' = [calls EXCEPT ![r] = [calls[r] EXCEPT !.pc = "flush", !.handle = f]]
        /\ temp' = f /\ disk' = [disk EXCEPT ![f] = Garbled]
        /\ UNCHANGED <<memory, file>>
    BY <1>4 DEF Open
  <2>3. f \in Files /\ f # Missing /\ f # file
    BY <2>1, NamesAssumption DEF RegTypeOK, Files, FilesDiffer, BeforeFile
  <2>4. /\ calls'[r].pc = "flush" /\ calls'[r].handle = f /\ calls'[r].rows = calls[r].rows
        /\ calls'[r].key = calls[r].key /\ OthersWait(r)
    BY <2>1, <2>2 DEF RegTypeOK, Calls, OthersWait
  <2>5. disk'[f] = Garbled /\ disk'[file] = disk[file]
    BY <1>b, <2>2, <2>3 DEF RegTypeOK
  <2> HIDE DEF f
  <2> QED
    BY <1>a, <2>1, <2>2, <2>3, <2>4, <2>5
       DEF FileIsCurrent, OneWriter, WriterIsAhead, SavedOrUnfinished, OthersWait
<1>5. ASSUME NEW r \in Requests, Flush(r) PROVE FileIsCurrent'
  <2>1. /\ Moved(r, "replace") /\ OthersWait(r) /\ calls[r].pc = "flush"
        /\ calls'[r].rows = calls[r].rows /\ calls'[r].handle = calls[r].handle
        /\ UNCHANGED <<memory, file, temp>>
    BY <1>5, GoesMoves DEF Flush
  <2>2. /\ calls[r].handle = temp /\ temp # Missing /\ disk[temp] = Garbled
        /\ calls[r].rows = memory
    BY <2>1 DEF FileIsCurrent, WriterIsAhead
  <2>3. temp \in Files /\ temp # file
    BY <2>2 DEF RegTypeOK, FilesDiffer
  <2>4. disk' = [disk EXCEPT ![temp] = memory]
    BY <1>5, <2>2 DEF Flush
  <2>5. disk'[temp] = memory /\ disk'[file] = disk[file]
    BY <1>b, <2>3, <2>4 DEF RegTypeOK
  <2> QED
    BY <1>a, <2>1, <2>2, <2>5
       DEF FileIsCurrent, OneWriter, WriterIsAhead, SavedOrUnfinished, OthersWait, Moved
<1>6. ASSUME NEW r \in Requests, Replace(r) PROVE FileIsCurrent'
  <2>1. calls[r].pc = "replace" /\ UNCHANGED <<memory, disk>>
    BY <1>6 DEF Replace
  <2>2. temp # Missing /\ disk[temp] = memory
    BY <2>1 DEF FileIsCurrent, WriterIsAhead
  <2>3. Goes(r, "audit") /\ file' = temp
    BY <1>6, <2>2 DEF Replace
  <2>4. calls'[r].pc = "audit" /\ OthersWait(r)
    BY <2>1, <2>3, GoesMoves DEF Moved
  <2> QED
    BY <1>a, <1>b, <2>1, <2>2, <2>3, <2>4
       DEF FileIsCurrent, OneWriter, WriterIsAhead, SavedOrUnfinished, OthersWait
<1>7. ASSUME NEW r \in Requests, WriteFails(r) \/ AuditFails(r) PROVE FileIsCurrent'
  <2>1. Moved(r, "failed") /\ OthersWait(r) /\ calls[r].pc \in Running
        /\ UNCHANGED <<memory, disk, file, temp>>
    BY <1>7, GoesMoves DEF WriteFails, AuditFails
  <2> QED
    BY <2>1
       DEF FileIsCurrent, OneWriter, WriterIsAhead, SavedOrUnfinished, OthersWait, Moved
<1>8. ASSUME NEW r \in Requests, Audit(r) PROVE FileIsCurrent'
  <2>1. calls'[r].pc = "done" /\ OthersWait(r) /\ calls[r].pc = "audit"
        /\ UNCHANGED <<memory, disk, file, temp>>
    BY <1>8, AuditEnds DEF Audit
  <2> QED
    BY <2>1 DEF FileIsCurrent, OneWriter, WriterIsAhead, SavedOrUnfinished, OthersWait
<1>9. ASSUME RestartProcess PROVE FileIsCurrent'
  <2>1. disk[file] # Garbled /\ memory' = disk[file] /\ UNCHANGED <<disk, file, temp>>
    BY <1>9 DEF RestartProcess, FileIsCurrent
  <2>2. ASSUME NEW q \in Requests PROVE calls'[q].pc \notin Running
    <3>1. CASE calls[q].pc \in Running
      BY <1>9, <3>1, EntryCallFields DEF RestartProcess, Calls
    <3>2. CASE calls[q].pc \notin Running
      BY <1>9, <3>2 DEF RestartProcess
    <3> QED
      BY <3>1, <3>2
  <2> QED
    BY <2>1, <2>2 DEF FileIsCurrent, OneWriter, WriterIsAhead, SavedOrUnfinished
<1>10. ASSUME (\E k \in Keys : BuildPipeline(k)) \/ (\E class \in Classes : IndexSource(class))
              \/ UNCHANGED regVars
       PROVE  FileIsCurrent'
  <2>1. UNCHANGED <<memory, disk, file, temp, calls>>
    BY <1>10 DEF BuildPipeline, IndexSource, regVars
  <2> QED
    BY <2>1 DEF FileIsCurrent, OneWriter, WriterIsAhead, SavedOrUnfinished
<1> QED
  BY <1>1, <1>2, <1>3, <1>4, <1>5, <1>6, <1>7, <1>8, <1>9, <1>10 DEF RegNext, Step

FilesInv == RegTypeOK /\ OneKind /\ FilesDiffer /\ (Alone => FileIsCurrent)

LEMMA FilesInvariance == RegSpec => []FilesInv
<1>1. RegInit => FilesInv
  BY InitKind, InitFiles DEF FilesInv
<1>2. FilesInv /\ [RegNext]_regVars => FilesInv'
  BY KindStep, FilesDifferStep, AloneBefore, CurrentStep DEF FilesInv
<1> QED
  BY <1>1, <1>2, PTL DEF RegSpec

LEMMA RestartLosesUnfinished ==
    ASSUME FilesInv, RestartProcess, Alone
    PROVE  /\ up'
           /\ \A k \in Keys :
                 memory'[k] # memory[k] =>
                     \E r \in Requests : calls[r].pc \in Unfinished /\ calls[r].key = k
<1>1. FileIsCurrent
  BY DEF FilesInv
<1>2. up' /\ memory' = disk[file]
  BY <1>1 DEF RestartProcess, FileIsCurrent
<1> QED
  BY <1>1, <1>2 DEF FileIsCurrent, SavedOrUnfinished, Unfinished, Running

(* As long as no two calls have been writing at the same time, the process can start *)
(* after any step, and a restart loses only what was never reported as done.     *)
THEOREM FinishedChangesSurvive == RegSpec => FinishedSurvivesRestart
<1>1. FilesInv /\ [RegNext]_regVars =>
        [RestartProcess /\ Alone =>
           /\ up'
           /\ \A k \in Keys :
                 memory'[k] # memory[k] =>
                     \E r \in Requests : calls[r].pc \in Unfinished /\ calls[r].key = k]_regVars
  BY RestartLosesUnfinished
<1> QED
  BY <1>1, FilesInvariance, PTL DEF RegSpec, FinishedSurvivesRestart
=============================================================================
