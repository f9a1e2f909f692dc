--------------------------- MODULE ModuleLifecycle ---------------------------
(***************************************************************************)
(* InMemoryModuleRegistry and the admin endpoints of app/main.py: the      *)
(* state of one module of one tenant and the calls of several tenant       *)
(* administrators.  Endpoints run in threads; a call records its audit     *)
(* event, reads the state and checks it, and later writes a changed copy   *)
(* of what it read.  The registry is in memory: a restart brings the seed  *)
(* back.                                                                   *)
(***************************************************************************)
CONSTANTS
    Admins,         \* calls that can be under way at the same time
    Seeded,         \* the default registry knows the module for this tenant
    Manifest        \* the migration manifest has the module's migrations

ASSUME SwitchesAssumption == Seeded \in BOOLEAN /\ Manifest \in BOOLEAN

VARIABLES
    module,         \* the registry's state of the module
    call,           \* the admin call of each administrator
    audited         \* target states of the tenant_module.* audit events

vars == <<module, call, audited>>

InWorkflow == {"decommission_requested", "decommission_blocked", "decommissioned"}
\* The statuses this registry writes or is seeded with, and "absent" for no entry.
Status == {"absent", "available", "enabled", "disabled", "suspended"} \cup InWorkflow
ComplianceAccess == {"enabled", "disabled", "suspended"} \cup (InWorkflow \ {"decommissioned"})

\* The decommission steps, each of which leaves its time and its evidence references.
WorkflowStep == {"request", "block", "cancel", "reopen", "complete"}
Operation == {"provision", "enable", "disable", "suspend"} \cup WorkflowStep

Module ==
    [status: Status, provisioned: BOOLEAN, migrated: BOOLEAN,
     features: BOOLEAN,         \* some feature is enabled
     evidence: SUBSET WorkflowStep]
Absent ==
    [status |-> "absent", provisioned |-> FALSE, migrated |-> FALSE,
     features |-> FALSE, evidence |-> {}]
Seed == IF Seeded THEN [Absent EXCEPT !.status = "available", !.features = TRUE] ELSE Absent

\* enabled_features of the command: absent, or a selection.
Selection == {"keep", "some", "none"}

Idle == [pc |-> "idle"]
Call == [pc: {"audited", "check", "write"}, op: Operation, select: Selection, seen: Module]

TypeOK ==
    /\ module \in Module
    /\ call \in [Admins -> {Idle} \cup Call]
    /\ audited \in SUBSET Status

Init ==
    /\ module = Seed
    /\ call = [a \in Admins |-> Idle]
    /\ audited = {}

-----------------------------------------------------------------------------
TargetBeforeProvisioning(op) ==
    CASE op \in {"provision", "disable"} -> "disabled"
      [] op = "cancel" -> "available"
      [] op = "enable" -> "enabled"
      [] op = "suspend" -> "suspended"
      [] op \in {"request", "reopen"} -> "decommission_requested"
      [] op = "block" -> "decommission_blocked"
      [] op = "complete" -> "decommissioned"
Target(op) ==
    CASE op \in {"provision", "disable", "cancel"} -> "disabled"
      [] op = "enable" -> "enabled"
      [] op = "suspend" -> "suspended"
      [] op \in {"request", "reopen"} -> "decommission_requested"
      [] op = "block" -> "decommission_blocked"
      [] op = "complete" -> "decommissioned"

\* What each operation requires of the state it has read.
EnablableAnyStatus(m) == m.provisioned /\ m.migrated
Enablable(m) == m.provisioned /\ m.status \notin InWorkflow /\ m.migrated
Requestable(m) == m.provisioned /\ m.status \in {"disabled", "suspended"}
UnderDecommission(m) ==
    m.status \in {"decommission_requested", "decommission_blocked"} /\ "request" \in m.evidence
Allowed(op, m) ==
    CASE op = "provision" -> m.status \in {"absent", "available"} /\ Manifest
      [] op = "enable" -> Enablable(m)
      [] op \in {"disable", "suspend"} -> m.status \notin InWorkflow \cup {"absent"}
      [] op = "request" -> Requestable(m)
      [] op = "reopen" ->
            m.status = "decommission_blocked" /\ {"request", "block"} \subseteq m.evidence
      [] op \in {"block", "cancel", "complete"} -> UnderDecommission(m)

Selected(select, m) == IF select = "keep" THEN m.features ELSE select = "some"

\* The references a workflow step supplies are merged into those the state has.
EvidenceWith(op, m) == m.evidence \cup {op}

Changed(op, select, m) ==
    CASE op = "provision" ->
            [status |-> "disabled", provisioned |-> TRUE, migrated |-> TRUE,
             features |-> Selected(select, m), evidence |-> {}]
      [] op = "enable" ->
            [m EXCEPT !.status = "enabled", !.features = Selected(select, m)]
      [] op \in {"disable", "suspend"} -> [m EXCEPT !.status = Target(op)]
      [] op \in WorkflowStep ->
            [m EXCEPT !.status = Target(op), !.features = FALSE,
                      !.evidence = EvidenceWith(op, m)]

\* TenantModuleState's validator; a state that fails it raises and is not stored.
Valid(m) ==
    /\ m.status \in InWorkflow => "request" \in m.evidence /\ ~m.features
    /\ m.status = "decommission_blocked" => "block" \in m.evidence
    /\ m.status = "decommissioned" => "complete" \in m.evidence
    /\ "cancel" \in m.evidence /\ m.status = "disabled" => ~m.features
    /\ "reopen" \in m.evidence => {"request", "block"} \subseteq m.evidence
-----------------------------------------------------------------------------
At(a, pc) == call[a].pc = pc
Return(a) == call' = [call EXCEPT ![a] = Idle]

\* The endpoint records the audit event before it calls the registry.
AuditedOutsideWorkflow(op) == IF op \in WorkflowStep THEN audited ELSE audited \cup {Target(op)}
AuditedWith(op) == audited \cup {Target(op)}

Begin(a, op, select) ==
    /\ At(a, "idle")
    /\ select = "keep" \/ op \in {"provision", "enable"}
    /\ audited' = AuditedWith(op)
    /\ call' = [call EXCEPT ![a] =
            [pc |-> "audited", op |-> op, select |-> select, seen |-> Absent]]
    /\ UNCHANGED module

ReadState(a) ==
    /\ At(a, "audited")
    /\ IF call[a].op = "request" \/ Allowed(call[a].op, module)
       THEN call' = [call EXCEPT ![a].seen = module,
                                 ![a].pc = IF call[a].op = "request" THEN "check" ELSE "write"]
       ELSE Return(a)
    /\ UNCHANGED <<module, audited>>

\* request_decommission calls decommission_check, which reads the state again.
DecommissionCheck(a) ==
    /\ At(a, "check")
    /\ IF Allowed("request", call[a].seen) /\ module.status \notin {"enabled", "decommissioned"}
       THEN call' = [call EXCEPT ![a].pc = "write"]
       ELSE Return(a)
    /\ UNCHANGED <<module, audited>>

Upsert(a) ==
    /\ At(a, "write")
    /\ LET new == Changed(call[a].op, call[a].select, call[a].seen)
       IN  module' = IF Valid(new) THEN new ELSE module
    /\ Return(a)
    /\ UNCHANGED audited

Restart ==
    /\ module' = Seed
    /\ call' = [a \in Admins |-> Idle]
    /\ UNCHANGED audited

Next ==
    \/ \E a \in Admins :
        \/ \E op \in Operation, select \in Selection : Begin(a, op, select)
        \/ ReadState(a) \/ DecommissionCheck(a) \/ Upsert(a)
    \/ Restart

Spec == Init /\ [][Next]_vars
-----------------------------------------------------------------------------
(* ADR-0058: a module cannot be enabled before its migrations and provisioning   *)
(* evidence pass, whatever calls are under way.                                  *)
EnabledIsProvisioned == module.status = "enabled" => module.provisioned /\ module.migrated

(* ADR-0058: compliance obligations are not optional.  Once a module was         *)
(* provisioned, compliance access ends only with a completed decommission that   *)
(* went through a request, with all features off.                                *)
ComplianceAccessKept ==
    module.provisioned /\ module.status \notin ComplianceAccess =>
        /\ module.status = "decommissioned"
        /\ {"request", "complete"} \subseteq module.evidence
        /\ ~module.features

(* Every status a module was ever given is in the audit trail, whatever calls    *)
(* and restarts came in between.                                                 *)
ChangesAreAudited == module.status \in {Seed.status} \cup audited

(* As long as the process lives, a decommissioned module stays decommissioned.   *)
DecommissionedIsFinal ==
    [][module.status = "decommissioned" => module'.status = "decommissioned" \/ Restart]_vars

\* The two ways the code has to undo a change: a call that writes a copy of a state
\* that is no longer the module's, and a restart.
StaleUpsert == \E a \in Admins : Upsert(a) /\ call[a].seen # module
Undone == Restart \/ StaleUpsert

(* Only a write of a stale copy or a restart brings a decommissioned module back:*)
(* no sequence of calls that do not overlap does.                                *)
FinalUnlessStale ==
    [][module.status = "decommissioned" => module'.status = "decommissioned" \/ Undone]_vars

(* COMPLIANCE_MATRIX.md CM-016: modules can be disabled tenant-wise.  No call    *)
(* under way, the administrator can disable an enabled module.                   *)
EnabledCanBeDisabled ==
    module.status = "enabled" => Valid(Changed("disable", "keep", module))
=============================================================================
