---------------------------- MODULE PgAuditStore ----------------------------
(***************************************************************************)
(* PgAuditLogger: the tables audit_events, audit_checkpoints and           *)
(* audit_worm_exports, and the transactions that write them.  A session is *)
(* one call of record or create_checkpoint on a connection of its own; its *)
(* statements interleave with those of every other process.  Statements    *)
(* read what is committed when they start (READ COMMITTED), and an         *)
(* exception or a lost connection rolls the transaction back, which frees  *)
(* the tenant's advisory lock.                                             *)
(***************************************************************************)
EXTENDS AuditEvents, Integers, FiniteSets

CONSTANTS
    Sessions,       \* concurrent calls
    Tenants,
    Free            \* the lock is not held

ASSUME NamesAssumption == Free \notin Sessions

VARIABLES
    events,         \* committed rows of audit_events, per tenant
    evidence,       \* committed rows of audit_checkpoints, per tenant
    exported,       \* the checkpoint columns copied into audit_worm_exports
    lock,           \* holder of pg_advisory_xact_lock, per tenant
    session

vars == <<events, evidence, exported, lock, session>>

Row == [seq: Nat \ {0}, event: Events, prev: Events \cup {Genesis}]
GenesisRow == [seq |-> 0, event |-> Genesis, prev |-> Genesis]
Evidence == [through: Nat, count: Nat, first: Events, last: Events]
NoEvidence == [through |-> 0, count |-> 0, first |-> Genesis, last |-> Genesis]

Idle == [pc |-> "idle"]
Recording ==
    [pc: {"open", "locked", "read", "written"}, op: {"record"},
     tenant: Tenants, event: Events, tail: Row \cup {GenesisRow}]
Checkpointing ==
    [pc: {"open", "locked", "read", "written"}, op: {"checkpoint"},
     tenant: Tenants, seen: Evidence \cup {NoEvidence}]

TypeOK ==
    /\ events \in [Tenants -> SUBSET Row]
    /\ evidence \in [Tenants -> SUBSET Evidence]
    /\ exported \in [Tenants -> SUBSET Evidence]
    /\ lock \in [Tenants -> Sessions \cup {Free}]
    /\ session \in [Sessions -> {Idle} \cup Recording \cup Checkpointing]

Init ==
    /\ events = [t \in Tenants |-> {}]
    /\ evidence = [t \in Tenants |-> {}]
    /\ exported = [t \in Tenants |-> {}]
    /\ lock = [t \in Tenants |-> Free]
    /\ session = [s \in Sessions |-> Idle]

-----------------------------------------------------------------------------
At(s, pc) == session[s].pc = pc
Does(s, op) == session[s].pc # "idle" /\ session[s].op = op
GoTo(s, pc) == session' = [session EXCEPT ![s].pc = pc]

\* The rows that ORDER BY sequence_number DESC / ASC LIMIT 1 can return.
TailsOfAnyTenant(t) ==
    LET all == UNION {events[u] : u \in Tenants}
    IN  IF all = {} THEN {GenesisRow}
        ELSE {r \in all : \A q \in all : q.seq <= r.seq}
Tails(t) ==
    IF events[t] = {} THEN {GenesisRow}
    ELSE {r \in events[t] : \A q \in events[t] : q.seq <= r.seq}
Heads(t) == {r \in events[t] : \A q \in events[t] : r.seq <= q.seq}

Used(e) ==
    \/ \E t \in Tenants : \E r \in events[t] : r.event = e
    \/ \E s \in Sessions : Does(s, "record") /\ session[s].event = e

\* The transaction ends and its lock with it; KeepsTheLock is a session-level
\* pg_advisory_lock, which outlives the transaction.
KeepsTheLock(s) ==
    /\ session' = [session EXCEPT ![s] = Idle]
    /\ UNCHANGED lock
End(s) ==
    /\ session' = [session EXCEPT ![s] = Idle]
    /\ lock' = [t \in Tenants |-> IF lock[t] = s THEN Free ELSE lock[t]]

OpenRecord(s, t, e) ==
    /\ At(s, "idle")
    /\ ~Used(e)
    /\ session' = [session EXCEPT ![s] =
            [pc |-> "open", op |-> "record", tenant |-> t, event |-> e, tail |-> GenesisRow]]
    /\ UNCHANGED <<events, evidence, exported, lock>>

OpenCheckpoint(s, t) ==
    /\ At(s, "idle")
    /\ session' = [session EXCEPT ![s] =
            [pc |-> "open", op |-> "checkpoint", tenant |-> t, seen |-> NoEvidence]]
    /\ UNCHANGED <<events, evidence, exported, lock>>

LockTenantChain(s) ==
    /\ At(s, "open")
    /\ lock[session[s].tenant] = Free
    /\ lock' = [lock EXCEPT ![session[s].tenant] = s]
    /\ GoTo(s, "locked")
    /\ UNCHANGED <<events, evidence, exported>>

\* The tail is read by a statement of its own, after the one that takes the lock.
ReadyAsSoonAsOpen(s) == session[s].pc \in {"open", "locked"}
ReadyToRead(s) == At(s, "locked")

ReadTail(s) ==
    /\ Does(s, "record") /\ ReadyToRead(s)
    /\ \E tail \in Tails(session[s].tenant) :
        session' = [session EXCEPT ![s].tail = tail, ![s].pc = "read"]
    /\ UNCHANGED <<events, evidence, exported, lock>>

NextRow(s) ==
    [seq |-> session[s].tail.seq + 1,
     event |-> session[s].event,
     prev |-> session[s].tail.event]

\* PRIMARY KEY (tenant_id, sequence_number): the insert waits for a transaction
\* that has written the same key and fails when the key is committed.
SequenceTaken(s) ==
    \E r \in events[session[s].tenant] : r.seq = NextRow(s).seq
SequenceInFlight(s) ==
    \E other \in Sessions \ {s} :
        /\ Does(other, "record") /\ At(other, "written")
        /\ session[other].tenant = session[s].tenant
        /\ NextRow(other).seq = NextRow(s).seq

InsertEvent(s) ==
    /\ Does(s, "record") /\ At(s, "read")
    /\ ~SequenceInFlight(s)
    /\ IF SequenceTaken(s) THEN End(s) ELSE GoTo(s, "written") /\ UNCHANGED lock
    /\ UNCHANGED <<events, evidence, exported>>

CommitRecord(s) ==
    /\ Does(s, "record") /\ At(s, "written")
    /\ events' = [events EXCEPT ![session[s].tenant] = @ \cup {NextRow(s)}]
    /\ End(s)
    /\ UNCHANGED <<evidence, exported>>

\* create_checkpoint: "cannot checkpoint an empty audit chain" is raised, or the
\* prefix is summed up from the rows of one SELECT.
EvidenceOfTheTail(t, head, tail) ==
    [through |-> tail.seq, count |-> Cardinality(events[t]),
     first |-> tail.event, last |-> tail.event]
EvidenceOf(t, head, tail) ==
    [through |-> tail.seq, count |-> Cardinality(events[t]),
     first |-> head.event, last |-> tail.event]

ReadChain(s) ==
    LET t == session[s].tenant IN
    /\ Does(s, "checkpoint") /\ ReadyToRead(s)
    /\ IF events[t] = {}
       THEN End(s)
       ELSE /\ \E head \in Heads(t), tail \in Tails(t) :
                 session' = [session EXCEPT ![s].seen = EvidenceOf(t, head, tail),
                                            ![s].pc = "read"]
            /\ UNCHANGED lock
    /\ UNCHANGED <<events, evidence, exported>>

\* UNIQUE (tenant_id, through_sequence_number): one checkpoint per prefix.
InsertCheckpoint(s) ==
    /\ Does(s, "checkpoint") /\ At(s, "read")
    /\ IF \E c \in evidence[session[s].tenant] : c.through = session[s].seen.through
       THEN End(s)
       ELSE GoTo(s, "written") /\ UNCHANGED lock
    /\ UNCHANGED <<events, evidence, exported>>

CommitCheckpoint(s) ==
    /\ Does(s, "checkpoint") /\ At(s, "written")
    /\ evidence' = [evidence EXCEPT ![session[s].tenant] = @ \cup {session[s].seen}]
    /\ End(s)
    /\ UNCHANGED <<events, exported>>

\* record_worm_export reads one immutable checkpoint row and copies it, without
\* the lock; its two statements are one step.
RecordWormExport(t) ==
    /\ \E c \in evidence[t] : exported' = [exported EXCEPT ![t] = @ \cup {c}]
    /\ UNCHANGED <<events, evidence, lock, session>>

\* A statement raises, the connection is lost or the process dies.
Rollback(s) ==
    /\ ~At(s, "idle")
    /\ End(s)
    /\ UNCHANGED <<events, evidence, exported>>

Statement(s) ==
    \/ LockTenantChain(s)
    \/ ReadTail(s) \/ InsertEvent(s) \/ CommitRecord(s)
    \/ ReadChain(s) \/ InsertCheckpoint(s) \/ CommitCheckpoint(s)

Next ==
    \/ \E s \in Sessions :
        \/ \E t \in Tenants, e \in Events : OpenRecord(s, t, e)
        \/ \E t \in Tenants : OpenCheckpoint(s, t)
        \/ Statement(s)
        \/ Rollback(s)
    \/ \E t \in Tenants : RecordWormExport(t)

Spec == Init /\ [][Next]_vars

\* PostgreSQL grants the advisory lock in the order of the requests, and the
\* statements of an open call keep being executed.
FairSpec == Spec /\ \A s \in Sessions : SF_vars(Statement(s))
-----------------------------------------------------------------------------
(* verify_audit_chain accepts the committed rows of every tenant, at any moment  *)
(* and whatever transactions were rolled back: sequence numbers run from 1       *)
(* without gap or duplicate and every event names the event before it.           *)
ChainVerifies ==
    \A t \in Tenants :
        /\ \A r, q \in events[t] : r.seq = q.seq => r = q
        /\ \A r \in events[t] :
            IF r.seq = 1 THEN r.prev = Genesis
            ELSE \E q \in events[t] : q.seq = r.seq - 1 /\ q.event = r.prev

(* ADR-0020: sequence assignment is protected by the tenant lock.  A record call *)
(* never loses its event to another call's sequence number.                      *)
NoSequenceConflict ==
    \A s \in Sessions :
        Does(s, "record") /\ session[s].pc \in {"read", "written"} => ~SequenceTaken(s)

(* A checkpoint and the WORM export that copies it describe a prefix of the      *)
(* chain as it is now, however many events were recorded since.                  *)
EvidenceHolds ==
    \A t \in Tenants : \A c \in evidence[t] \cup exported[t] :
        /\ c.count = c.through
        /\ \E r \in events[t] : r.seq = 1 /\ r.event = c.first
        /\ \E r \in events[t] : r.seq = c.through /\ r.event = c.last

(* No call waits for the tenant's lock forever: every opened record or           *)
(* checkpoint call ends.                                                         *)
EveryCallEnds == \A s \in Sessions : ~At(s, "idle") ~> At(s, "idle")

(* The store implements the abstract log: its chain is the events by sequence    *)
(* number, with Genesis where a number is missing.                               *)
ChainOf(t) ==
    [i \in 1..Cardinality(events[t]) |->
        IF \E r \in events[t] : r.seq = i
        THEN (CHOOSE r \in events[t] : r.seq = i).event
        ELSE Genesis]

Log == INSTANCE AuditLog WITH chains <- [t \in Tenants |-> ChainOf(t)]

(* Every commit appends exactly one event at the end of one tenant's chain and   *)
(* nothing is ever taken away: the PostgreSQL store implements AuditLog.         *)
ImplementsAuditLog == Log!Spec
=============================================================================
