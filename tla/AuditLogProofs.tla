--------------------------- MODULE AuditLogProofs ---------------------------
(***************************************************************************)
(* The safety properties of the two audit loggers.                         *)
(*                                                                         *)
(* Those of PgAuditStore hold for any number of sessions, tenants and      *)
(* events.  The argument: whoever has read the chain holds the tenant's    *)
(* lock until its transaction ends, so what it has read is still the end   *)
(* of the chain when it commits.                                           *)
(*                                                                         *)
(* JsonlAuditLog has no lock.  What it keeps for any number of processes   *)
(* and threads rests on the file alone: it changes at its end, and a line  *)
(* that was spoiled is never mended.  That the lines form one chain needs  *)
(* a single writer, whose list then is the file.                           *)
(***************************************************************************)
EXTENDS PgAuditStore, JsonlAuditLog, FiniteSetTheorems, SequenceTheorems, TLAPS

\* The chain's last sequence number counts its rows.
Counted ==
    \A t \in Tenants :
        /\ IsFiniteSet(events[t])
        /\ \A r \in Tails(t) : Cardinality(events[t]) = r.seq

Holds(c, t) ==
    /\ c.count = c.through
    /\ \E r \in events[t] : r.seq = 1 /\ r.event = c.first
    /\ \E r \in events[t] : r.seq = c.through /\ r.event = c.last

HasRead(s) == session[s].pc \in {"read", "written"}

HoldsLock(s) ==
    At(s, "locked") \/ HasRead(s) => lock[session[s].tenant] = s
TailKnown(s) ==
    Does(s, "record") /\ HasRead(s) => session[s].tail \in Tails(session[s].tenant)
SeenKnown(s) ==
    Does(s, "checkpoint") /\ HasRead(s) => Holds(session[s].seen, session[s].tenant)

SessionInv == \A s \in Sessions : HoldsLock(s) /\ TailKnown(s) /\ SeenKnown(s)

IInv == TypeOK /\ ChainVerifies /\ Counted /\ EvidenceHolds /\ SessionInv
-----------------------------------------------------------------------------
(* A session is idle, a record call or a checkpoint call, and op tells which.    *)
LEMMA SessionFields ==
    ASSUME TypeOK, NEW s \in Sessions
    PROVE  /\ session[s].pc \in {"idle", "open", "locked", "read", "written"}
           /\ session[s].pc # "idle" => session[s].op \in {"record", "checkpoint"}
           /\ session[s].pc # "idle" => session[s].tenant \in Tenants
           /\ Does(s, "record") => session[s] \in Recording
           /\ Does(s, "checkpoint") => session[s] \in Checkpointing
<1>1. session[s] \in {Idle} \cup Recording \cup Checkpointing
  BY DEF TypeOK
<1>2. CASE session[s] = Idle
  BY <1>2 DEF Idle, Does
<1>3. CASE session[s] \in Recording
  BY <1>3 DEF Recording, Does
<1>4. CASE session[s] \in Checkpointing
  BY <1>4 DEF Checkpointing, Does
<1> QED
  BY <1>1, <1>2, <1>3, <1>4

(* The tail of a chain is one of its rows, and no row comes after it.            *)
LEMMA TailIsLast ==
    ASSUME TypeOK, NEW t \in Tenants, NEW tail \in Tails(t)
    PROVE  /\ tail.seq \in Nat
           /\ tail.event \in Events \cup {Genesis}
           /\ tail \in Row \cup {GenesisRow}
           /\ \A q \in events[t] : q.seq <= tail.seq
           /\ events[t] = {} => tail = GenesisRow
           /\ events[t] # {} => tail \in events[t]
<1>1. events[t] \subseteq Row
  BY DEF TypeOK
<1>2. CASE events[t] = {}
  <2>1. tail = GenesisRow
    BY <1>2 DEF Tails
  <2> QED
    BY <1>2, <2>1 DEF GenesisRow
<1>3. CASE events[t] # {}
  <2>1. tail \in events[t] /\ \A q \in events[t] : q.seq <= tail.seq
    BY <1>3 DEF Tails
  <2>2. tail \in Row
    BY <1>1, <2>1
  <2>3. tail.seq \in Nat /\ tail.event \in Events
    BY <2>2 DEF Row
  <2> QED
    BY <1>3, <2>1, <2>2, <2>3
<1> QED
  BY <1>2, <1>3

(* The first row of a verified chain has sequence number 1.                      *)
LEMMA HeadIsFirst ==
    ASSUME TypeOK, ChainVerifies, NEW t \in Tenants, NEW head \in Heads(t)
    PROVE  head \in events[t] /\ head.seq = 1
<1>1. head \in events[t] /\ \A q \in events[t] : head.seq <= q.seq
  BY DEF Heads
<1>2. head \in Row
  BY <1>1 DEF TypeOK
<1>3. head.seq \in Nat \ {0}
  BY <1>2 DEF Row
<1>4. ASSUME head.seq # 1 PROVE FALSE
  <2>1. PICK q \in events[t] : q.seq = head.seq - 1
    BY <1>1, <1>4 DEF ChainVerifies
  <2>2. head.seq <= head.seq - 1
    BY <1>1, <2>1
  <2> QED
    BY <1>3, <2>2
<1> QED
  BY <1>1, <1>4

(* Once a record call has read the tail, its row fits at the end of the chain.   *)
LEMMA NextRowFits ==
    ASSUME IInv, NEW s \in Sessions, Does(s, "record"), HasRead(s)
    PROVE  /\ session[s].tenant \in Tenants
           /\ session[s].tail \in Tails(session[s].tenant)
           /\ NextRow(s) \in Row
           /\ NextRow(s).seq = session[s].tail.seq + 1
           /\ NextRow(s).prev = session[s].tail.event
           /\ \A q \in events[session[s].tenant] : q.seq < NextRow(s).seq
<1> DEFINE t == session[s].tenant
           tail == session[s].tail
<1>1. session[s] \in Recording
  BY SessionFields DEF IInv
<1>2. t \in Tenants /\ session[s].event \in Events
  BY <1>1 DEF Recording
<1>3. tail \in Tails(t)
  BY DEF IInv, SessionInv, TailKnown
<1>4. /\ tail.seq \in Nat
      /\ tail.event \in Events \cup {Genesis}
      /\ \A q \in events[t] : q.seq <= tail.seq
  BY <1>2, <1>3, TailIsLast DEF IInv
<1>5. NextRow(s) = [seq |-> tail.seq + 1, event |-> session[s].event, prev |-> tail.event]
  BY DEF NextRow
<1>6. NextRow(s) \in Row
  BY <1>2, <1>4, <1>5 DEF Row
<1>7. \A q \in events[t] : q.seq \in Nat
  BY <1>2 DEF IInv, TypeOK, Row
<1>8. \A q \in events[t] : q.seq < NextRow(s).seq
  BY <1>4, <1>5, <1>7
<1> QED
  BY <1>2, <1>3, <1>5, <1>6, <1>8
-----------------------------------------------------------------------------
LEMMA InitInv == Init => IInv
<1> SUFFICES ASSUME Init PROVE IInv
  OBVIOUS
<1>1. TypeOK
  BY DEF Init, TypeOK
<1>2. ChainVerifies /\ EvidenceHolds
  BY DEF Init, ChainVerifies, EvidenceHolds
<1>3. Counted
  <2> SUFFICES ASSUME NEW t \in Tenants
               PROVE  IsFiniteSet(events[t]) /\ \A r \in Tails(t) : Cardinality(events[t]) = r.seq
    BY DEF Counted
  <2>1. events[t] = {}
    BY DEF Init
  <2>2. Tails(t) = {GenesisRow}
    BY <2>1 DEF Tails
  <2>3. IsFiniteSet({}) /\ Cardinality({}) = 0
    BY FS_EmptySet
  <2> QED
    BY <2>1, <2>2, <2>3 DEF GenesisRow
<1>4. SessionInv
  BY DEF Init, SessionInv, HoldsLock, TailKnown, SeenKnown, HasRead, At, Does, Idle
<1> QED
  BY <1>1, <1>2, <1>3, <1>4 DEF IInv

(* A step of one session that leaves the tables alone keeps what the others know. *)
LEMMA SessionStep ==
    ASSUME IInv, NEW s \in Sessions, NEW new,
           session' = [session EXCEPT ![s] = new],
           new \in {Idle} \cup Recording \cup Checkpointing,
           lock' \in [Tenants -> Sessions \cup {Free}],
           \A o \in Sessions \ {s}, t \in Tenants : lock[t] = o => lock'[t] = o,
           UNCHANGED <<events, evidence, exported>>,
           HoldsLock(s)', TailKnown(s)', SeenKnown(s)'
    PROVE  IInv'
<1>1. \A o \in Sessions \ {s} : session'[o] = session[o]
  BY DEF IInv, TypeOK
<1>2. TypeOK'
  BY DEF IInv, TypeOK
<1>3. ChainVerifies' /\ EvidenceHolds' /\ Counted'
  BY DEF IInv, ChainVerifies, EvidenceHolds, Counted, Tails
<1>4. ASSUME NEW o \in Sessions \ {s}
      PROVE  HoldsLock(o)' /\ TailKnown(o)' /\ SeenKnown(o)'
  <2>1. session'[o] = session[o]
    BY <1>1
  <2>2. HoldsLock(o) /\ TailKnown(o) /\ SeenKnown(o)
    BY DEF IInv, SessionInv
  <2>3. HoldsLock(o)'
    <3>1. (At(o, "locked") \/ HasRead(o))' => At(o, "locked") \/ HasRead(o)
      BY <2>1 DEF At, HasRead
    <3>2. At(o, "locked") \/ HasRead(o) => session[o].tenant \in Tenants
      BY SessionFields DEF IInv, At, HasRead
    <3> QED
      BY <2>1, <2>2, <3>1, <3>2 DEF HoldsLock
  <2>4. TailKnown(o)'
    BY <2>1, <2>2 DEF TailKnown, Tails, Does, HasRead
  <2>5. SeenKnown(o)'
    BY <2>1, <2>2 DEF SeenKnown, Holds, Does, HasRead
  <2> QED
    BY <2>3, <2>4, <2>5
<1>5. SessionInv'
  BY <1>4 DEF SessionInv
<1> QED
  BY <1>2, <1>3, <1>5 DEF IInv

(* A step to another stage of the same call keeps its lock.                      *)
LEMMA GoToStep ==
    ASSUME IInv, NEW s \in Sessions, NEW pc \in {"open", "locked", "read", "written"},
           ~At(s, "idle"), GoTo(s, pc)
    PROVE  /\ session' = [session EXCEPT ![s] = [session[s] EXCEPT !.pc = pc]]
           /\ [session[s] EXCEPT !.pc = pc] \in {Idle} \cup Recording \cup Checkpointing
           /\ session'[s] = [session[s] EXCEPT !.pc = pc]
<1>1. session' = [session EXCEPT ![s] = [session[s] EXCEPT !.pc = pc]]
  BY DEF GoTo
<1>2. CASE session[s] \in Recording
  BY <1>1, <1>2 DEF IInv, TypeOK, Recording
<1>3. CASE session[s] \in Checkpointing
  BY <1>1, <1>3 DEF IInv, TypeOK, Checkpointing
<1>4. session[s] \in Recording \cup Checkpointing
  BY DEF IInv, TypeOK, At, Idle
<1> QED
  BY <1>1, <1>2, <1>3, <1>4

(* The end of a transaction without a commit.                                    *)
LEMMA EndStep ==
    ASSUME IInv, NEW s \in Sessions, End(s), UNCHANGED <<events, evidence, exported>>
    PROVE  IInv'
<1>1. session'[s] = Idle
  BY DEF IInv, TypeOK, End
<1>2. HoldsLock(s)' /\ TailKnown(s)' /\ SeenKnown(s)'
  BY <1>1 DEF HoldsLock, TailKnown, SeenKnown, HasRead, At, Does, Idle
<1>3. \A o \in Sessions \ {s}, t \in Tenants : lock[t] = o => lock'[t] = o
  BY DEF End
<1>4. lock' \in [Tenants -> Sessions \cup {Free}]
  BY DEF IInv, TypeOK, End
<1>5. session' = [session EXCEPT ![s] = Idle]
  BY DEF End
<1> QED
  BY <1>2, <1>3, <1>4, <1>5, SessionStep
-----------------------------------------------------------------------------
LEMMA OpenRecordStep ==
    ASSUME IInv, NEW s \in Sessions, NEW t \in Tenants, NEW e \in Events,
           OpenRecord(s, t, e)
    PROVE  IInv'
<1> DEFINE new == [pc |-> "open", op |-> "record", tenant |-> t, event |-> e, tail |-> GenesisRow]
<1>1. session' = [session EXCEPT ![s] = new] /\ UNCHANGED <<events, evidence, exported, lock>>
  BY DEF OpenRecord
<1>2. new \in Recording
  BY DEF Recording
<1>3. session'[s] = new
  BY <1>1 DEF IInv, TypeOK
<1>4. HoldsLock(s)' /\ TailKnown(s)' /\ SeenKnown(s)'
  BY <1>3 DEF HoldsLock, TailKnown, SeenKnown, HasRead, At
<1>5. lock' \in [Tenants -> Sessions \cup {Free}]
  BY <1>1 DEF IInv, TypeOK
<1> HIDE DEF new
<1> QED
  BY <1>1, <1>2, <1>4, <1>5, SessionStep

LEMMA OpenCheckpointStep ==
    ASSUME IInv, NEW s \in Sessions, NEW t \in Tenants, OpenCheckpoint(s, t)
    PROVE  IInv'
<1> DEFINE new == [pc |-> "open", op |-> "checkpoint", tenant |-> t, seen |-> NoEvidence]
<1>1. session' = [session EXCEPT ![s] = new] /\ UNCHANGED <<events, evidence, exported, lock>>
  BY DEF OpenCheckpoint
<1>2. new \in Checkpointing
  BY DEF Checkpointing
<1>3. session'[s] = new
  BY <1>1 DEF IInv, TypeOK
<1>4. HoldsLock(s)' /\ TailKnown(s)' /\ SeenKnown(s)'
  BY <1>3 DEF HoldsLock, TailKnown, SeenKnown, HasRead, At
<1>5. lock' \in [Tenants -> Sessions \cup {Free}]
  BY <1>1 DEF IInv, TypeOK
<1> HIDE DEF new
<1> QED
  BY <1>1, <1>2, <1>4, <1>5, SessionStep

LEMMA LockStep ==
    ASSUME IInv, NEW s \in Sessions, LockTenantChain(s)
    PROVE  IInv'
<1> DEFINE new == [session[s] EXCEPT !.pc = "locked"]
           t == session[s].tenant
<1>1. /\ At(s, "open")
      /\ lock[t] = Free
      /\ lock' = [lock EXCEPT ![t] = s]
      /\ GoTo(s, "locked")
      /\ UNCHANGED <<events, evidence, exported>>
  BY DEF LockTenantChain
<1>2. /\ session' = [session EXCEPT ![s] = new]
      /\ new \in {Idle} \cup Recording \cup Checkpointing
      /\ session'[s] = new
  BY <1>1, GoToStep DEF At
<1>3. t \in Tenants
  BY <1>1, SessionFields DEF IInv, At
<1>4. new.pc = "locked" /\ new.tenant = t
  <2>1. session[s] \in Recording \cup Checkpointing
    BY <1>1 DEF IInv, TypeOK, At, Idle
  <2> QED
    BY <2>1 DEF Recording, Checkpointing
<1>5. lock'[t] = s
  BY <1>1, <1>3 DEF IInv, TypeOK
<1>6. HoldsLock(s)' /\ TailKnown(s)' /\ SeenKnown(s)'
  BY <1>2, <1>4, <1>5 DEF HoldsLock, TailKnown, SeenKnown, HasRead
<1>7. lock' \in [Tenants -> Sessions \cup {Free}]
  BY <1>1 DEF IInv, TypeOK
<1>8. \A o \in Sessions \ {s}, u \in Tenants : lock[u] = o => lock'[u] = o
  BY <1>1, <1>3, NamesAssumption DEF IInv, TypeOK
<1> HIDE DEF new
<1> QED
  BY <1>1, <1>2, <1>6, <1>7, <1>8, SessionStep

LEMMA ReadTailStep ==
    ASSUME IInv, NEW s \in Sessions, ReadTail(s)
    PROVE  IInv'
<1> DEFINE t == session[s].tenant
<1>1. PICK tail \in Tails(t) :
        /\ Does(s, "record") /\ At(s, "locked")
        /\ session' = [session EXCEPT ![s].tail = tail, ![s].pc = "read"]
        /\ UNCHANGED <<events, evidence, exported, lock>>
  BY DEF ReadTail, ReadyToRead
<1> DEFINE new == [session[s] EXCEPT !.tail = tail, !.pc = "read"]
<1>2. session[s] \in Recording /\ t \in Tenants
  BY <1>1, SessionFields DEF IInv, Recording
<1>3. tail \in Row \cup {GenesisRow}
  BY <1>2, TailIsLast DEF IInv
<1>4. session' = [session EXCEPT ![s] = new] /\ session'[s] = new
  BY <1>1, <1>2 DEF IInv, TypeOK
<1>5. /\ new \in Recording
      /\ new.pc = "read" /\ new.op = "record" /\ new.tenant = t /\ new.tail = tail
  BY <1>2, <1>3 DEF Recording
<1>6. lock[t] = s
  BY <1>1 DEF IInv, SessionInv, HoldsLock
<1> HIDE DEF new
<1>7. HoldsLock(s)'
  BY <1>1, <1>4, <1>5, <1>6 DEF HoldsLock
<1>8. TailKnown(s)'
  BY <1>1, <1>4, <1>5 DEF TailKnown, Tails
<1>9. SeenKnown(s)'
  BY <1>4, <1>5 DEF SeenKnown, Does
<1>10. lock' \in [Tenants -> Sessions \cup {Free}]
  BY <1>1 DEF IInv, TypeOK
<1> QED
  BY <1>1, <1>4, <1>5, <1>7, <1>8, <1>9, <1>10, SessionStep

(* An insert that succeeds leaves what its session has read as it is.            *)
LEMMA InsertedStep ==
    ASSUME IInv, NEW s \in Sessions, At(s, "read"), GoTo(s, "written"),
           UNCHANGED <<events, evidence, exported, lock>>
    PROVE  IInv'
<1> DEFINE new == [session[s] EXCEPT !.pc = "written"]
<1>1. /\ session' = [session EXCEPT ![s] = new]
      /\ new \in {Idle} \cup Recording \cup Checkpointing
      /\ session'[s] = new
  BY GoToStep DEF At
<1>2. HoldsLock(s) /\ TailKnown(s) /\ SeenKnown(s) /\ HasRead(s)
  BY DEF IInv, SessionInv, HasRead, At
<1>3. session[s] \in Recording \cup Checkpointing
  BY DEF IInv, TypeOK, At, Idle
<1>4. new.pc = "written" /\ new.tenant = session[s].tenant /\ new.op = session[s].op
  BY <1>3 DEF Recording, Checkpointing
<1>5. session[s].op = "record" => new.tail = session[s].tail
  BY <1>3 DEF Recording, Checkpointing
<1>6. session[s].op = "checkpoint" => new.seen = session[s].seen
  BY <1>3 DEF Recording, Checkpointing
<1> HIDE DEF new
<1>7. HoldsLock(s)'
  BY <1>1, <1>2, <1>4 DEF HoldsLock
<1>8. TailKnown(s)'
  BY <1>1, <1>2, <1>4, <1>5 DEF TailKnown, Tails, Does, At
<1>9. SeenKnown(s)'
  BY <1>1, <1>2, <1>4, <1>6 DEF SeenKnown, Holds, Does, At
<1>10. lock' \in [Tenants -> Sessions \cup {Free}]
  BY DEF IInv, TypeOK
<1> QED
  BY <1>1, <1>7, <1>8, <1>9, <1>10, SessionStep

LEMMA InsertEventStep ==
    ASSUME IInv, NEW s \in Sessions, InsertEvent(s)
    PROVE  IInv'
<1>1. CASE End(s)
  BY <1>1, EndStep DEF InsertEvent
<1>2. CASE GoTo(s, "written") /\ UNCHANGED lock
  BY <1>2, InsertedStep DEF InsertEvent
<1> QED
  BY <1>1, <1>2 DEF InsertEvent

LEMMA InsertCheckpointStep ==
    ASSUME IInv, NEW s \in Sessions, InsertCheckpoint(s)
    PROVE  IInv'
<1>1. CASE End(s)
  BY <1>1, EndStep DEF InsertCheckpoint
<1>2. CASE GoTo(s, "written") /\ UNCHANGED lock
  BY <1>2, InsertedStep DEF InsertCheckpoint
<1> QED
  BY <1>1, <1>2 DEF InsertCheckpoint

(* What create_checkpoint sums up describes the chain it has read.               *)
LEMMA ReadChainStep ==
    ASSUME IInv, NEW s \in Sessions, ReadChain(s)
    PROVE  IInv'
<1> DEFINE t == session[s].tenant
<1>1. CASE events[t] = {}
  BY <1>1, EndStep DEF ReadChain
<1>2. CASE events[t] # {}
  <2>1. PICK head \in Heads(t), tail \in Tails(t) :
          /\ Does(s, "checkpoint") /\ At(s, "locked")
          /\ session' = [session EXCEPT ![s].seen = EvidenceOf(t, head, tail), ![s].pc = "read"]
          /\ UNCHANGED <<events, evidence, exported, lock>>
    BY <1>2 DEF ReadChain, ReadyToRead
  <2> DEFINE seen == EvidenceOf(t, head, tail)
             new == [session[s] EXCEPT !.seen = seen, !.pc = "read"]
  <2>2. session[s] \in Checkpointing /\ t \in Tenants
    BY <2>1, SessionFields DEF IInv, Checkpointing
  <2>3. head \in events[t] /\ head.seq = 1
    BY <2>2, HeadIsFirst DEF IInv
  <2>4. tail \in events[t] /\ Cardinality(events[t]) = tail.seq
    BY <1>2, <2>2, TailIsLast DEF IInv, Counted
  <2>5. /\ head.event \in Events /\ tail.event \in Events
        /\ tail.seq \in Nat
    BY <2>2, <2>3, <2>4 DEF IInv, TypeOK, Row
  <2>6. seen = [through |-> tail.seq, count |-> tail.seq, first |-> head.event, last |-> tail.event]
    BY <2>4 DEF EvidenceOf
  <2>7. seen \in Evidence
    BY <2>5, <2>6 DEF Evidence
  <2>8. Holds(seen, t)
    BY <2>3, <2>4, <2>6 DEF Holds
  <2> HIDE DEF seen
  <2>9. session' = [session EXCEPT ![s] = new] /\ session'[s] = new
    BY <2>1, <2>2 DEF IInv, TypeOK, seen
  <2>10. /\ new \in Checkpointing
         /\ new.pc = "read" /\ new.op = "checkpoint" /\ new.tenant = t /\ new.seen = seen
    BY <2>2, <2>7 DEF Checkpointing
  <2>11. lock[t] = s
    BY <2>1 DEF IInv, SessionInv, HoldsLock
  <2> HIDE DEF new
  <2>12. HoldsLock(s)'
    BY <2>1, <2>9, <2>10, <2>11 DEF HoldsLock
  <2>13. TailKnown(s)'
    BY <2>9, <2>10 DEF TailKnown, Does
  <2>14. SeenKnown(s)'
    BY <2>1, <2>8, <2>9, <2>10 DEF SeenKnown, Holds
  <2>15. lock' \in [Tenants -> Sessions \cup {Free}]
    BY <2>1 DEF IInv, TypeOK
  <2> QED
    BY <2>1, <2>9, <2>10, <2>12, <2>13, <2>14, <2>15, SessionStep
<1> QED
  BY <1>1, <1>2

LEMMA RecordWormExportStep ==
    ASSUME IInv, NEW t \in Tenants, RecordWormExport(t)
    PROVE  IInv'
<1>1. PICK c \in evidence[t] : exported' = [exported EXCEPT ![t] = @ \cup {c}]
  BY DEF RecordWormExport
<1>2. UNCHANGED <<events, evidence, lock, session>>
  BY DEF RecordWormExport
<1>3. TypeOK'
  BY <1>1, <1>2 DEF IInv, TypeOK
<1>4. ChainVerifies' /\ Counted'
  BY <1>2 DEF IInv, ChainVerifies, Counted, Tails
<1>5. \A u \in Tenants : evidence'[u] \cup exported'[u] \subseteq
                          evidence[u] \cup exported[u]
  BY <1>1, <1>2 DEF IInv, TypeOK
<1>6. EvidenceHolds'
  BY <1>2, <1>5 DEF IInv, EvidenceHolds
<1>7. SessionInv'
  BY <1>2
     DEF IInv, SessionInv, HoldsLock, TailKnown, SeenKnown, Holds, Tails, HasRead, Does,
         At
<1> QED
  BY <1>3, <1>4, <1>6, <1>7 DEF IInv

(* Once a session has read a chain, no other session is past its lock there.     *)
LEMMA AloneOnTheChain ==
    ASSUME IInv, NEW s \in Sessions, HasRead(s),
           NEW o \in Sessions \ {s}, HasRead(o)
    PROVE  session[o].tenant # session[s].tenant
<1>1. HoldsLock(s) /\ HoldsLock(o)
  BY DEF IInv, SessionInv
<1> QED
  BY <1>1 DEF HoldsLock

(* A commit of a record call: the row it read the place for is appended.         *)
LEMMA CommitRecordStep ==
    ASSUME IInv, NEW s \in Sessions, CommitRecord(s)
    PROVE  IInv'
<1> DEFINE t == session[s].tenant
           row == NextRow(s)
           tail == session[s].tail
<1>1. /\ Does(s, "record") /\ HasRead(s)
      /\ events' = [events EXCEPT ![t] = @ \cup {row}]
      /\ session' = [session EXCEPT ![s] = Idle]
      /\ lock' = [u \in Tenants |-> IF lock[u] = s THEN Free ELSE lock[u]]
      /\ UNCHANGED <<evidence, exported>>
  BY DEF CommitRecord, End, At, HasRead
<1>2. /\ t \in Tenants /\ tail \in Tails(t)
      /\ row \in Row /\ row.seq = tail.seq + 1 /\ row.prev = tail.event
      /\ \A q \in events[t] : q.seq < row.seq
  BY <1>1, NextRowFits
<1>3. /\ tail.seq \in Nat
      /\ events[t] = {} => tail = GenesisRow
      /\ events[t] # {} => tail \in events[t]
  BY <1>2, TailIsLast DEF IInv
<1> HIDE DEF t, row, tail
<1>4. events \in [Tenants -> SUBSET Row]
  BY DEF IInv, TypeOK
<1>5. /\ events'[t] = events[t] \cup {row}
      /\ \A u \in Tenants \ {t} : events'[u] = events[u]
      /\ \A u \in Tenants : events[u] \subseteq events'[u]
  BY <1>1, <1>2, <1>4
<1>6. TypeOK'
  <2>1. events' \in [Tenants -> SUBSET Row]
    BY <1>1, <1>2, <1>4
  <2>2. session' \in [Sessions -> {Idle} \cup Recording \cup Checkpointing]
    BY <1>1 DEF IInv, TypeOK
  <2>3. lock' \in [Tenants -> Sessions \cup {Free}]
    BY <1>1 DEF IInv, TypeOK
  <2> QED
    BY <1>1, <2>1, <2>2, <2>3 DEF IInv, TypeOK
<1>7. ChainVerifies'
  <2> SUFFICES ASSUME NEW u \in Tenants
      PROVE /\ \A r, q \in events'[u] : r.seq = q.seq => r = q
            /\ \A r \in events'[u] :
                IF r.seq = 1 THEN r.prev = Genesis
                ELSE \E q \in events'[u] : q.seq = r.seq - 1 /\ q.event = r.prev
    BY DEF ChainVerifies
  <2>1. /\ \A r, q \in events[u] : r.seq = q.seq => r = q
        /\ \A r \in events[u] :
            IF r.seq = 1 THEN r.prev = Genesis
            ELSE \E q \in events[u] : q.seq = r.seq - 1 /\ q.event = r.prev
    BY DEF IInv, ChainVerifies
  <2>2. CASE u # t
    BY <1>5, <2>1, <2>2
  <2>3. CASE u = t
    <3>1. \A q \in events[t] : q.seq # row.seq
      <4>1. \A q \in events[t] : q.seq \in Nat
        BY <1>2, <1>4 DEF Row
      <4> QED
        BY <1>2, <1>3, <4>1
    <3>2. \A r, q \in events'[u] : r.seq = q.seq => r = q
      BY <1>5, <2>1, <2>3, <3>1
    <3>3. IF row.seq = 1 THEN row.prev = Genesis
          ELSE \E q \in events[t] : q.seq = row.seq - 1 /\ q.event = row.prev
      <4>1. CASE events[t] = {}
        BY <1>2, <1>3, <4>1 DEF GenesisRow
      <4>2. CASE events[t] # {}
        <5>1. tail \in events[t] /\ tail.seq \in Nat \ {0}
          BY <1>2, <1>3, <1>4, <4>2 DEF Row
        <5> QED
          BY <1>2, <5>1
      <4> QED
        BY <4>1, <4>2
    <3>4. ASSUME NEW r \in events'[u]
          PROVE  IF r.seq = 1 THEN r.prev = Genesis
                 ELSE \E q \in events'[u] : q.seq = r.seq - 1 /\ q.event = r.prev
      <4>1. CASE r = row
        BY <1>5, <2>3, <3>3, <4>1
      <4>2. CASE r \in events[t]
        BY <1>5, <2>1, <2>3, <4>2
      <4> QED
        BY <1>5, <2>3, <4>1, <4>2
    <3> QED
      BY <3>2, <3>4
  <2> QED
    BY <2>2, <2>3
<1>8. Counted'
  <2>1. ASSUME NEW u \in Tenants
        PROVE  /\ IsFiniteSet(events'[u])
               /\ \A r \in (Tails(u))' : Cardinality(events'[u]) = r.seq
    <3>1. IsFiniteSet(events[u]) /\ \A r \in Tails(u) : Cardinality(events[u]) = r.seq
      BY DEF IInv, Counted
    <3>2. CASE u # t
      BY <1>5, <3>1, <3>2 DEF Tails
    <3>3. CASE u = t
      <4>1. row \notin events[t]
        BY <1>2, <1>3
      <4>2. IsFiniteSet(events'[u]) /\ Cardinality(events'[u]) = Cardinality(events[t]) + 1
        BY <1>5, <3>1, <3>3, <4>1, FS_AddElement
      <4>3. ASSUME NEW r \in (Tails(u))' PROVE r = row
        <5>1. r \in events[t] \cup {row} /\ row.seq <= r.seq
          BY <1>5, <3>3 DEF Tails
        <5>2. ASSUME r \in events[t] PROVE FALSE
          <6>1. r.seq \in Nat /\ r.seq < row.seq
            BY <1>2, <1>4, <5>2 DEF Row
          <6> QED
            BY <1>2, <1>3, <5>1, <6>1
        <5> QED
          BY <5>1, <5>2
      <4>4. Cardinality(events[t]) = tail.seq
        BY <1>2, <3>1, <3>3
      <4> QED
        BY <1>2, <4>2, <4>3, <4>4
    <3> QED
      BY <3>2, <3>3
  <2> QED
    BY <2>1 DEF Counted
<1>9. \A c, u : u \in Tenants /\ Holds(c, u) =>
        /\ c.count = c.through
        /\ \E r \in events'[u] : r.seq = 1 /\ r.event = c.first
        /\ \E r \in events'[u] : r.seq = c.through /\ r.event = c.last
  BY <1>5 DEF Holds
<1>10. EvidenceHolds'
  <2>1. \A u \in Tenants : \A c \in evidence[u] \cup exported[u] : Holds(c, u)
    BY DEF IInv, EvidenceHolds, Holds
  <2> QED
    BY <1>1, <1>9, <2>1 DEF EvidenceHolds
<1>11. ASSUME NEW o \in Sessions
       PROVE  HoldsLock(o)' /\ TailKnown(o)' /\ SeenKnown(o)'
  <2>1. CASE o = s
    <3>1. session'[o] = Idle
      BY <1>1, <2>1 DEF IInv, TypeOK
    <3> QED
      BY <3>1 DEF HoldsLock, TailKnown, SeenKnown, HasRead, At, Does, Idle
  <2>2. CASE o # s
    <3>1. session'[o] = session[o]
      BY <1>1, <2>2 DEF IInv, TypeOK
    <3>2. HoldsLock(o) /\ TailKnown(o) /\ SeenKnown(o)
      BY DEF IInv, SessionInv
    <3>3. session[o].pc # "idle" => session[o].tenant \in Tenants
      BY SessionFields DEF IInv
    <3>4. HasRead(o) => events'[session[o].tenant] = events[session[o].tenant]
      <4>1. HasRead(o) => session[o].tenant # t
        BY <1>1, <2>2, AloneOnTheChain DEF t
      <4> QED
        BY <1>5, <3>3, <4>1 DEF HasRead
    <3>5. HoldsLock(o)'
      <4>1. At(o, "locked") \/ HasRead(o) => session[o].tenant \in Tenants
        BY <3>3 DEF At, HasRead
      <4> QED
        BY <1>1, <2>2, <3>1, <3>2, <4>1 DEF HoldsLock, At, HasRead
    <3>6. TailKnown(o)'
      BY <3>1, <3>2, <3>4 DEF TailKnown, HasRead, Does, Tails
    <3>7. SeenKnown(o)'
      BY <3>1, <3>2, <3>4 DEF SeenKnown, HasRead, Does, Holds
    <3> QED
      BY <3>5, <3>6, <3>7
  <2> QED
    BY <2>1, <2>2
<1> QED
  BY <1>6, <1>7, <1>8, <1>10, <1>11 DEF IInv, SessionInv

LEMMA CommitCheckpointStep ==
    ASSUME IInv, NEW s \in Sessions, CommitCheckpoint(s)
    PROVE  IInv'
<1> DEFINE t == session[s].tenant
           seen == session[s].seen
<1>1. /\ Does(s, "checkpoint") /\ HasRead(s)
      /\ evidence' = [evidence EXCEPT ![t] = @ \cup {seen}]
      /\ session' = [session EXCEPT ![s] = Idle]
      /\ lock' = [u \in Tenants |-> IF lock[u] = s THEN Free ELSE lock[u]]
      /\ UNCHANGED <<events, exported>>
  BY DEF CommitCheckpoint, End, At, HasRead
<1>2. session[s] \in Checkpointing
  BY <1>1, SessionFields DEF IInv
<1>3. Holds(seen, t)
  BY <1>1 DEF IInv, SessionInv, SeenKnown
<1>4. t \in Tenants /\ seen \in Evidence \cup {NoEvidence}
  BY <1>2 DEF Checkpointing
<1>5. seen \in Evidence
  <2>1. seen.first \in Events
    <3>1. PICK r \in events[t] : r.event = seen.first
      BY <1>3 DEF Holds
    <3> QED
      BY <1>4, <3>1 DEF IInv, TypeOK, Row
  <2>2. NoEvidence.first = Genesis
    BY DEF NoEvidence
  <2> QED
    BY <1>4, <2>1, <2>2, GenesisAssumption
<1> HIDE DEF t, seen
<1>6. TypeOK'
  <2>1. evidence' \in [Tenants -> SUBSET Evidence]
    BY <1>1, <1>4, <1>5 DEF IInv, TypeOK
  <2>2. session' \in [Sessions -> {Idle} \cup Recording \cup Checkpointing]
    BY <1>1 DEF IInv, TypeOK
  <2>3. lock' \in [Tenants -> Sessions \cup {Free}]
    BY <1>1 DEF IInv, TypeOK
  <2> QED
    BY <1>1, <2>1, <2>2, <2>3 DEF IInv, TypeOK
<1>7. ChainVerifies' /\ Counted'
  BY <1>1 DEF IInv, ChainVerifies, Counted, Tails
<1>8. EvidenceHolds'
  <2>1. \A u \in Tenants : \A c \in evidence[u] \cup exported[u] : Holds(c, u)
    BY DEF IInv, EvidenceHolds, Holds
  <2>2. /\ evidence'[t] = evidence[t] \cup {seen}
        /\ \A u \in Tenants \ {t} : evidence'[u] = evidence[u]
    BY <1>1, <1>4 DEF IInv, TypeOK
  <2>3. \A u \in Tenants : \A c \in evidence'[u] \cup exported'[u] : Holds(c, u)
    BY <1>1, <1>3, <2>1, <2>2
  <2> QED
    BY <1>1, <2>3 DEF EvidenceHolds, Holds
<1>9. ASSUME NEW o \in Sessions
      PROVE  HoldsLock(o)' /\ TailKnown(o)' /\ SeenKnown(o)'
  <2>1. CASE o = s
    <3>1. session'[o] = Idle
      BY <1>1, <2>1 DEF IInv, TypeOK
    <3> QED
      BY <3>1 DEF HoldsLock, TailKnown, SeenKnown, HasRead, At, Does, Idle
  <2>2. CASE o # s
    <3>1. session'[o] = session[o]
      BY <1>1, <2>2 DEF IInv, TypeOK
    <3>2. HoldsLock(o) /\ TailKnown(o) /\ SeenKnown(o)
      BY DEF IInv, SessionInv
    <3>3. HoldsLock(o)'
      <4>1. At(o, "locked") \/ HasRead(o) => session[o].tenant \in Tenants
        BY SessionFields DEF IInv, At, HasRead
      <4> QED
        BY <1>1, <2>2, <3>1, <3>2, <4>1 DEF HoldsLock, At, HasRead
    <3>4. TailKnown(o)'
      BY <1>1, <3>1, <3>2 DEF TailKnown, HasRead, Does, Tails
    <3>5. SeenKnown(o)'
      BY <1>1, <3>1, <3>2 DEF SeenKnown, HasRead, Does, Holds
    <3> QED
      BY <3>3, <3>4, <3>5
  <2> QED
    BY <2>1, <2>2
<1> QED
  BY <1>6, <1>7, <1>8, <1>9 DEF IInv, SessionInv
-----------------------------------------------------------------------------
LEMMA NextInv == IInv /\ [Next]_vars => IInv'
<1> SUFFICES ASSUME IInv, [Next]_vars PROVE IInv'
  OBVIOUS
<1>1. ASSUME NEW s \in Sessions, NEW t \in Tenants, NEW e \in Events, OpenRecord(s, t, e)
      PROVE  IInv'
  BY <1>1, OpenRecordStep
<1>2. ASSUME NEW s \in Sessions, NEW t \in Tenants, OpenCheckpoint(s, t) PROVE IInv'
  BY <1>2, OpenCheckpointStep
<1>3. ASSUME NEW s \in Sessions, Statement(s) PROVE IInv'
  BY <1>3, LockStep, ReadTailStep, InsertEventStep, CommitRecordStep,
     ReadChainStep, InsertCheckpointStep, CommitCheckpointStep DEF Statement
<1>4. ASSUME NEW s \in Sessions, Rollback(s) PROVE IInv'
  BY <1>4, EndStep DEF Rollback
<1>5. ASSUME NEW t \in Tenants, RecordWormExport(t) PROVE IInv'
  BY <1>5, RecordWormExportStep
<1>6. CASE UNCHANGED vars
  <2>1. TypeOK' /\ ChainVerifies' /\ EvidenceHolds'
    BY <1>6 DEF vars, IInv, TypeOK, ChainVerifies, EvidenceHolds
  <2>2. Counted'
    BY <1>6 DEF vars, IInv, Counted, Tails
  <2>3. ASSUME NEW s \in Sessions PROVE HoldsLock(s)' /\ TailKnown(s)' /\ SeenKnown(s)'
    <3>1. HoldsLock(s) /\ TailKnown(s) /\ SeenKnown(s)
      BY DEF IInv, SessionInv
    <3>2. HoldsLock(s)'
      BY <1>6, <3>1 DEF vars, HoldsLock, HasRead, At
    <3>3. TailKnown(s)'
      BY <1>6, <3>1 DEF vars, TailKnown, HasRead, Does, Tails
    <3>4. SeenKnown(s)'
      BY <1>6, <3>1 DEF vars, SeenKnown, HasRead, Does, Holds
    <3> QED
      BY <3>2, <3>3, <3>4
  <2> QED
    BY <2>1, <2>2, <2>3 DEF IInv, SessionInv
<1> QED
  BY <1>1, <1>2, <1>3, <1>4, <1>5, <1>6 DEF Next

THEOREM Invariance == Spec => []IInv
  BY InitInv, NextInv, PTL DEF Spec

(* Every state of the store and of its sessions is well formed.                  *)
THEOREM TypeCorrectness == Spec => []TypeOK
<1>1. IInv => TypeOK
  BY DEF IInv
<1> QED
  BY <1>1, Invariance, PTL

(* The committed rows of every tenant are a chain that verify_audit_chain accepts, *)
(* for any number of concurrent sessions and any rollbacks.                      *)
THEOREM ChainsVerify == Spec => []ChainVerifies
<1>1. IInv => ChainVerifies
  BY DEF IInv
<1> QED
  BY <1>1, Invariance, PTL

(* The lock makes a sequence number a session has computed its own: no record    *)
(* call runs into the primary key.                                               *)
THEOREM SequencesAreFree == Spec => []NoSequenceConflict
<1>1. IInv => NoSequenceConflict
  <2> SUFFICES ASSUME IInv, NEW s \in Sessions, Does(s, "record"),
                      session[s].pc \in {"read", "written"}, SequenceTaken(s)
               PROVE  FALSE
    BY DEF NoSequenceConflict
  <2>1. PICK r \in events[session[s].tenant] : r.seq = NextRow(s).seq
    BY DEF SequenceTaken
  <2>2. r.seq < NextRow(s).seq /\ NextRow(s) \in Row /\ session[s].tenant \in Tenants
    BY NextRowFits DEF HasRead
  <2> QED
    BY <2>1, <2>2 DEF Row
<1> QED
  BY <1>1, Invariance, PTL

(* Checkpoints and WORM exports stay true of the chain they were taken from.     *)
THEOREM EvidenceStaysTrue == Spec => []EvidenceHolds
<1>1. IInv => EvidenceHolds
  BY DEF IInv
<1> QED
  BY <1>1, Invariance, PTL
-----------------------------------------------------------------------------
\* An event id is of one call, until the call has committed it.
Fresh ==
    /\ \A s \in Sessions : Does(s, "record") =>
          \A t \in Tenants : \A r \in events[t] : r.event # session[s].event
    /\ \A s, o \in Sessions :
          Does(s, "record") /\ Does(o, "record") /\ session[s].event = session[o].event
             => s = o

\* The step begins no record call and leaves the events of those there are.
BeginsNoRecord ==
    \A s \in Sessions :
        Does(s, "record")' => Does(s, "record") /\ session'[s].event = session[s].event

LEMMA FreshStays ==
    ASSUME Fresh, BeginsNoRecord, UNCHANGED events
    PROVE  Fresh'
  BY DEF Fresh, BeginsNoRecord

\* The step replaces the session of s by one that is idle, that checkpoints, or
\* that goes on with the record call it had.
Continues(s) ==
    \E new :
        /\ session' = [session EXCEPT ![s] = new]
        /\ \/ new.pc = "idle"
           \/ new.op = "checkpoint"
           \/ Does(s, "record") /\ new.event = session[s].event

LEMMA EndContinues ==
    ASSUME NEW s \in Sessions, End(s)
    PROVE  Continues(s)
<1>1. session' = [session EXCEPT ![s] = Idle] /\ Idle.pc = "idle"
  BY DEF End, Idle
<1> QED
  BY <1>1 DEF Continues

LEMMA GoToContinues ==
    ASSUME IInv, NEW s \in Sessions, NEW pc \in {"locked", "written"},
           ~At(s, "idle"), GoTo(s, pc)
    PROVE  Continues(s)
<1> DEFINE new == [session[s] EXCEPT !.pc = pc]
<1>1. session' = [session EXCEPT ![s] = new]
  BY GoToStep
<1>2. CASE session[s] \in Recording
  <2>1. Does(s, "record") /\ new.event = session[s].event
    BY <1>2 DEF Recording, Does, At
  <2> QED
    BY <1>1, <2>1 DEF Continues
<1>3. CASE session[s] \in Checkpointing
  <2>1. new.op = "checkpoint"
    BY <1>3 DEF Checkpointing
  <2> QED
    BY <1>1, <2>1 DEF Continues
<1>4. session[s] \in Recording \cup Checkpointing
  BY DEF IInv, TypeOK, At, Idle
<1> QED
  BY <1>2, <1>3, <1>4

LEMMA ReadTailContinues ==
    ASSUME IInv, NEW s \in Sessions, ReadTail(s)
    PROVE  Continues(s)
<1>1. PICK tail :
        /\ Does(s, "record")
        /\ session' = [session EXCEPT ![s].tail = tail, ![s].pc = "read"]
  BY DEF ReadTail
<1> DEFINE new == [session[s] EXCEPT !.tail = tail, !.pc = "read"]
<1>2. session[s] \in Recording
  BY <1>1, SessionFields DEF IInv
<1>3. session' = [session EXCEPT ![s] = new]
  BY <1>1 DEF IInv, TypeOK
<1>4. new.event = session[s].event
  BY <1>2 DEF Recording
<1> QED
  BY <1>1, <1>3, <1>4 DEF Continues

LEMMA ReadChainContinues ==
    ASSUME IInv, NEW s \in Sessions, ReadChain(s)
    PROVE  Continues(s)
<1> SUFFICES ASSUME ~End(s) PROVE Continues(s)
  BY EndContinues
<1>1. PICK seen :
        /\ Does(s, "checkpoint")
        /\ session' = [session EXCEPT ![s].seen = seen, ![s].pc = "read"]
  BY DEF ReadChain
<1> DEFINE new == [session[s] EXCEPT !.seen = seen, !.pc = "read"]
<1>2. session[s] \in Checkpointing
  BY <1>1, SessionFields DEF IInv
<1>3. session' = [session EXCEPT ![s] = new]
  BY <1>1 DEF IInv, TypeOK
<1>4. new.op = "checkpoint"
  BY <1>2 DEF Checkpointing
<1> QED
  BY <1>3, <1>4 DEF Continues

(* Only OpenRecord begins a record call.                                         *)
LEMMA OthersBeginNoRecord ==
    ASSUME IInv, NEW s \in Sessions,
           \/ \E t \in Tenants : OpenCheckpoint(s, t)
           \/ Statement(s)
           \/ Rollback(s)
    PROVE  BeginsNoRecord
<1>1. Continues(s)
  <2>1. CASE \E t \in Tenants : OpenCheckpoint(s, t)
    <3>1. PICK t \in Tenants : OpenCheckpoint(s, t)
      BY <2>1
    <3> DEFINE new == [pc |-> "open", op |-> "checkpoint", tenant |-> t, seen |-> NoEvidence]
    <3>2. session' = [session EXCEPT ![s] = new] /\ new.op = "checkpoint"
      BY <3>1 DEF OpenCheckpoint
    <3> HIDE DEF new
    <3> QED
      BY <3>2 DEF Continues
  <2>2. CASE LockTenantChain(s)
    <3>1. ~At(s, "idle") /\ GoTo(s, "locked")
      BY <2>2 DEF LockTenantChain, At
    <3> QED
      BY <3>1, GoToContinues
  <2>3. CASE InsertEvent(s) \/ InsertCheckpoint(s)
    <3>1. ~At(s, "idle") /\ (End(s) \/ GoTo(s, "written"))
      BY <2>3 DEF InsertEvent, InsertCheckpoint, At
    <3> QED
      BY <3>1, EndContinues, GoToContinues
  <2>4. CASE CommitRecord(s) \/ CommitCheckpoint(s) \/ Rollback(s)
    <3>1. End(s)
      BY <2>4 DEF CommitRecord, CommitCheckpoint, Rollback
    <3> QED
      BY <3>1, EndContinues
  <2> QED
    BY <2>1, <2>2, <2>3, <2>4, ReadTailContinues, ReadChainContinues DEF Statement
<1>2. PICK new :
        /\ session' = [session EXCEPT ![s] = new]
        /\ \/ new.pc = "idle"
           \/ new.op = "checkpoint"
           \/ Does(s, "record") /\ new.event = session[s].event
  BY <1>1 DEF Continues
<1>3. session'[s] = new /\ \A o \in Sessions \ {s} : session'[o] = session[o]
  BY <1>2 DEF IInv, TypeOK
<1> QED
  BY <1>2, <1>3 DEF BeginsNoRecord, Does

LEMMA FreshInv == IInv /\ Fresh /\ [Next]_vars => Fresh'
<1> SUFFICES ASSUME IInv, Fresh, [Next]_vars PROVE Fresh'
  OBVIOUS
<1>1. ASSUME NEW s \in Sessions, NEW t \in Tenants, NEW e \in Events, OpenRecord(s, t, e)
      PROVE  Fresh'
  <2>1. /\ session'[s].event = e
        /\ \A o \in Sessions \ {s} : session'[o] = session[o]
        /\ UNCHANGED events /\ ~Used(e)
    BY <1>1 DEF OpenRecord, IInv, TypeOK
  <2> QED
    BY <2>1 DEF Fresh, Used, Does
<1>2. ASSUME NEW s \in Sessions, CommitRecord(s)
      PROVE  Fresh'
  <2>1. BeginsNoRecord
    BY <1>2, OthersBeginNoRecord DEF Statement
  <2>2. /\ Does(s, "record")
        /\ session'[s] = Idle
        /\ events' = [events EXCEPT ![session[s].tenant] = @ \cup {NextRow(s)}]
    BY <1>2 DEF CommitRecord, End, IInv, TypeOK
  <2>3. NextRow(s).event = session[s].event
    BY DEF NextRow
  <2>4. \A t \in Tenants : \A r \in events'[t] : r \in events[t] \/ r = NextRow(s)
    BY <2>2 DEF IInv, TypeOK
  <2>5. ~Does(s, "record")'
    BY <2>2 DEF Does, Idle
  <2> QED
    BY <2>1, <2>2, <2>3, <2>4, <2>5 DEF Fresh, BeginsNoRecord
<1>3. ASSUME NEW s \in Sessions, ~CommitRecord(s),
             \/ \E t \in Tenants : OpenCheckpoint(s, t)
             \/ Statement(s)
             \/ Rollback(s)
      PROVE  Fresh'
  <2>1. UNCHANGED events
    BY <1>3 DEF OpenCheckpoint, Statement, Rollback, LockTenantChain, ReadTail, InsertEvent,
                ReadChain, InsertCheckpoint, CommitCheckpoint
  <2> QED
    BY <1>3, <2>1, OthersBeginNoRecord, FreshStays
<1>4. CASE UNCHANGED <<events, session>>
  BY <1>4 DEF Fresh, Does
<1>5. (\E t \in Tenants : RecordWormExport(t)) => UNCHANGED <<events, session>>
  BY DEF RecordWormExport
<1> QED
  BY <1>1, <1>2, <1>3, <1>4, <1>5 DEF Next, vars

\* The chain of a set of rows, as ChainOf reads it from a tenant's rows.
Chain(rows) ==
    [i \in 1..Cardinality(rows) |->
        IF \E r \in rows : r.seq = i THEN (CHOOSE r \in rows : r.seq = i).event ELSE Genesis]

(* A row with the next number puts its event at the end of the chain.            *)
LEMMA ChainAppends ==
    ASSUME NEW rows \in SUBSET Row, IsFiniteSet(rows), NEW row \in Row,
           row.seq = Cardinality(rows) + 1,
           \A r \in rows : r.seq < row.seq,
           \A r, q \in rows : r.seq = q.seq => r = q
    PROVE  Chain(rows \cup {row}) = Append(Chain(rows), row.event)
<1> DEFINE n == Cardinality(rows)
           more == rows \cup {row}
           known == Events \cup {Genesis}
<1>1. n \in Nat /\ row \notin rows
  BY FS_CardinalityType DEF Row
<1>2. Cardinality(more) = n + 1
  BY <1>1, FS_AddElement
<1>3. \A r \in rows : r.seq \in Nat /\ r.event \in Events
  BY DEF Row
<1> HIDE DEF n, more, known
<1>4. Chain(rows) = [i \in 1..n |-> Chain(rows)[i]] /\ DOMAIN Chain(rows) = 1..n
  BY DEF Chain, n
<1>5. /\ Chain(more) = [i \in 1..(n + 1) |-> Chain(more)[i]]
      /\ DOMAIN Chain(more) = 1..(n + 1)
  BY <1>2 DEF Chain
<1>6. ASSUME NEW i \in 1..n PROVE Chain(more)[i] = Chain(rows)[i] /\ Chain(rows)[i] \in known
  <2>1. i \in Nat /\ i # row.seq /\ i \in 1..(n + 1)
    BY <1>1 DEF n
  <2>2. CASE \E r \in rows : r.seq = i
    <3>1. PICK r \in rows : r.seq = i
      BY <2>2
    <3>2. (CHOOSE q \in rows : q.seq = i) = r
      BY <3>1
    <3>3. (CHOOSE q \in more : q.seq = i) = r
      BY <2>1, <3>1 DEF more
    <3>4. r \in more
      BY DEF more
    <3>5. Chain(rows)[i] = r.event
      BY <3>1, <3>2 DEF Chain, n
    <3>6. Chain(more)[i] = r.event
      BY <1>2, <2>1, <3>1, <3>3, <3>4 DEF Chain
    <3> QED
      BY <1>3, <3>5, <3>6 DEF known
  <2>3. CASE ~\E r \in rows : r.seq = i
    <3>1. Chain(rows)[i] = Genesis
      BY <2>3 DEF Chain, n
    <3>2. ~\E r \in more : r.seq = i
      BY <2>1, <2>3 DEF more
    <3>3. Chain(more)[i] = Genesis
      BY <1>2, <2>1, <3>2 DEF Chain
    <3> QED
      BY <3>1, <3>3 DEF known
  <2> QED
    BY <2>2, <2>3
<1>7. Chain(more)[n + 1] = row.event
  <2>1. row \in more /\ row.seq = n + 1 /\ n + 1 \in 1..(n + 1)
    BY <1>1 DEF more, n
  <2>2. \A q \in more : q.seq = n + 1 => q = row
    BY <1>3, <2>1 DEF more
  <2>3. (CHOOSE q \in more : q.seq = n + 1) = row
    BY <2>1, <2>2
  <2> QED
    BY <1>2, <2>1, <2>3 DEF Chain
<1> DEFINE old == Chain(rows)
           longer == Chain(more)
           e == row.event
<1>8. /\ old = [i \in 1..n |-> old[i]] /\ \A i \in 1..n : old[i] \in known
      /\ longer = [i \in 1..(n + 1) |-> longer[i]] /\ DOMAIN longer = 1..(n + 1)
      /\ \A i \in 1..n : longer[i] = old[i]
      /\ longer[n + 1] = e
      /\ e \in known
  BY <1>4, <1>5, <1>6, <1>7 DEF known, Row
<1>9. longer = Append(old, e)
  <2> HIDE DEF old, longer, e
  <2>1. old \in Seq(known) /\ Len(old) = n
    BY <1>1, <1>8
  <2>2. /\ Append(old, e) \in Seq(known) /\ Len(Append(old, e)) = n + 1
        /\ \A i \in 1..n : Append(old, e)[i] = old[i]
        /\ Append(old, e)[n + 1] = e
    BY <1>1, <1>8, <2>1
  <2>3. Append(old, e) \in [1..(n + 1) -> known]
    BY <2>2, LenProperties
  <2>4. Append(old, e) = [i \in 1..(n + 1) |-> Append(old, e)[i]]
    BY <2>3
  <2>5. ASSUME NEW i \in 1..(n + 1) PROVE Append(old, e)[i] = longer[i]
    <3>1. i \in 1..n \/ i = n + 1
      BY <1>1
    <3> QED
      BY <1>8, <2>2, <3>1
  <2> QED
    BY <1>8, <2>4, <2>5
<1> QED
  BY <1>9 DEF more

(* A commit makes the abstract chain of its tenant one event longer.             *)
LEMMA CommitAppends ==
    ASSUME IInv, Fresh, NEW s \in Sessions, CommitRecord(s)
    PROVE  Log!Next
<1>1. /\ Does(s, "record") /\ HasRead(s)
      /\ events' = [events EXCEPT ![session[s].tenant] = @ \cup {NextRow(s)}]
  BY DEF CommitRecord, At, HasRead
<1>2. PICK t \in Tenants, e \in Events, row \in Row :
        /\ t = session[s].tenant /\ e = session[s].event /\ row = NextRow(s)
        /\ row.event = e /\ row.seq = Cardinality(events[t]) + 1
        /\ \A r \in events[t] : r.seq < row.seq
  <2>1. /\ session[s].tenant \in Tenants
        /\ session[s].tail \in Tails(session[s].tenant)
        /\ NextRow(s) \in Row
        /\ NextRow(s).seq = session[s].tail.seq + 1
        /\ \A q \in events[session[s].tenant] : q.seq < NextRow(s).seq
    BY <1>1, NextRowFits
  <2>2. session[s].event \in Events /\ NextRow(s).event = session[s].event
    BY <1>1, SessionFields DEF IInv, Recording, NextRow
  <2>3. Cardinality(events[session[s].tenant]) = session[s].tail.seq
    BY <2>1 DEF IInv, Counted
  <2> QED
    BY <2>1, <2>2, <2>3
<1>3. /\ events'[t] = events[t] \cup {row}
      /\ \A u \in Tenants \ {t} : events'[u] = events[u]
  BY <1>1, <1>2 DEF IInv, TypeOK
<1>4. /\ events[t] \in SUBSET Row /\ IsFiniteSet(events[t])
      /\ \A r, q \in events[t] : r.seq = q.seq => r = q
  BY DEF IInv, TypeOK, Counted, ChainVerifies
<1>5. Chain(events'[t]) = Append(Chain(events[t]), e)
  BY <1>2, <1>3, <1>4, ChainAppends
<1>6. \A u \in Tenants : Chain(events'[u])
                           = IF u = t THEN Append(Chain(events[t]), e) ELSE Chain(events[u])
  BY <1>3, <1>5
<1>7. \A u \in Tenants : ChainOf(u) = Chain(events[u]) /\ ChainOf(u)' = Chain(events'[u])
  BY DEF ChainOf, Chain
<1> DEFINE before == [u \in Tenants |-> Chain(events[u])]
           after == [u \in Tenants |-> Chain(events'[u])]
<1>8. after = [before EXCEPT ![t] = Append(@, e)]
  BY <1>6
<1>9. e \notin UNION {Log!Range(before[u]) : u \in Tenants}
  <2>1. ASSUME NEW u \in Tenants, NEW i \in DOMAIN Chain(events[u])
        PROVE  Chain(events[u])[i] # e
    <3>1. CASE \E r \in events[u] : r.seq = i
      <4>1. PICK r \in events[u] : r = CHOOSE q \in events[u] : q.seq = i
        BY <3>1
      <4>2. r.event # e
        BY <1>1, <1>2 DEF Fresh
      <4> QED
        BY <3>1, <4>1, <4>2 DEF Chain
    <3>2. CASE ~\E r \in events[u] : r.seq = i
      BY <3>2, GenesisAssumption DEF Chain
    <3> QED
      BY <3>1, <3>2
  <2> QED
    BY <2>1 DEF Log!Range
<1>10. [u \in Tenants |-> ChainOf(u)] = before /\ [u \in Tenants |-> ChainOf(u)]' = after
  BY <1>7
<1> HIDE DEF before, after
<1>11. Log!Record(t, e)
  BY <1>8, <1>9, <1>10 DEF Log!Record, Log!Recorded
<1> QED
  BY <1>11 DEF Log!Next

(* Every step of the store records one event at the end of one tenant's chain,   *)
(* or changes no chain.                                                          *)
THEOREM Refinement == Spec => ImplementsAuditLog
<1>1. Init => Log!Init
  <2> SUFFICES ASSUME Init, NEW t \in Tenants PROVE ChainOf(t) = <<>>
    BY DEF Log!Init
  <2>1. Cardinality(events[t]) = 0
    BY FS_EmptySet DEF Init
  <2> QED
    BY <2>1 DEF ChainOf
<1>2. Init => Fresh
  BY DEF Init, Fresh, Does, Idle
<1>3. IInv /\ Fresh /\ [Next]_vars => [Log!Next]_([t \in Tenants |-> ChainOf(t)])
  <2> SUFFICES ASSUME IInv, Fresh, [Next]_vars, ~\E s \in Sessions : CommitRecord(s)
               PROVE  UNCHANGED [t \in Tenants |-> ChainOf(t)]
    BY CommitAppends
  <2>1. UNCHANGED events
    BY DEF Next, vars, OpenRecord, OpenCheckpoint, Statement, Rollback, LockTenantChain,
           ReadTail, InsertEvent, ReadChain, InsertCheckpoint, CommitCheckpoint,
           RecordWormExport
  <2> QED
    BY <2>1 DEF ChainOf
<1> QED
  BY <1>1, <1>2, <1>3, FreshInv, Invariance, PTL DEF Spec, ImplementsAuditLog, Log!Spec
-----------------------------------------------------------------------------
(* The fields of a record call.                                                  *)
LEMMA RecordCallFields ==
    ASSUME LogTypeOK, NEW w \in Writers
    PROVE  /\ w[1] \in Processes
           /\ InStage(w, "idle") => call[w] = NoCall
           /\ ~InStage(w, "idle") => call[w].event \in Events
           /\ InStage(w, "linked") =>
                 /\ call[w].prev \in Events \cup {Genesis}
                 /\ call[w] \in
                       [pc: {"linked"}, event: Events, prev: Events \cup {Genesis}]
           /\ call[w].pc \in {"built", "written"} =>
                 /\ call[w].line \in Record
                 /\ call[w] \in [pc: {"built", "written"}, event: Events, line: Record]
           /\ call[w].pc \in {"idle", "linked", "built", "written"}
<1>1. call[w] \in {NoCall} \cup Call
  BY DEF LogTypeOK
<1> QED
  BY <1>1 DEF NoCall, Call, InStage, Writers

LEMMA InitLog == LogInit => LogTypeOK
<1> SUFFICES ASSUME LogInit PROVE LogTypeOK
  OBVIOUS
<1> QED
  BY DEF LogInit, LogTypeOK, NoCall

LEMMA GluedIsLines ==
    ASSUME LogTypeOK, file # <<>>
    PROVE  Glued \in Seq(Line) /\ Len(Glued) = Len(file) /\ Glued[Len(file)] = Garbage
           /\ \A i \in 1..Len(file) - 1 : Glued[i] = file[i]
  BY DEF LogTypeOK, Glued, Line

(* Only a file that has lines ends in part of one.                               *)
PartOfALine == terminated \/ file # <<>>

(* What an interrupted write leaves is nothing new, a line at the end that does  *)
(* not end, or garbage for the last line.                                        *)
LEMMA InterruptedFile ==
    ASSUME LogTypeOK, PartOfALine, NEW w \in Writers, InStage(w, "built"), Interrupted(w)
    PROVE  /\ file' \in Seq(Line) /\ terminated' \in BOOLEAN /\ PartOfALine'
           /\ \/ UNCHANGED <<file, terminated>>
              \/ /\ terminated /\ ~terminated'
                 /\ file' = Append(file, Garbage) \/ file' = Append(file, call[w].line)
              \/ ~terminated /\ ~terminated' /\ file' = Glued /\ file # <<>>
<1>1. call[w].line \in Line /\ Garbage \in Line
  BY RecordCallFields DEF InStage, Line
<1> QED
  <2>1. CASE UNCHANGED <<file, terminated>>
    BY <2>1 DEF LogTypeOK, PartOfALine
  <2>2. CASE /\ file' \in (IF terminated THEN {Append(file, Garbage), Append(file, call[w].line)}
                                         ELSE {Glued})
             /\ terminated' = FALSE
    <3>1. CASE terminated
      <4>1. file' = Append(file, Garbage) \/ file' = Append(file, call[w].line)
        BY <2>2, <3>1
      <4>2. file' \in Seq(Line) /\ file' # <<>>
        <5>1. file \in Seq(Line) /\ \E line \in Line : file' = Append(file, line)
          BY <1>1, <4>1 DEF LogTypeOK
        <5> QED
          BY <5>1, AppendProperties
      <4> QED
        BY <2>2, <3>1, <4>1, <4>2 DEF PartOfALine
    <3>2. CASE ~terminated
      <4>1. file' = Glued /\ file # <<>>
        BY <2>2, <3>2 DEF PartOfALine
      <4>2. file' \in Seq(Line) /\ Len(file') = Len(file)
        BY <4>1, GluedIsLines
      <4>3. file' # <<>>
        BY <4>1, <4>2 DEF LogTypeOK
      <4> QED
        BY <2>2, <3>2, <4>1, <4>2, <4>3 DEF PartOfALine, LogTypeOK
    <3> QED
      BY <3>1, <3>2
  <2> QED
    BY <2>1, <2>2 DEF Interrupted

LEMMA LogTypeStep == LogTypeOK /\ PartOfALine /\ [LogNext]_logVars => LogTypeOK' /\ PartOfALine'
<1> SUFFICES ASSUME LogTypeOK, PartOfALine, [LogNext]_logVars PROVE LogTypeOK' /\ PartOfALine'
  OBVIOUS
<1>1. ASSUME NEW w \in Writers, NEW e \in Events, BeginRecord(w, e) PROVE LogTypeOK' /\ PartOfALine'
  <2>1. LastEvent(memory[w[1]]) \in Events \cup {Genesis}
    <3>1. memory[w[1]] \in Seq(Record)
      BY DEF LogTypeOK, Writers
    <3>2. CASE memory[w[1]] # <<>>
      <4>1. memory[w[1]][Len(memory[w[1]])] \in Record
        BY <3>1, <3>2
      <4> QED
        BY <3>2, <4>1 DEF LastEvent, Record
    <3> QED
      BY <3>2 DEF LastEvent
  <2> QED
    BY <1>1, <2>1 DEF BeginRecord, LogTypeOK, Call, PartOfALine
<1>2. ASSUME NEW w \in Writers, BuildEvent(w) PROVE LogTypeOK' /\ PartOfALine'
  <2> DEFINE line == [event |-> call[w].event, seq |-> NextNumber(w), prev |-> call[w].prev]
  <2>1. line \in Record
    <3>1. NextNumber(w) \in Nat \ {0}
      <4>1. memory[w[1]] \in Seq(Record)
        BY DEF LogTypeOK, Writers
      <4> QED
        BY <4>1 DEF NextNumber
    <3>2. call[w].event \in Events /\ call[w].prev \in Events \cup {Genesis}
      BY <1>2, RecordCallFields DEF BuildEvent, InStage
    <3> QED
      BY <3>1, <3>2 DEF Record
  <2>2. [pc |-> "built", event |-> line.event, line |-> line] \in Call
    BY <2>1 DEF Call, Record
  <2> QED
    BY <1>2, <2>2 DEF BuildEvent, LogTypeOK, PartOfALine
<1>3. ASSUME NEW w \in Writers, WriteLine(w) PROVE LogTypeOK' /\ PartOfALine'
  <2>1. call[w].line \in Line /\ [call[w] EXCEPT !.pc = "written"] \in Call
    BY <1>3, RecordCallFields DEF WriteLine, InStage, Line, Call
  <2>2. file' \in Seq(Line)
    BY <1>3, <2>1, GluedIsLines DEF WriteLine, FileWith, PartOfALine, LogTypeOK
  <2> QED
    BY <1>3, <2>1, <2>2 DEF WriteLine, LogTypeOK, PartOfALine
<1>4. ASSUME NEW w \in Writers, AppendEvent(w) PROVE LogTypeOK' /\ PartOfALine'
  BY <1>4, RecordCallFields DEF AppendEvent, InStage, LogTypeOK, PartOfALine
<1>5. ASSUME NEW w \in Writers, WriteFails(w) PROVE LogTypeOK' /\ PartOfALine'
  BY <1>5, InterruptedFile DEF WriteFails, MemoryAfterFailure, LogTypeOK
<1>6. ASSUME NEW p \in Processes, Crash(p) PROVE LogTypeOK' /\ PartOfALine'
  <2>1. file' \in Seq(Line) /\ terminated' \in BOOLEAN /\ PartOfALine'
    <3>1. CASE UNCHANGED <<file, terminated>>
      BY <3>1 DEF LogTypeOK, PartOfALine
    <3>2. ASSUME NEW th \in Threads, InStage(<<p, th>>, "built"), Interrupted(<<p, th>>)
          PROVE  file' \in Seq(Line) /\ terminated' \in BOOLEAN /\ PartOfALine'
      BY <3>2, InterruptedFile DEF Writers
    <3> QED
      BY <1>6, <3>1, <3>2 DEF Crash
  <2> QED
    BY <1>6, <2>1 DEF Crash, LogTypeOK
<1>7. ASSUME NEW p \in Processes, Restart(p) PROVE LogTypeOK' /\ PartOfALine'
  <2>1. file \in Seq(Record)
    BY <1>7 DEF Restart, Loads, Readable, LogTypeOK
  <2> QED
    BY <1>7, <2>1 DEF Restart, Loads, LogTypeOK, PartOfALine
<1>8. CASE UNCHANGED logVars
  BY <1>8 DEF logVars, LogTypeOK, PartOfALine
<1> QED
  BY <1>1, <1>2, <1>3, <1>4, <1>5, <1>6, <1>7, <1>8 DEF LogNext

(* A file changes at its end only: a line is added, or the last one is garbage.  *)
LEMMA FileChanges ==
    ASSUME LogTypeOK, PartOfALine, [LogNext]_logVars
    PROVE  \/ UNCHANGED <<file, terminated>>
           \/ terminated /\ \E line \in Line : file' = Append(file, line)
           \/ ~terminated /\ file # <<>> /\ file' = Glued
<1> DEFINE Result ==
      \/ UNCHANGED <<file, terminated>>
      \/ terminated /\ \E line \in Line : file' = Append(file, line)
      \/ ~terminated /\ file # <<>> /\ file' = Glued
<1>1. ASSUME NEW w \in Writers, WriteLine(w) PROVE Result
  <2>1. call[w].line \in Line
    BY <1>1, RecordCallFields DEF WriteLine, InStage, Line
  <2> QED
    BY <1>1, <2>1 DEF WriteLine, FileWith, PartOfALine
<1>2. ASSUME NEW w \in Writers, InStage(w, "built"), Interrupted(w) PROVE Result
  <2>1. call[w].line \in Line /\ Garbage \in Line
    BY <1>2, RecordCallFields DEF InStage, Line
  <2> QED
    BY <1>2, <2>1, InterruptedFile
<1>3. ASSUME NEW w \in Writers, WriteFails(w) PROVE Result
  BY <1>2, <1>3 DEF WriteFails
<1>4. ASSUME NEW p \in Processes, Crash(p) PROVE Result
  BY <1>2, <1>4 DEF Crash, Writers
<1> QED
  BY <1>1, <1>3, <1>4 DEF LogNext, BeginRecord, BuildEvent, AppendEvent, Restart, logVars

(* Garbage stays: a file that can be read begins with what it was, which could   *)
(* be read, too.                                                                 *)
LEMMA ReadableGrows ==
    ASSUME LogTypeOK, PartOfALine, [LogNext]_logVars, Readable'
    PROVE  /\ Readable /\ (file # <<>> => file' # Glued)
           /\ \A i \in DOMAIN file : i \in DOMAIN file' /\ file'[i] = file[i]
<1>1. file \in Seq(Line)
  BY DEF LogTypeOK
<1>2. file # <<>> => file' # Glued
  <2> SUFFICES ASSUME file # <<>>, file' = Glued PROVE FALSE
    OBVIOUS
  <2>1. Len(file) \in DOMAIN file' /\ file'[Len(file)] = Garbage
    BY <1>1, GluedIsLines
  <2> QED
    BY <2>1, LinesAssumption DEF Readable
<1>3. CASE UNCHANGED file
  BY <1>2, <1>3 DEF Readable
<1>4. CASE \E line \in Line : file' = Append(file, line)
  <2>1. PICK line \in Line : file' = Append(file, line)
    BY <1>4
  <2>2. /\ file' \in Seq(Line) /\ Len(file') = Len(file) + 1
        /\ \A i \in 1..Len(file) : file'[i] = file[i]
    BY <1>1, <2>1, AppendProperties
  <2>3. \A i \in DOMAIN file : i \in DOMAIN file' /\ file'[i] = file[i]
    BY <1>1, <2>2
  <2> QED
    BY <1>2, <2>3 DEF Readable
<1> QED
  BY <1>2, <1>3, <1>4, FileChanges

(* Events of calls under way differ, and no line has that of a call which has    *)
(* not written its line yet.                                                     *)
EventsDiffer ==
    /\ \A v, w \in Writers :
          ~InStage(v, "idle") /\ ~InStage(w, "idle") /\ call[v].event = call[w].event => v = w
    /\ \A w \in Writers : call[w].pc \in {"linked", "built"} =>
          \A i \in DOMAIN file : file[i] \in Record => file[i].event # call[w].event
    /\ \A w \in Writers : call[w].pc \in {"built", "written"} => call[w].line.event = call[w].event

(* What a caller was told of, and what was written, can be read if anything can. *)
ReturnedAreRead ==
    Readable =>
        /\ \A e \in returned : \E i \in DOMAIN file : file[i].event = e
        /\ \A w \in Writers : InStage(w, "written") => \E i \in DOMAIN file : file[i] = call[w].line

(* The events that can be read in a file after a step were there, or come from   *)
(* the line that the step writes.                                                *)
LEMMA LinesComeFrom ==
    ASSUME LogTypeOK, NEW line \in Record,
           \/ file' = file
           \/ file' = Append(file, Garbage)
           \/ file' = Append(file, line)
           \/ file # <<>> /\ file' = Glued
    PROVE  \A i \in DOMAIN file' : file'[i] \in Record =>
              file'[i] = line \/ \E j \in DOMAIN file : file[j] = file'[i]
<1>1. file \in Seq(Line) /\ line \in Line /\ Garbage \in Line /\ Garbage \notin Record
  BY LinesAssumption DEF LogTypeOK, Line
<1>2. ASSUME NEW new \in {Garbage, line}, file' = Append(file, new)
      PROVE  \A i \in DOMAIN file' : file'[i] = new \/ \E j \in DOMAIN file : file[j] = file'[i]
  <2>1. file' \in Seq(Line) /\ Len(file') = Len(file) + 1 /\ file'[Len(file) + 1] = new
        /\ \A i \in 1..Len(file) : file'[i] = file[i]
    BY <1>1, <1>2, AppendProperties
  <2> QED
    BY <1>1, <2>1
<1>3. CASE file' = file
  BY <1>3
<1>4. CASE file # <<>> /\ file' = Glued
  <2>1. /\ file' \in Seq(Line) /\ Len(file') = Len(file) /\ file'[Len(file)] = Garbage
        /\ \A i \in 1..Len(file) - 1 : file'[i] = file[i]
    BY <1>4, GluedIsLines
  <2> QED
    BY <1>1, <2>1
<1> QED
  BY <1>1, <1>2, <1>3, <1>4

MayWrite(w) ==
    \/ file' = file
    \/ file' = Append(file, Garbage)
    \/ file' = Append(file, call[w].line)
    \/ file # <<>> /\ file' = Glued
EndsOrIsWritten(w) ==
    \/ call'[w] = NoCall
    \/ call'[w].pc = "written" /\ call'[w].event = call[w].event /\ call'[w].line = call[w].line
OthersEndOrWait(w) == \A v \in Writers : v # w => call'[v] = call[v] \/ call'[v] = NoCall

(* A step that writes the line of a call, and ends or continues that call only.  *)
LEMMA WritesKeepEventsApart ==
    ASSUME LogTypeOK, EventsDiffer,
           NEW w \in Writers, call[w].pc = "built",
           MayWrite(w), EndsOrIsWritten(w), OthersEndOrWait(w)
    PROVE  EventsDiffer'
<1>1. call[w].line \in Record /\ call[w].line.event = call[w].event
  BY RecordCallFields DEF EventsDiffer
<1>2. ASSUME NEW v \in Writers, call'[v].pc \in {"linked", "built"},
             NEW i \in DOMAIN file', file'[i] \in Record
      PROVE  file'[i].event # call'[v].event
  <2>1. v # w /\ call'[v] = call[v]
    BY <1>2 DEF NoCall, EndsOrIsWritten, OthersEndOrWait
  <2>2. call[v].event # call[w].event
    BY <1>2, <2>1 DEF EventsDiffer, InStage
  <2>3. file'[i] = call[w].line \/ \E j \in DOMAIN file : file[j] = file'[i]
    BY <1>1, <1>2, LinesComeFrom DEF MayWrite
  <2> QED
    BY <1>1, <1>2, <2>1, <2>2, <2>3 DEF EventsDiffer
<1>3. \A v \in Writers :
        ~InStage(v, "idle")' => ~InStage(v, "idle") /\ call'[v].event = call[v].event
  BY DEF InStage, NoCall, EndsOrIsWritten, OthersEndOrWait
<1>4. \A v \in Writers :
        call'[v].pc \in {"built", "written"} => call'[v].line.event = call'[v].event
  BY <1>1 DEF EventsDiffer, NoCall, EndsOrIsWritten, OthersEndOrWait
<1> QED
  BY <1>2, <1>3, <1>4 DEF EventsDiffer

LEMMA EventsStep ==
    ASSUME LogTypeOK, PartOfALine, EventsDiffer, [LogNext]_logVars
    PROVE  EventsDiffer'
<1>1. ASSUME NEW w \in Writers, NEW e \in Events, BeginRecord(w, e) PROVE EventsDiffer'
  <2>1. call'[w].pc = "linked" /\ call'[w].event = e /\ UNCHANGED file
        /\ \A v \in Writers \ {w} : call'[v] = call[v]
    BY <1>1 DEF BeginRecord, LogTypeOK
  <2>2. /\ \A v \in Writers : ~InStage(v, "idle") => call[v].event # e
        /\ \A i \in DOMAIN file : file[i] \in Record => file[i].event # e
    BY <1>1 DEF BeginRecord, EventUsed
  <2> QED
    BY <2>1, <2>2 DEF EventsDiffer, InStage
<1>2. ASSUME NEW w \in Writers, BuildEvent(w) PROVE EventsDiffer'
  <2>1. /\ call'[w].pc = "built" /\ call'[w].event = call[w].event
        /\ call'[w].line.event = call[w].event
        /\ \A v \in Writers \ {w} : call'[v] = call[v]
        /\ call[w].pc = "linked" /\ UNCHANGED file
    BY <1>2 DEF BuildEvent, InStage, LogTypeOK
  <2> QED
    BY <2>1 DEF EventsDiffer, InStage
<1>3. ASSUME NEW w \in Writers, WriteLine(w) PROVE EventsDiffer'
  <2>1. call[w].pc = "built" /\ MayWrite(w)
    BY <1>3 DEF WriteLine, FileWith, InStage, PartOfALine, MayWrite
  <2>2. call'[w] = [call[w] EXCEPT !.pc = "written"] /\ \A v \in Writers \ {w} : call'[v] = call[v]
    BY <1>3 DEF WriteLine, LogTypeOK
  <2>3. call'[w].pc = "written" /\ call'[w].event = call[w].event /\ call'[w].line = call[w].line
    BY <2>1, <2>2, RecordCallFields
  <2> QED
    BY <2>1, <2>2, <2>3, WritesKeepEventsApart DEF EndsOrIsWritten, OthersEndOrWait
<1>4. ASSUME NEW w \in Writers, AppendEvent(w) PROVE EventsDiffer'
  BY <1>4 DEF AppendEvent, EventsDiffer, LogTypeOK, NoCall, InStage
<1>5. ASSUME NEW w \in Writers, WriteFails(w) PROVE EventsDiffer'
  <2>1. call[w].pc = "built" /\ call'[w] = NoCall /\ \A v \in Writers \ {w} : call'[v] = call[v]
    BY <1>5 DEF WriteFails, InStage, LogTypeOK
  <2>2. MayWrite(w)
    BY <1>5, InterruptedFile DEF WriteFails, MayWrite
  <2> QED
    BY <2>1, <2>2, WritesKeepEventsApart DEF EndsOrIsWritten, OthersEndOrWait
<1>6. ASSUME NEW p \in Processes, Crash(p) PROVE EventsDiffer'
  <2>1. \A v \in Writers : call'[v] = IF v[1] = p THEN NoCall ELSE call[v]
    BY <1>6 DEF Crash
  <2>2. CASE file' = file
    BY <2>1, <2>2 DEF EventsDiffer, NoCall, InStage
  <2>3. ASSUME NEW th \in Threads, InStage(<<p, th>>, "built"), Interrupted(<<p, th>>)
        PROVE  EventsDiffer'
    <3> DEFINE w == <<p, th>>
    <3>1. w \in Writers /\ call[w].pc = "built" /\ call'[w] = NoCall
      BY <2>1, <2>3 DEF Writers, InStage
    <3>2. MayWrite(w)
      BY <2>3, <3>1, InterruptedFile DEF MayWrite
    <3>3. EndsOrIsWritten(w) /\ OthersEndOrWait(w)
      BY <2>1, <3>1 DEF EndsOrIsWritten, OthersEndOrWait
    <3> HIDE DEF w
    <3> QED
      BY <3>1, <3>2, <3>3, WritesKeepEventsApart
  <2> QED
    BY <1>6, <2>2, <2>3 DEF Crash
<1>7. ASSUME NEW p \in Processes, Restart(p) PROVE EventsDiffer'
  BY <1>7 DEF Restart, EventsDiffer, InStage
<1>8. CASE UNCHANGED logVars
  BY <1>8 DEF logVars, EventsDiffer, InStage
<1> QED
  BY <1>1, <1>2, <1>3, <1>4, <1>5, <1>6, <1>7, <1>8 DEF LogNext

(* Nobody reaches "written" but by writing, and nothing is returned before.      *)
LEMMA WrittenBefore ==
    ASSUME LogTypeOK, [LogNext]_logVars, NEW w \in Writers, InStage(w, "written")', ~WriteLine(w)
    PROVE  call'[w] = call[w]
<1>1. ASSUME NEW v \in Writers,
             \/ \E e \in Events : BeginRecord(v, e)
             \/ BuildEvent(v) \/ WriteLine(v) \/ AppendEvent(v) \/ WriteFails(v)
      PROVE  call'[w] = call[w]
  BY <1>1
     DEF BeginRecord, BuildEvent, WriteLine, AppendEvent, WriteFails, InStage, LogTypeOK,
         NoCall
<1>2. ASSUME NEW p \in Processes, Crash(p) \/ Restart(p) PROVE call'[w] = call[w]
  BY <1>2 DEF Crash, Restart, InStage, NoCall
<1> QED
  BY <1>1, <1>2 DEF LogNext, logVars

LEMMA ReturnedBefore ==
    ASSUME [LogNext]_logVars, NEW e \in returned', e \notin returned
    PROVE  \E w \in Writers : AppendEvent(w) /\ e = call[w].event
  BY DEF LogNext, logVars, BeginRecord, BuildEvent, WriteLine, AppendEvent, WriteFails,
         Crash, Restart

LEMMA ReturnedStep ==
    ASSUME LogTypeOK, PartOfALine, EventsDiffer, ReturnedAreRead, [LogNext]_logVars
    PROVE  ReturnedAreRead'
<1> SUFFICES ASSUME Readable'
             PROVE  /\ \A e \in returned' : \E i \in DOMAIN file' : file'[i].event = e
                    /\ \A w \in Writers : InStage(w, "written")' =>
                          \E i \in DOMAIN file' : file'[i] = call'[w].line
  BY DEF ReturnedAreRead
<1>1. /\ Readable /\ (file # <<>> => file' # Glued)
      /\ \A i \in DOMAIN file : i \in DOMAIN file' /\ file'[i] = file[i]
  BY ReadableGrows
<1>2. ASSUME NEW e \in returned' PROVE \E i \in DOMAIN file' : file'[i].event = e
  <2>1. CASE e \in returned
    BY <1>1, <2>1 DEF ReturnedAreRead
  <2>2. CASE e \notin returned
    <3>1. PICK w \in Writers : AppendEvent(w) /\ e = call[w].event
      BY <2>2, ReturnedBefore
    <3>2. InStage(w, "written") /\ call[w].line.event = e
      BY <3>1 DEF AppendEvent, EventsDiffer, InStage
    <3> QED
      BY <1>1, <3>2 DEF ReturnedAreRead
  <2> QED
    BY <2>1, <2>2
<1>3. ASSUME NEW w \in Writers, InStage(w, "written")'
      PROVE  \E i \in DOMAIN file' : file'[i] = call'[w].line
  <2>1. CASE WriteLine(w)
    <3>1. file' = Append(file, call[w].line)
      BY <1>1, <2>1 DEF WriteLine, FileWith, PartOfALine
    <3>2. call[w].line \in Line /\ file \in Seq(Line)
      BY <2>1, RecordCallFields DEF WriteLine, InStage, Line, LogTypeOK
    <3>3. Len(file) + 1 \in DOMAIN file' /\ file'[Len(file) + 1] = call[w].line
      BY <3>1, <3>2, AppendProperties
    <3>4. call'[w].line = call[w].line
      <4>1. call' = [call EXCEPT ![w] = [call[w] EXCEPT !.pc = "written"]] /\ call[w].pc = "built"
        BY <2>1 DEF WriteLine, InStage
      <4> QED
        BY <4>1, RecordCallFields DEF LogTypeOK
    <3> QED
      BY <3>3, <3>4
  <2>2. CASE ~WriteLine(w)
    <3>1. call'[w] = call[w]
      BY <1>3, <2>2, WrittenBefore
    <3> QED
      BY <1>1, <1>3, <3>1 DEF ReturnedAreRead, InStage
  <2> QED
    BY <2>1, <2>2
<1> QED
  BY <1>2, <1>3

LogInv == LogTypeOK /\ PartOfALine /\ EventsDiffer /\ ReturnedAreRead

LEMMA LogInvariance == LogSpec => []LogInv
<1>1. LogInit => LogInv
  BY InitLog
     DEF LogInit, LogInv, PartOfALine, EventsDiffer, ReturnedAreRead, InStage, NoCall
<1>2. LogInv /\ [LogNext]_logVars => LogInv'
  BY LogTypeStep, EventsStep, ReturnedStep DEF LogInv
<1> QED
  BY <1>1, <1>2, PTL DEF LogSpec

(* The file, the lists in memory and the record calls are well formed, whatever is *)
(* written in part and wherever a process crashes.                               *)
THEOREM LogTypeCorrect == LogSpec => []LogTypeOK
<1>1. LogInv => LogTypeOK
  BY DEF LogInv
<1> QED
  BY <1>1, LogInvariance, PTL

LEMMA RestartReads ==
    ASSUME LogInv, [LogNext]_logVars, NEW p \in Processes, ~running[p], running'[p],
           NEW e \in returned
    PROVE  \E i \in DOMAIN memory'[p] : memory'[p][i].event = e
<1>1. PICK q \in Processes : Restart(q)
  BY DEF LogNext, logVars, BeginRecord, BuildEvent, WriteLine, AppendEvent, WriteFails,
         Crash, LogInv, LogTypeOK
<1>2. p = q
  BY <1>1 DEF Restart, LogInv, LogTypeOK
<1>3. Readable /\ memory'[p] = file
  BY <1>1, <1>2 DEF Restart, Loads, LogInv, LogTypeOK
<1> QED
  BY <1>3 DEF LogInv, ReturnedAreRead

(* With any number of processes and threads: a process that starts has every event *)
(* of which a caller was told.  Interleaved calls can make a file that no process *)
(* loads, but never one that is loaded without such an event.                    *)
THEOREM ReturnedSurviveRestart == LogSpec => RestartKeepsReturned
<1>1. LogInv /\ [LogNext]_logVars =>
        [\A p \in Processes :
           ~running[p] /\ running'[p] =>
               \A e \in returned : \E i \in DOMAIN memory'[p] : memory'[p][i].event = e]_logVars
  BY RestartReads
<1> QED
  BY <1>1, LogInvariance, PTL DEF LogSpec, RestartKeepsReturned

-----------------------------------------------------------------------------
(* One process with one thread: the file's last event is the list's last, as     *)
(* long as lines end.                                                            *)
OneWriter == \A v, w \in Writers : v = w

Follows(w, log) ==
    /\ ~InStage(w, "idle") => running[w[1]]
    /\ InStage(w, "linked") => call[w].prev = LastEvent(log)
    /\ call[w].pc \in {"built", "written"} =>
          call[w].line.seq = Len(log) + 1 /\ call[w].line.prev = LastEvent(log)
    /\ Readable /\ running[w[1]] /\ terminated =>
          file = IF InStage(w, "written") THEN Append(log, call[w].line) ELSE log
ChainInv ==
    /\ FileVerifies
    /\ \A w \in Writers : Follows(w, memory[w[1]])

LEMMA NextLineVerifies ==
    ASSUME NEW log \in Seq(Record), Verifies(log), NEW line \in Record,
           line.seq = Len(log) + 1, line.prev = LastEvent(log)
    PROVE  Verifies(Append(log, line))
<1>1. /\ Append(log, line) \in Seq(Record) /\ Len(Append(log, line)) = Len(log) + 1
      /\ Append(log, line)[Len(log) + 1] = line
      /\ \A i \in 1..Len(log) : Append(log, line)[i] = log[i]
  BY AppendProperties
<1>2. ASSUME NEW i \in DOMAIN Append(log, line)
      PROVE  /\ Append(log, line)[i].seq = i
             /\ Append(log, line)[i].prev =
                   IF i = 1 THEN Genesis ELSE Append(log, line)[i - 1].event
  <2>1. CASE i \in 1..Len(log)
    BY <1>1, <2>1 DEF Verifies
  <2>2. CASE i = Len(log) + 1
    <3>1. CASE log = <<>>
      BY <1>1, <2>2, <3>1 DEF LastEvent
    <3>2. CASE log # <<>>
      <4>1. Len(log) \in 1..Len(log) /\ i # 1 /\ i - 1 = Len(log)
        BY <2>2, <3>2
      <4> QED
        BY <1>1, <2>2, <3>2, <4>1 DEF LastEvent
    <3> QED
      BY <3>1, <3>2
  <2> QED
    BY <1>1, <2>1, <2>2
<1> QED
  BY <1>2 DEF Verifies

(* A line that a writer has built continues a file it follows.                   *)
LEMMA BuiltLineVerifies ==
    ASSUME LogTypeOK, ChainInv, NEW w \in Writers, InStage(w, "built"), Readable, terminated
    PROVE  /\ file = memory[w[1]] /\ Verifies(Append(file, call[w].line))
<1>1. /\ running[w[1]] /\ file = memory[w[1]]
      /\ call[w].line.seq = Len(file) + 1 /\ call[w].line.prev = LastEvent(file)
  BY DEF ChainInv, Follows, InStage
<1>2. file \in Seq(Record) /\ call[w].line \in Record /\ Verifies(file)
  BY <1>1, RecordCallFields DEF ChainInv, FileVerifies, LogTypeOK, InStage, Writers
<1> QED
  BY <1>1, <1>2, NextLineVerifies

LEMMA ChainStep ==
    ASSUME OneWriter, LogTypeOK, PartOfALine, ChainInv, [LogNext]_logVars
    PROVE  ChainInv'
<1>1. Readable' => Readable /\ (file # <<>> => file' # Glued)
  BY ReadableGrows
<1>2. ASSUME UNCHANGED file PROVE FileVerifies'
  BY <1>2 DEF ChainInv, FileVerifies, Readable, Verifies
<1>3. ASSUME NEW w \in Writers, InStage(w, "built"), Interrupted(w) PROVE FileVerifies'
  <2> SUFFICES ASSUME Readable', file' # file PROVE Verifies(file')
    BY <1>2 DEF FileVerifies
  <2>1. terminated /\ (file' = Append(file, Garbage) \/ file' = Append(file, call[w].line))
    BY <1>1, <1>3, InterruptedFile
  <2>2. file' # Append(file, Garbage)
    <3> SUFFICES ASSUME file' = Append(file, Garbage) PROVE FALSE
      OBVIOUS
    <3>1. file \in Seq(Line) /\ Garbage \in Line
      BY DEF LogTypeOK, Line
    <3>2. Len(file) + 1 \in DOMAIN file' /\ file'[Len(file) + 1] = Garbage
      BY <3>1, AppendProperties
    <3> QED
      BY <3>2, LinesAssumption DEF Readable
  <2> QED
    BY <1>1, <1>3, <2>1, <2>2, BuiltLineVerifies
<1>4. ASSUME NEW w \in Writers, NEW e \in Events, BeginRecord(w, e) PROVE ChainInv'
  <2>1. /\ call'[w].pc = "linked" /\ call'[w].prev = LastEvent(memory[w[1]])
        /\ UNCHANGED <<file, terminated, memory, running>> /\ running[w[1]] /\ InStage(w, "idle")
    BY <1>4 DEF BeginRecord, LogTypeOK
  <2>2. Follows(w, memory[w[1]])'
    BY <2>1 DEF ChainInv, Follows, InStage, Readable
  <2> QED
    BY <1>2, <2>1, <2>2 DEF OneWriter, ChainInv
<1>5. ASSUME NEW w \in Writers, BuildEvent(w) PROVE ChainInv'
  <2>1. /\ call'[w].pc = "built"
        /\ call'[w].line.seq = Len(memory[w[1]]) + 1 /\ call'[w].line.prev = call[w].prev
        /\ UNCHANGED <<file, terminated, memory, running>> /\ InStage(w, "linked")
    BY <1>5 DEF BuildEvent, NextNumber, LogTypeOK
  <2>2. Follows(w, memory[w[1]])'
    BY <2>1 DEF ChainInv, Follows, InStage, Readable
  <2> QED
    BY <1>2, <2>1, <2>2 DEF OneWriter, ChainInv
<1>6. ASSUME NEW w \in Writers, WriteLine(w) PROVE ChainInv'
  <2>1. /\ InStage(w, "built") /\ call' = [call EXCEPT ![w] = [call[w] EXCEPT !.pc = "written"]]
        /\ file' = FileWith(w, call[w].line) /\ UNCHANGED <<memory, running>>
    BY <1>6 DEF WriteLine
  <2>2. call'[w].pc = "written" /\ call'[w].line = call[w].line
    BY <2>1, RecordCallFields DEF InStage, LogTypeOK
  <2>3. Readable' => /\ Readable /\ file = memory[w[1]]
                     /\ file' = Append(file, call[w].line) /\ Verifies(file')
    BY <1>1, <2>1, BuiltLineVerifies DEF FileWith, PartOfALine
  <2>4. Follows(w, memory[w[1]])'
    BY <2>1, <2>2, <2>3 DEF ChainInv, Follows, InStage
  <2> QED
    BY <2>3, <2>4 DEF OneWriter, ChainInv, FileVerifies
<1>7. ASSUME NEW w \in Writers, AppendEvent(w) PROVE ChainInv'
  <2>1. /\ InStage(w, "written") /\ call'[w].pc = "idle"
        /\ memory'[w[1]] = Append(memory[w[1]], call[w].line)
        /\ UNCHANGED <<file, terminated, running>>
    BY <1>7 DEF AppendEvent, LogTypeOK, NoCall, Writers
  <2>2. Follows(w, memory[w[1]])'
    BY <2>1 DEF ChainInv, Follows, InStage, Readable
  <2> QED
    BY <1>2, <2>1, <2>2 DEF OneWriter, ChainInv
<1>8. ASSUME NEW w \in Writers, WriteFails(w) PROVE ChainInv'
  <2>1. /\ InStage(w, "built") /\ Interrupted(w) /\ call'[w].pc = "idle"
        /\ UNCHANGED <<memory, running>>
    BY <1>8 DEF WriteFails, MemoryAfterFailure, LogTypeOK, NoCall
  <2>2. UNCHANGED <<file, terminated>> \/ ~terminated'
    BY <2>1 DEF Interrupted
  <2>3. Follows(w, memory[w[1]])'
    BY <2>1, <2>2 DEF ChainInv, Follows, InStage, Readable
  <2> QED
    BY <1>3, <2>1, <2>3 DEF OneWriter, ChainInv
<1>9. ASSUME NEW p \in Processes, NEW w \in Writers PROVE p = w[1]
  <2>1. w[2] \in Threads /\ <<p, w[2]>> \in Writers
    BY DEF Writers
  <2> QED
    BY <2>1 DEF OneWriter
<1>10. ASSUME NEW p \in Processes, Crash(p) PROVE ChainInv'
  <2>1. FileVerifies'
    BY <1>2, <1>3, <1>10 DEF Crash, Writers
  <2>2. ASSUME NEW w \in Writers PROVE Follows(w, memory[w[1]])'
    BY <1>9, <1>10 DEF Crash, Follows, InStage, NoCall, LogTypeOK
  <2> QED
    BY <2>1, <2>2 DEF ChainInv
<1>11. ASSUME NEW p \in Processes, Restart(p) PROVE ChainInv'
  <2>1. ASSUME NEW w \in Writers PROVE Follows(w, memory[w[1]])'
    <3>1. /\ w[1] = p /\ ~running[w[1]] /\ running'[w[1]] /\ memory'[w[1]] = file
          /\ UNCHANGED <<file, terminated, call>>
      BY <1>9, <1>11 DEF Restart, Loads, LogTypeOK
    <3>2. InStage(w, "idle")
      BY <3>1 DEF ChainInv, Follows
    <3> QED
      BY <3>1, <3>2 DEF Follows, InStage
  <2> QED
    BY <1>2, <1>11, <2>1 DEF ChainInv, Restart
<1>12. CASE UNCHANGED logVars
  BY <1>2, <1>12 DEF logVars, ChainInv, Follows, InStage, Readable
<1> QED
  BY <1>4, <1>5, <1>6, <1>7, <1>8, <1>10, <1>11, <1>12 DEF LogNext

(* One process with one thread: a file that can be read is a chain, however many *)
(* writes fail and crashes leave part of a line.  The run jsonl_threads shows that *)
(* the hypothesis is needed.                                                     *)
THEOREM OneWriterVerifies == ASSUME OneWriter PROVE LogSpec => []FileVerifies
<1>1. LogInit => ChainInv
  BY DEF LogInit, ChainInv, FileVerifies, Verifies, Follows, InStage, NoCall, Writers
<1>2. LogInv /\ ChainInv /\ [LogNext]_logVars => ChainInv'
  BY ChainStep DEF LogInv
<1>3. ChainInv => FileVerifies
  BY DEF ChainInv
<1> QED
  BY <1>1, <1>2, <1>3, LogInvariance, PTL DEF LogSpec

-----------------------------------------------------------------------------
(* The elements of a set of positions in their order, as Written lists them.     *)
Rank(S, i) == Cardinality({j \in S : j <= i})
Listed(lines, S) ==
    [n \in 1..Cardinality(S) |-> lines[CHOOSE i \in S : Rank(S, i) = n].event]
Ranked(S) == IsFiniteSet(S) /\ \A n \in 1..Cardinality(S) : \E i \in S : Rank(S, i) = n

ComesAfter(m, S) == S \in SUBSET Nat /\ m \in Nat /\ \A i \in S : i < m

(* A position after all others comes last and moves none of them.                *)
LEMMA RanksStay ==
    ASSUME NEW S, Ranked(S), NEW m, ComesAfter(m, S)
    PROVE  /\ Ranked(S \cup {m})
           /\ Cardinality(S \cup {m}) = Cardinality(S) + 1 /\ Cardinality(S) \in Nat
           /\ \A i \in S : Rank(S \cup {m}, i) = Rank(S, i) /\ Rank(S, i) <= Cardinality(S)
           /\ Rank(S \cup {m}, m) = Cardinality(S) + 1
<1> DEFINE T == S \cup {m}
<1>1. S \in SUBSET Nat /\ m \in Nat /\ \A i \in S : i < m
  BY DEF ComesAfter
<1>2. IsFiniteSet(S) /\ m \notin S
  BY <1>1 DEF Ranked
<1>3. IsFiniteSet(T) /\ Cardinality(T) = Cardinality(S) + 1 /\ Cardinality(S) \in Nat
  BY <1>2, FS_AddElement, FS_CardinalityType
<1>4. ASSUME NEW i \in S PROVE Rank(T, i) = Rank(S, i) /\ Rank(S, i) <= Cardinality(S)
  <2>1. {j \in T : j <= i} = {j \in S : j <= i}
    BY <1>1
  <2>2. {j \in S : j <= i} \subseteq S
    OBVIOUS
  <2>3. Cardinality({j \in S : j <= i}) <= Cardinality(S)
    BY <1>2, <2>2, FS_Subset
  <2> QED
    BY <2>1, <2>3 DEF Rank
<1>5. Rank(T, m) = Cardinality(S) + 1
  <2>1. \A j \in T : j <= m
    BY <1>1
  <2>2. {j \in T : j <= m} = T
    BY <2>1, Zenon
  <2> QED
    BY <1>3, <2>2 DEF Rank
<1>6. Ranked(T)
  <2> SUFFICES ASSUME NEW n \in 1..Cardinality(T) PROVE \E i \in T : Rank(T, i) = n
    BY <1>3 DEF Ranked
  <2>1. CASE n \in 1..Cardinality(S)
    <3>1. PICK i \in S : Rank(S, i) = n
      BY <2>1 DEF Ranked
    <3>2. i \in T /\ Rank(T, i) = n
      BY <1>4, <3>1
    <3> QED
      BY <3>2
  <2>2. CASE n = Cardinality(S) + 1
    BY <1>5, <2>2
  <2>3. n \in 1..Cardinality(S) \/ n = Cardinality(S) + 1
    BY <1>3
  <2> QED
    BY <2>1, <2>2, <2>3
<1> QED
  BY <1>3, <1>4, <1>5, <1>6

Extends(more, lines, S) == \A i \in S : more[i] = lines[i] /\ lines[i].event \in Events

(* Its event is added at the end of the list.                                    *)
LEMMA ListAppends ==
    ASSUME NEW S, Ranked(S), NEW m, ComesAfter(m, S),
           NEW lines, NEW more, Extends(more, lines, S), more[m].event \in Events
    PROVE  Listed(more, S \cup {m}) = Append(Listed(lines, S), more[m].event)
<1> DEFINE T == S \cup {m}
           n == Cardinality(S)
           old == Listed(lines, S)
           longer == Listed(more, T)
           e == more[m].event
<1>1. /\ S \in SUBSET Nat /\ m \in Nat /\ \A i \in S : i < m
      /\ \A i \in S : more[i] = lines[i] /\ lines[i].event \in Events
  BY DEF ComesAfter, Extends
<1>2. /\ Cardinality(T) = n + 1 /\ n \in Nat
      /\ \A i \in S : Rank(T, i) = Rank(S, i) /\ Rank(S, i) <= n
      /\ Rank(T, m) = n + 1
  BY <1>1, RanksStay
<1>3. /\ old = [k \in 1..n |-> old[k]] /\ DOMAIN old = 1..n
      /\ longer = [k \in 1..(n + 1) |-> longer[k]] /\ DOMAIN longer = 1..(n + 1)
  BY <1>2 DEF Listed
<1>4. ASSUME NEW k \in 1..n PROVE longer[k] = old[k] /\ old[k] \in Events
  <2>1. k # n + 1 /\ k \in 1..(n + 1)
    BY <1>2
  <2>2. PICK i \in S : i = CHOOSE j \in S : Rank(S, j) = k
    BY DEF Ranked
  <2>3. \A j : (j \in S /\ Rank(S, j) = k) <=> (j \in T /\ Rank(T, j) = k)
    BY <1>2, <2>1
  <2>4. (CHOOSE j \in T : Rank(T, j) = k) = i
    BY <2>2, <2>3, Zenon
  <2>5. longer[k] = more[i].event
    BY <1>2, <2>1, <2>4 DEF Listed
  <2>6. old[k] = lines[i].event
    BY <2>2 DEF Listed
  <2> QED
    BY <1>1, <2>2, <2>5, <2>6
<1>5. longer[n + 1] = e /\ e \in Events
  <2>1. \A j \in T : Rank(T, j) = n + 1 => j = m
    BY <1>2
  <2>2. m \in T /\ Rank(T, m) = n + 1
    BY <1>2
  <2>3. (CHOOSE j \in T : Rank(T, j) = n + 1) = m
    BY <2>1, <2>2
  <2>4. Cardinality(T) = n + 1 /\ n + 1 \in 1..(n + 1)
    BY <1>2
  <2> QED
    BY <2>3, <2>4 DEF Listed
<1>6. /\ n \in Nat /\ old = [k \in 1..n |-> old[k]] /\ \A k \in 1..n : old[k] \in Events
  BY <1>2, <1>3, <1>4
<1> HIDE DEF old, longer, e, n, T
<1>7. old \in Seq(Events) /\ Len(old) = n
  BY <1>6
<1>8. /\ Append(old, e) \in Seq(Events) /\ Len(Append(old, e)) = n + 1
      /\ \A k \in 1..n : Append(old, e)[k] = old[k]
      /\ Append(old, e)[n + 1] = e
  BY <1>5, <1>7, AppendProperties
<1>9. Append(old, e) = [k \in 1..(n + 1) |-> Append(old, e)[k]]
  <2>1. Append(old, e) \in [1..(n + 1) -> Events]
    BY <1>8, LenProperties
  <2> QED
    BY <2>1
<1>10. ASSUME NEW k \in 1..(n + 1) PROVE Append(old, e)[k] = longer[k]
  <2>1. k \in 1..n \/ k = n + 1
    BY <1>2
  <2> QED
    BY <1>4, <1>5, <1>8, <2>1
<1>11. longer = Append(old, e)
  BY <1>3, <1>9, <1>10
<1> QED
  BY <1>11 DEF old, longer, e, T

-----------------------------------------------------------------------------
(* The positions of whole lines are positions of the file, ranked.               *)
LEMMA WholeLines ==
    ASSUME LogTypeOK
    PROVE  /\ Whole \in SUBSET Nat /\ \A i \in Whole : i < Len(file) + 1
           /\ \A i \in Whole : i \in DOMAIN file /\ file[i].event \in Events
           /\ Written = Listed(file, Whole) /\ Len(file) \in Nat
  BY DEF LogTypeOK, Whole, Written, Listed, Position, Rank, Record

(* What is not a line written to its end changes nothing of the abstract log.    *)
LEMMA NothingWhole ==
    ASSUME LogTypeOK, PartOfALine, NEW line \in Line,
           \/ UNCHANGED <<file, terminated>>
           \/ file' = Append(file, line) /\ terminated /\ ~terminated'
           \/ file' = Glued /\ ~terminated
    PROVE  Whole' = Whole /\ \A i \in Whole : file'[i] = file[i]
<1> DEFINE n == Len(file)
<1>1. file \in Seq(Line) /\ n \in Nat /\ DOMAIN file = 1..n
  BY DEF LogTypeOK
<1>2. CASE UNCHANGED <<file, terminated>>
  BY <1>2 DEF Whole
<1>3. CASE file' = Append(file, line) /\ terminated /\ ~terminated'
  <2>1. /\ file' \in Seq(Line) /\ Len(file') = n + 1
        /\ \A i \in 1..n : file'[i] = file[i]
    <3> HIDE DEF n
    <3>1. /\ Append(file, line) \in Seq(Line) /\ Len(Append(file, line)) = Len(file) + 1
          /\ \A i \in 1..Len(file) : Append(file, line)[i] = file[i]
      BY <1>1, AppendProperties
    <3> QED
      BY <1>3, <3>1 DEF n
  <2>2. Whole' = {i \in 1..(n + 1) : file'[i] \in Record /\ i # n + 1}
    BY <1>3, <2>1 DEF Whole
  <2>3. Whole = {i \in 1..n : file[i] \in Record}
    BY <1>1, <1>3 DEF Whole
  <2>4. \A i : i \in 1..n <=> i \in 1..(n + 1) /\ i # n + 1
    BY <1>1
  <2> QED
    BY <2>1, <2>2, <2>3, <2>4
<1>4. CASE file' = Glued /\ ~terminated
  <2>1. n # 0 /\ file # <<>>
    BY <1>1, <1>4 DEF PartOfALine
  <2>2. /\ DOMAIN file' = 1..n /\ file'[n] = Garbage /\ Len(file') = n
        /\ \A i \in 1..n : i # n => file'[i] = file[i]
    <3>1. /\ Glued \in Seq(Line) /\ Len(Glued) = Len(file) /\ Glued[Len(file)] = Garbage
          /\ \A i \in 1..Len(file) - 1 : Glued[i] = file[i]
      BY <2>1, GluedIsLines
    <3>2. \A i \in 1..n : i # n => i \in 1..n - 1
      <4> HIDE DEF n
      <4> QED
        BY <1>1
    <3>3. DOMAIN Glued = 1..n
      BY <1>1, <3>1
    <3> QED
      BY <1>4, <3>1, <3>2, <3>3
  <2>3. Whole' = {i \in 1..n : file'[i] \in Record /\ i # n}
    BY <2>2, LinesAssumption DEF Whole
  <2>4. Whole = {i \in 1..n : file[i] \in Record /\ i # n}
    BY <1>1, <1>4 DEF Whole
  <2> QED
    BY <2>2, <2>3, <2>4
<1> QED
  BY <1>2, <1>3, <1>4

(* A line after a line that ends is the last of the whole lines.                 *)
LEMMA OneMoreWhole ==
    ASSUME LogTypeOK, NEW line \in Record, terminated, terminated', file' = Append(file, line)
    PROVE  /\ Whole' = Whole \cup {Len(file) + 1}
           /\ \A i \in Whole : file'[i] = file[i]
           /\ file'[Len(file) + 1] = line
<1> DEFINE n == Len(file)
<1>1. file \in Seq(Line) /\ n \in Nat /\ DOMAIN file = 1..n /\ line \in Line
  BY DEF LogTypeOK, Line
<1>2. /\ DOMAIN file' = 1..(n + 1) /\ file'[n + 1] = line
      /\ \A i \in 1..n : file'[i] = file[i]
  BY <1>1, AppendProperties
<1>3. Whole' = {i \in 1..(n + 1) : file'[i] \in Record}
  BY <1>2 DEF Whole
<1>4. Whole = {i \in 1..n : file[i] \in Record}
  BY <1>1 DEF Whole
<1>5. \A i : i \in 1..(n + 1) <=> i \in 1..n \/ i = n + 1
  BY <1>1
<1> QED
  BY <1>2, <1>3, <1>4, <1>5

(* A step writes a whole line, or leaves the abstract log as it is.              *)
LEMMA WriteRecords ==
    ASSUME LogInv, Ranked(Whole),
           NEW w \in Writers, WriteLine(w), terminated
    PROVE  Ranked(Whole)' /\ OneLog!Next
<1> DEFINE e == call[w].event
           m == Len(file) + 1
<1>1. /\ call[w].line \in Record /\ call[w].line.event = e /\ e \in Events
      /\ terminated' /\ file' = Append(file, call[w].line)
      /\ \A i \in DOMAIN file : file[i] \in Record => file[i].event # e
  BY RecordCallFields DEF LogInv, EventsDiffer, WriteLine, FileWith, InStage
<1>2. /\ Whole' = Whole \cup {m} /\ \A i \in Whole : file'[i] = file[i]
      /\ file'[m] = call[w].line
  BY <1>1, OneMoreWhole DEF LogInv
<1>3. /\ Whole \in SUBSET Nat /\ \A i \in Whole : i < m
      /\ \A i \in Whole : file[i].event \in Events
      /\ Written = Listed(file, Whole) /\ m \in Nat
      /\ ComesAfter(m, Whole)
  BY WholeLines DEF LogInv, ComesAfter
<1>4. Ranked(Whole)'
  <2>1. Ranked(Whole \cup {m})
    BY <1>3, RanksStay
  <2> QED
    BY <1>2, <2>1 DEF Ranked, Rank
<1>5. Written' = Listed(file', Whole')
  BY DEF Written, Listed, Position, Rank
<1>6. Written' = Append(Written, e)
  <2>1. /\ \A i \in Whole : file'[i] = file[i] /\ file[i].event \in Events
        /\ file'[m].event = e /\ e \in Events
    BY <1>1, <1>2, <1>3
  <2>2. Listed(file', Whole \cup {m}) = Append(Listed(file, Whole), file'[m].event)
    <3> DEFINE more == file'
    <3>1. Extends(more, file, Whole)
      BY <2>1 DEF Extends
    <3>2. more[m].event \in Events
      BY <2>1
    <3> HIDE DEF m, e, more
    <3>3. Listed(more, Whole \cup {m}) = Append(Listed(file, Whole), more[m].event)
      BY <1>3, <3>1, <3>2, ListAppends
    <3> QED
      BY <3>3 DEF more
  <2> QED
    BY <1>2, <1>3, <1>5, <2>1, <2>2
<1>7. ASSUME NEW n \in DOMAIN Written PROVE Written[n] # e
  <2>1. PICK i \in Whole : i = CHOOSE j \in Whole : Position(j) = n
    BY DEF Written, Ranked, Position, Rank
  <2>2. Written[n] = file[i].event
    BY <2>1 DEF Written
  <2> QED
    BY <1>1, <2>2 DEF Whole
<1>8. e \notin UNION {OneLog!Range([t \in Deployment |-> Written][u]) : u \in Deployment}
  BY <1>7 DEF OneLog!Range
<1>9. [t \in Deployment |-> Written]'
          = [[t \in Deployment |-> Written] EXCEPT !["deployment"] = Append(@, e)]
  BY <1>6 DEF Deployment
<1>10. OneLog!Record("deployment", e)
  BY <1>8, <1>9 DEF OneLog!Record, OneLog!Recorded
<1> QED
  BY <1>1, <1>4, <1>10 DEF OneLog!Next, Deployment

LEMMA LogStep ==
    ASSUME LogInv, Ranked(Whole), [LogNext]_logVars
    PROVE  Ranked(Whole)' /\ [OneLog!Next]_([t \in Deployment |-> Written])
<1>1. LogTypeOK /\ PartOfALine
  BY DEF LogInv
<1>2. ASSUME NEW line \in Line,
             \/ UNCHANGED <<file, terminated>>
             \/ file' = Append(file, line) /\ terminated /\ ~terminated'
             \/ file' = Glued /\ ~terminated
      PROVE  Ranked(Whole)' /\ UNCHANGED Written
  <2>1. Whole' = Whole /\ \A i \in Whole : file'[i] = file[i]
    BY <1>1, <1>2, NothingWhole
  <2>2. Ranked(Whole)'
    BY <2>1 DEF Ranked, Rank
  <2>3. ASSUME NEW n \in 1..Cardinality(Whole)
        PROVE  file'[CHOOSE i \in Whole : Rank(Whole, i) = n]
                 = file[CHOOSE i \in Whole : Rank(Whole, i) = n]
    BY <2>1 DEF Ranked
  <2>4. Written' = Listed(file', Whole') /\ Written = Listed(file, Whole)
    BY DEF Written, Listed, Position, Rank
  <2> QED
    BY <2>1, <2>2, <2>3, <2>4 DEF Listed
<1>3. ASSUME UNCHANGED <<file, terminated>> PROVE Ranked(Whole)' /\ UNCHANGED Written
  <2>1. Garbage \in Line
    BY DEF Line
  <2> QED
    BY <1>2, <1>3, <2>1
<1>4. ASSUME NEW w \in Writers, InStage(w, "built"), Interrupted(w)
      PROVE  Ranked(Whole)' /\ UNCHANGED Written
  <2>1. call[w].line \in Line /\ Garbage \in Line
    BY <1>1, <1>4, RecordCallFields DEF InStage, Line
  <2> QED
    BY <1>1, <1>2, <1>4, <2>1, InterruptedFile
<1>5. ASSUME NEW w \in Writers, WriteLine(w), ~terminated
      PROVE  Ranked(Whole)' /\ UNCHANGED Written
  <2>1. file' = Glued /\ Garbage \in Line
    BY <1>5 DEF WriteLine, FileWith, Line
  <2> QED
    BY <1>2, <1>5, <2>1
<1>6. ASSUME NEW w \in Writers, WriteFails(w) PROVE Ranked(Whole)' /\ UNCHANGED Written
  BY <1>4, <1>6 DEF WriteFails
<1>7. ASSUME NEW p \in Processes, Crash(p) PROVE Ranked(Whole)' /\ UNCHANGED Written
  BY <1>3, <1>4, <1>7 DEF Crash, Writers
<1>8. ASSUME \/ \E w \in Writers : \/ \E e \in Events : BeginRecord(w, e)
                                   \/ BuildEvent(w) \/ AppendEvent(w)
             \/ \E p \in Processes : Restart(p)
             \/ UNCHANGED logVars
      PROVE  Ranked(Whole)' /\ UNCHANGED Written
  BY <1>3, <1>8 DEF BeginRecord, BuildEvent, AppendEvent, Restart, logVars
<1>9. UNCHANGED Written => UNCHANGED [t \in Deployment |-> Written]
  OBVIOUS
<1> QED
  BY <1>5, <1>6, <1>7, <1>8, <1>9, WriteRecords DEF LogNext

(* Whatever any number of processes and threads do, and wherever they crash, the *)
(* lines written to their end are an abstract log: they stay, and grow at the    *)
(* end.                                                                          *)
THEOREM LogIsImplemented == LogSpec => ImplementsOneLog
<1>1. LogInit => OneLog!Init /\ Ranked(Whole)
  <2> SUFFICES ASSUME LogInit PROVE Written = <<>> /\ Ranked(Whole)
    BY DEF OneLog!Init
  <2>1. Whole = {}
    BY DEF LogInit, Whole
  <2>2. IsFiniteSet(Whole) /\ Cardinality(Whole) = 0
    BY <2>1, FS_EmptySet
  <2> QED
    BY <2>2 DEF Written, Ranked
<1>2. LogInv /\ Ranked(Whole) /\ [LogNext]_logVars
        => Ranked(Whole)' /\ [OneLog!Next]_([t \in Deployment |-> Written])
  BY LogStep
<1> QED
  BY <1>1, <1>2, LogInvariance, PTL DEF LogSpec, ImplementsOneLog, OneLog!Spec
=============================================================================
