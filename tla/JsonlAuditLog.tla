---------------------------- MODULE JsonlAuditLog ----------------------------
(***************************************************************************)
(* JsonlAuditLogger: one file of one event per line, and in every process  *)
(* that opened it a list of the events it knows.  record reads the list,   *)
(* appends a line to the file and then the event to the list; no lock is   *)
(* taken, so the calls of several threads, and the writes of several       *)
(* processes, interleave.  A write that fails or a crash may leave part of *)
(* a line, and the next line is glued to it.                               *)
(***************************************************************************)
EXTENDS AuditEvents, Integers, Sequences, FiniteSets

CONSTANTS
    Processes,      \* the API and the vector worker share the default path
    Threads,        \* request threads of each process
    Garbage         \* a line no event can be parsed from

VARIABLES
    file,           \* the lines on disk
    terminated,     \* the last line ends in a newline
    memory,         \* _events of each process that runs
    running,
    call,           \* the record call of each thread
    returned        \* events whose record call has returned

logVars == <<file, terminated, memory, running, call, returned>>

Writers == Processes \X Threads

Record == [event: Events, seq: Nat \ {0}, prev: Events \cup {Genesis}]
Line == Record \cup {Garbage}

ASSUME LinesAssumption == Garbage \notin Record

NoCall == [pc |-> "idle"]
Call ==
    [pc: {"linked"}, event: Events, prev: Events \cup {Genesis}]
        \cup [pc: {"built", "written"}, event: Events, line: Record]

LogTypeOK ==
    /\ file \in Seq(Line)
    /\ terminated \in BOOLEAN
    /\ memory \in [Processes -> Seq(Record)]
    /\ running \in [Processes -> BOOLEAN]
    /\ call \in [Writers -> {NoCall} \cup Call]
    /\ returned \in SUBSET Events

LogInit ==
    /\ file = <<>>
    /\ terminated = TRUE
    /\ memory = [p \in Processes |-> <<>>]
    /\ running = [p \in Processes |-> TRUE]
    /\ call = [w \in Writers |-> NoCall]
    /\ returned = {}

-----------------------------------------------------------------------------
InStage(w, pc) == call[w].pc = pc

EventUsed(e) ==
    \/ \E i \in DOMAIN file : file[i] \in Record /\ file[i].event = e
    \/ \E w \in Writers : ~InStage(w, "idle") /\ call[w].event = e
    \/ \E p \in Processes : \E i \in DOMAIN memory[p] : memory[p][i].event = e
    \/ e \in returned

LastEvent(log) == IF log = <<>> THEN Genesis ELSE log[Len(log)].event

\* previous_hash is read first ...
BeginRecord(w, e) ==
    /\ running[w[1]] /\ InStage(w, "idle")
    /\ ~EventUsed(e)
    /\ call' = [call EXCEPT ![w] =
            [pc |-> "linked", event |-> e, prev |-> LastEvent(memory[w[1]])]]
    /\ UNCHANGED <<file, terminated, memory, running, returned>>

\* ... and the length of the list when the event is built.
NextNumber(w) == Len(memory[w[1]]) + 1

BuildEvent(w) ==
    /\ InStage(w, "linked")
    /\ LET line == [event |-> call[w].event,
                    seq |-> NextNumber(w),
                    prev |-> call[w].prev]
       IN  call' = [call EXCEPT ![w] = [pc |-> "built", event |-> line.event, line |-> line]]
    /\ UNCHANGED <<file, terminated, memory, running, returned>>

\* A line written after an unterminated one is glued to it.
Glued == [file EXCEPT ![Len(file)] = Garbage]

\* FileTruncated opens the file for writing instead of appending.
FileTruncated(w, line) == <<line>>
FileWith(w, line) == IF terminated THEN Append(file, line) ELSE Glued

WriteLine(w) ==
    /\ InStage(w, "built")
    /\ file' = FileWith(w, call[w].line)
    /\ terminated' = TRUE
    /\ call' = [call EXCEPT ![w].pc = "written"]
    /\ UNCHANGED <<memory, running, returned>>

AppendEvent(w) ==
    /\ InStage(w, "written")
    /\ memory' = [memory EXCEPT ![w[1]] = Append(@, call[w].line)]
    /\ returned' = returned \cup {call[w].event}
    /\ call' = [call EXCEPT ![w] = NoCall]
    /\ UNCHANGED <<file, terminated, running>>

\* An interrupted write leaves nothing, part of the line, or all but the newline.
Interrupted(w) ==
    \/ UNCHANGED <<file, terminated>>
    \/ /\ file' \in IF terminated THEN {Append(file, Garbage), Append(file, call[w].line)}
                                   ELSE {Glued}
       /\ terminated' = FALSE

\* The write raises and record with it: the event is not in the list.
RememberedFirst(w) == [memory EXCEPT ![w[1]] = Append(@, call[w].line)]
MemoryAfterFailure(w) == memory

WriteFails(w) ==
    /\ InStage(w, "built")
    /\ Interrupted(w)
    /\ memory' = MemoryAfterFailure(w)
    /\ call' = [call EXCEPT ![w] = NoCall]
    /\ UNCHANGED <<running, returned>>

Crash(p) ==
    /\ running[p]
    /\ running' = [running EXCEPT ![p] = FALSE]
    /\ memory' = [memory EXCEPT ![p] = <<>>]
    /\ \/ \E th \in Threads : InStage(<<p, th>>, "built") /\ Interrupted(<<p, th>>)
       \/ UNCHANGED <<file, terminated>>
    /\ call' = [w \in Writers |-> IF w[1] = p THEN NoCall ELSE call[w]]
    /\ UNCHANGED returned

\* verify_audit_chain
Verifies(log) ==
    \A i \in DOMAIN log :
        /\ log[i].seq = i
        /\ log[i].prev = IF i = 1 THEN Genesis ELSE log[i - 1].event

Readable == \A i \in DOMAIN file : file[i] \in Record
IsRecord(line) == line \in Record

\* load: every line is parsed and the chain verified, or the process does not start.
LoadsInPart(p) ==
    LET readable == SelectSeq(file, IsRecord)
    IN  Verifies(readable) /\ memory' = [memory EXCEPT ![p] = readable]
Loads(p) ==
    /\ Readable /\ Verifies(file)
    /\ memory' = [memory EXCEPT ![p] = file]

Restart(p) ==
    /\ ~running[p]
    /\ Loads(p)
    /\ running' = [running EXCEPT ![p] = TRUE]
    /\ UNCHANGED <<file, terminated, call, returned>>

LogNext ==
    \/ \E w \in Writers :
        \/ \E e \in Events : BeginRecord(w, e)
        \/ BuildEvent(w) \/ WriteLine(w) \/ AppendEvent(w)
        \/ WriteFails(w)
    \/ \E p \in Processes : Crash(p) \/ Restart(p)

LogSpec == LogInit /\ [][LogNext]_logVars
-----------------------------------------------------------------------------
(* One process with one thread: a file all of whose lines can be read is a chain *)
(* that verifies, whatever writes failed and wherever the process crashed.       *)
FileVerifies == Readable => Verifies(file)

(* A process that starts has every event of which a caller was told that it is   *)
(* recorded: a log that lost one is never accepted.                              *)
RestartKeepsReturned ==
    [][\A p \in Processes :
        ~running[p] /\ running'[p] =>
            \A e \in returned : \E i \in DOMAIN memory'[p] : memory'[p][i].event = e]_logVars

(* The file implements the abstract log, of one chain for all tenants: a line    *)
(* that was written to its end stays, and nothing is ever inserted before it.    *)
Deployment == {"deployment"}
Whole == {i \in DOMAIN file : file[i] \in Record /\ (i = Len(file) => terminated)}
Position(i) == Cardinality({j \in Whole : j <= i})
Written ==
    [n \in 1..Cardinality(Whole) |-> file[CHOOSE i \in Whole : Position(i) = n].event]
OneLog == INSTANCE AuditLog WITH
    Tenants <- Deployment,
    chains <- [t \in Deployment |-> Written]
ImplementsOneLog == OneLog!Spec
=============================================================================
