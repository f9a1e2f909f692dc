------------------------- MODULE AuthzDirectoryProofs -------------------------
(***************************************************************************)
(* What holds of the directory for any number of threads, rows and events. *)
(* An event is appended before the row refers to it and is never changed,  *)
(* so a row and its event agree.  That the last event about a row tells    *)
(* the row needs more: as long as the events about it neither overlapped   *)
(* nor were left without their upsert, at most one upsert is under way,    *)
(* and it is that of the last event.                                       *)
(*                                                                         *)
(* The five queries of a request are told apart by the tables they read.   *)
(* One upsert changes one row, which one query reads at most, so that all  *)
(* the others find the same before and after it.                           *)
(***************************************************************************)
EXTENDS AuthzDirectory, TLAPS

EventsAreKnown == \A c \in Callers : At(c, "upsert") => call[c].ref \in 1..Len(log)

OneUpsertAtATime ==
    \A k \in Keys \ muddled : \A c, d \in Upserting(k) : c = d

LastEventIsUpserted ==
    \A k \in Keys \ muddled : \A d \in Upserting(k) : \A i \in 1..Len(log) :
        log[i].key = k => i <= call[d].ref

LogInv == RowsTellTheirEvent /\ OneUpsertAtATime /\ LastEventIsUpserted /\ LogTellsTheTables

IInv == TypeOK /\ EventsAreKnown /\ LogInv

-----------------------------------------------------------------------------
Calls == Requests \cup {Idle, Unauthorized}
ObjectsOf(entries) == {e.object : e \in entries}

LEMMA OpenCallsAreRequests ==
    ASSUME TypeOK, NEW c \in Callers, IsOpen(c)
    PROVE  call[c] \in Requests
BY DEF TypeOK, IsOpen, Idle, Unauthorized, Requests

LEMMA EventsAreTyped ==
    ASSUME TypeOK, NEW i \in 1..Len(log)
    PROVE  log[i].key \in Keys /\ log[i].value \in Values(log[i].key)
<1>1. log[i] \in Events
  BY DEF TypeOK
<1>2. PICK k \in Keys : log[i] \in [key: {k}, value: Values(k)]
  BY <1>1 DEF Events
<1>3. QED
  BY <1>2

LEMMA PrincipalKeys ==
    /\ \A s \in Subjects : <<"principal", s>> \in Keys
    /\ \A k \in Keys : k[1] = "principal" => k[2] \in Subjects /\ k = <<"principal", k[2]>>
<1>1. ASSUME NEW s \in Subjects PROVE <<"principal", s>> \in Keys
  <2>1. <<"principal", s>> \in {"principal", "membership"} \X Subjects
    OBVIOUS
  <2>2. QED
    BY <2>1 DEF Keys
<1>2. ASSUME NEW k \in Keys, k[1] = "principal"
      PROVE  k[2] \in Subjects /\ k = <<"principal", k[2]>>
  <2>1. CASE k \in {"principal", "membership"} \X Subjects
    BY <2>1, <1>2
  <2>2. CASE k \in ({"role"} \X Roles) \cup ({"group"} \X Groups)
    BY <2>2, <1>2
  <2>3. CASE k \in ({"role assignment"} \X Subjects \X Roles)
                      \cup ({"group membership"} \X Subjects \X Groups)
    BY <2>3, <1>2
  <2>4. CASE k \in ({"acl"} \X Entries) \cup ({"abac"} \X Policies)
    BY <2>4, <1>2
  <2>5. QED
    BY <2>1, <2>2, <2>3, <2>4 DEF Keys
<1>3. QED
  BY <1>1, <1>2

LEMMA PrincipalsHaveUsers ==
    ASSUME TypeOK, NEW s \in Subjects, Active(<<"principal", s>>)
    PROVE  row[<<"principal", s>>].value.user \in Users
<1> DEFINE k == <<"principal", s>>
<1>1. k \in Keys /\ k[1] = "principal"
  BY PrincipalKeys
<1>2. row[k] \in Rows(k)
  BY <1>1 DEF TypeOK, Active, Stored
<1>3. row[k].value \in Values(k)
  BY <1>2 DEF Rows
<1>4. QED
  BY <1>1, <1>3 DEF Values

LEMMA ViewsAreTyped ==
    ASSUME TypeOK, NEW s \in Subjects
    PROVE  View(s) \in Views
<1>1. CASE ~(Active(<<"principal", s>>) /\ Active(<<"membership", s>>))
  BY <1>1 DEF View, Views
<1>2. CASE Active(<<"principal", s>>) /\ Active(<<"membership", s>>)
  <2> DEFINE granting == {f \in Entries : /\ Active(<<"acl", f>>)
                                          /\ f.permission # "write"
                                          /\ Holds(s, f.type, f.id)}
             objects == {e.object : e \in granting}
             user == row[<<"principal", s>>].value.user
             roles == {r \in Roles : Holds(s, "role", r)}
             groups == {g \in Groups : Holds(s, "group", g)}
  <2>1. user \in Users
    BY <1>2, PrincipalsHaveUsers
  <2>2. objects \in SUBSET {e.object : e \in Entries}
    OBVIOUS
  <2>3. roles \in SUBSET Roles /\ groups \in SUBSET Groups
    OBVIOUS
  <2>4. View(s) = [user |-> user, roles |-> roles, groups |-> groups, objects |-> objects]
    BY <1>2 DEF View
  <2> HIDE DEF user, roles, groups, objects
  <2>5. QED
    BY <2>1, <2>2, <2>3, <2>4 DEF Views, Contexts
<1>3. QED
  BY <1>1, <1>2

LEMMA ChangedRequestsAreRequests ==
    ASSUME NEW q \in Requests
    PROVE  /\ \A pc \in Reading \cup {"resolved", "upsert"} : [q EXCEPT !.pc = pc] \in Requests
           /\ \A u \in Users : [q EXCEPT !.user = u] \in Requests
           /\ \A R \in SUBSET Roles : [q EXCEPT !.roles = R] \in Requests
           /\ \A G \in SUBSET Groups : [q EXCEPT !.groups = G] \in Requests
           /\ \A O \in SUBSET {e.object : e \in Entries} : [q EXCEPT !.objects = O] \in Requests
           /\ \A n \in 0..MaxEvents : [q EXCEPT !.ref = n] \in Requests
           /\ \A n \in 0..2 : [q EXCEPT !.changes = n] \in Requests
<1>1. \A pc \in Reading \cup {"resolved", "upsert"} : [q EXCEPT !.pc = pc] \in Requests
  BY DEF Requests
<1>2. \A u \in Users : [q EXCEPT !.user = u] \in Requests
  BY DEF Requests
<1>3. \A R \in SUBSET Roles : [q EXCEPT !.roles = R] \in Requests
  BY DEF Requests
<1>4. \A G \in SUBSET Groups : [q EXCEPT !.groups = G] \in Requests
  BY DEF Requests
<1>5. \A O \in SUBSET {e.object : e \in Entries} : [q EXCEPT !.objects = O] \in Requests
  BY DEF Requests
<1>6. \A n \in 0..MaxEvents : [q EXCEPT !.ref = n] \in Requests
  BY DEF Requests
<1>7. \A n \in 0..2 : [q EXCEPT !.changes = n] \in Requests
  BY DEF Requests
<1>8. QED
  BY <1>1, <1>2, <1>3, <1>4, <1>5, <1>6, <1>7

-----------------------------------------------------------------------------
LEMMA InitIsGood == Init => IInv
<1> SUFFICES ASSUME Init PROVE IInv
  OBVIOUS
<1>1. ASSUME NEW k \in Keys PROVE row[k] \in Rows(k) \cup {NoRow}
  <2>1. CASE k \in Seeded
    <3> DEFINE user == IF k[1] = "principal" THEN UserOf[k[2]] ELSE NoUser
    <3>1. user \in IF k[1] = "principal" THEN Users ELSE {NoUser}
      BY <2>1, PrincipalKeys, DirectoryAssumption
    <3>2. row[k] = [value |-> [status |-> "active", user |-> user], ref |-> 0]
      BY <2>1 DEF Init
    <3> HIDE DEF user
    <3>3. [status |-> "active", user |-> user] \in Values(k)
      BY <3>1 DEF Values, Statuses
    <3>4. 0 \in 0..MaxEvents
      BY DirectoryAssumption
    <3>5. QED
      BY <3>2, <3>3, <3>4 DEF Rows
  <2>2. CASE k \notin Seeded
    BY <2>2 DEF Init
  <2>3. QED
    BY <2>1, <2>2
<1>2. \A k \in Keys : Stored(k) => row[k].ref = 0
  BY DEF Init, Stored
<1>3. row \in [Keys -> (UNION {Rows(k) : k \in Keys}) \cup {NoRow}]
  <2>1. ASSUME NEW k \in Keys
        PROVE  row[k] \in (UNION {Rows(l) : l \in Keys}) \cup {NoRow}
    <3>1. CASE row[k] \in Rows(k)
      BY <3>1
    <3>2. QED
      BY <1>1, <3>1
  <2>2. \E f : row = [k \in Keys |-> f[k]]
    <3> DEFINE f == [k \in Keys |->
                IF k \in Seeded
                THEN [value |-> [status |-> "active",
                                 user |-> IF k[1] = "principal" THEN UserOf[k[2]] ELSE NoUser],
                      ref |-> 0]
                ELSE NoRow]
    <3>1. row = f
      BY DEF Init
    <3>2. f = [k \in Keys |-> f[k]]
      OBVIOUS
    <3>3. QED
      BY <3>1, <3>2
  <2>3. QED
    BY <2>1, <2>2
<1>4. log = <<>> /\ Len(log) = 0 /\ muddled = {}
  BY DEF Init
<1>5. \A c \in Callers : call[c] = Idle
  BY DEF Init
<1>6. TypeOK
  BY <1>1, <1>3, <1>4, <1>5, DirectoryAssumption DEF Init, TypeOK, Stored
<1>7. EventsAreKnown /\ \A k : Upserting(k) = {}
  BY <1>5 DEF EventsAreKnown, Upserting, At, Idle
<1>8. RowsTellTheirEvent
  BY <1>2 DEF RowsTellTheirEvent
<1>9. LogTellsTheTables /\ OneUpsertAtATime /\ LastEventIsUpserted
  BY <1>4, <1>7 DEF LogTellsTheTables, OneUpsertAtATime, LastEventIsUpserted
<1>10. QED
  BY <1>6, <1>7, <1>8, <1>9 DEF IInv, LogInv

-----------------------------------------------------------------------------
\* Nothing is upserted: tables and log stay, and so do the calls that upsert.
LEMMA QuietSteps ==
    ASSUME IInv, UNCHANGED <<row, log, muddled>>,
           call' \in [Callers -> Calls],
           \A d \in Callers : At(d, "upsert")' <=> At(d, "upsert"),
           \A d \in Callers : At(d, "upsert") => call'[d].ref = call[d].ref
    PROVE  IInv'
<1>1. TypeOK'
  BY DEF IInv, TypeOK, Calls, Stored
<1>2. EventsAreKnown'
  BY DEF IInv, EventsAreKnown
<1>3. \A k : Upserting(k)' = Upserting(k)
  BY DEF Upserting
<1>4. \A k, d : d \in Upserting(k) => d \in Callers /\ At(d, "upsert")
  BY DEF Upserting
<1>5. RowsTellTheirEvent'
  BY DEF IInv, LogInv, RowsTellTheirEvent, Stored
<1>6. OneUpsertAtATime'
  BY <1>3 DEF IInv, LogInv, OneUpsertAtATime
<1>7. LastEventIsUpserted'
  BY <1>3, <1>4 DEF IInv, LogInv, LastEventIsUpserted
<1>8. LogTellsTheTables'
  BY <1>3 DEF IInv, LogInv, LogTellsTheTables, Stored
<1>9. QED
  BY <1>1, <1>2, <1>5, <1>6, <1>7, <1>8 DEF IInv, LogInv

\* A call that neither upserts nor is about to.
LEMMA QuietCalls ==
    ASSUME IInv, NEW c \in Callers, NEW q \in Calls, q.pc # "upsert", ~At(c, "upsert"),
           call' = [call EXCEPT ![c] = q], UNCHANGED <<row, log, muddled>>
    PROVE  IInv'
<1>1. call \in [Callers -> Calls]
  BY DEF IInv, TypeOK, Calls
<1>2. call' \in [Callers -> Calls]
  BY <1>1
<1>3. \A d \in Callers : /\ At(d, "upsert")' <=> At(d, "upsert")
                         /\ At(d, "upsert") => call'[d].ref = call[d].ref
  BY <1>1 DEF At
<1>4. QED
  BY <1>2, <1>3, QuietSteps

-----------------------------------------------------------------------------
LEMMA BeginPreserves ==
    ASSUME IInv, NEW c \in Callers, NEW s \in Subjects, Begin(c, s)
    PROVE  IInv'
<1> DEFINE q == [pc |-> "principal", subject |-> s, user |-> NoUser, roles |-> {},
                 groups |-> {}, objects |-> {}, ref |-> 0, before |-> View(s), changes |-> 0]
<1>1. View(s) \in Views
  BY ViewsAreTyped DEF IInv
<1>2. q \in Requests
  BY <1>1, DirectoryAssumption DEF Requests, Reading
<1>3. call' = [call EXCEPT ![c] = q] /\ UNCHANGED <<row, log, muddled>> /\ ~At(c, "upsert")
  BY DEF Begin, IsOpen, At
<1>4. q \in Calls /\ q.pc # "upsert"
  BY <1>2 DEF Calls
<1> HIDE DEF q
<1>5. QED
  BY <1>3, <1>4, QuietCalls

LEMMA RefusedPreserves ==
    ASSUME IInv, NEW c \in Callers, IsRefused(c), ~At(c, "upsert"),
           UNCHANGED <<row, log, muddled>>
    PROVE  IInv'
<1>1. Unauthorized \in Calls /\ Unauthorized.pc # "upsert"
  BY DEF Calls, Unauthorized
<1>2. QED
  BY <1>1, QuietCalls DEF IsRefused

LEMMA ReadPrincipalPreserves ==
    ASSUME IInv, NEW c \in Callers, ReadPrincipal(c)
    PROVE  IInv'
<1> DEFINE k == <<"principal", call[c].subject>>
           user == row[k].value.user
           q1 == [call[c] EXCEPT !.pc = "membership"]
           q2 == [q1 EXCEPT !.user = user]
<1>1. call[c] \in Requests /\ ~At(c, "upsert")
  BY OpenCallsAreRequests DEF IInv, ReadPrincipal, IsOpen, At
<1>2. CASE Active(k)
  <2>1. user \in Users
    BY <1>1, <1>2, PrincipalsHaveUsers DEF IInv, Requests
  <2>2. q1 \in Requests
    BY <1>1, ChangedRequestsAreRequests DEF Reading
  <2>3. q2 \in Requests
    BY <2>1, <2>2, ChangedRequestsAreRequests
  <2>4. q2.pc # "upsert"
    BY <1>1 DEF Requests
  <2>5. call' = [call EXCEPT ![c] = q2] /\ UNCHANGED <<row, log, muddled>>
    BY <1>2 DEF ReadPrincipal
  <2> HIDE DEF q2
  <2>6. QED
    BY <1>1, <2>3, <2>4, <2>5, QuietCalls DEF Calls
<1>3. CASE ~Active(k)
  BY <1>1, <1>3, RefusedPreserves DEF ReadPrincipal
<1>4. QED
  BY <1>2, <1>3

LEMMA ReadMembershipPreserves ==
    ASSUME IInv, NEW c \in Callers, ReadMembership(c)
    PROVE  IInv'
<1> DEFINE q == [call[c] EXCEPT !.pc = "roles"]
<1>1. call[c] \in Requests /\ ~At(c, "upsert")
  BY OpenCallsAreRequests DEF IInv, ReadMembership, IsOpen, At
<1>2. CASE Active(<<"membership", call[c].subject>>)
  <2>1. q \in Requests
    BY <1>1, ChangedRequestsAreRequests DEF Reading
  <2>2. q.pc # "upsert"
    BY <1>1 DEF Requests
  <2>3. call' = [call EXCEPT ![c] = q] /\ UNCHANGED <<row, log, muddled>>
    BY <1>2 DEF ReadMembership
  <2> HIDE DEF q
  <2>4. QED
    BY <1>1, <2>1, <2>2, <2>3, QuietCalls DEF Calls
<1>3. CASE ~Active(<<"membership", call[c].subject>>)
  BY <1>1, <1>3, RefusedPreserves DEF ReadMembership
<1>4. QED
  BY <1>2, <1>3

LEMMA ReadRolesPreserves ==
    ASSUME IInv, NEW c \in Callers, ReadRoles(c)
    PROVE  IInv'
<1> DEFINE found == {r \in Roles : /\ Active(<<"role assignment", call[c].subject, r>>)
                                   /\ Active(<<"role", r>>)}
           q1 == [call[c] EXCEPT !.pc = "groups"]
           q2 == [q1 EXCEPT !.roles = found]
<1>1. call[c] \in Requests /\ ~At(c, "upsert")
  BY OpenCallsAreRequests DEF IInv, ReadRoles, IsOpen, At
<1>2. call' = [call EXCEPT ![c] = q2] /\ UNCHANGED <<row, log, muddled>>
  BY DEF ReadRoles
<1>3. found \in SUBSET Roles
  OBVIOUS
<1> HIDE DEF found
<1>4. q1 \in Requests
  BY <1>1, ChangedRequestsAreRequests DEF Reading
<1>5. q2 \in Requests
  BY <1>3, <1>4, ChangedRequestsAreRequests
<1>6. q2.pc # "upsert"
  BY <1>1 DEF Requests
<1> HIDE DEF q2
<1>7. QED
  BY <1>1, <1>2, <1>5, <1>6, QuietCalls DEF Calls

LEMMA ReadGroupsPreserves ==
    ASSUME IInv, NEW c \in Callers, ReadGroups(c)
    PROVE  IInv'
<1> DEFINE found == {g \in Groups : /\ Active(<<"group membership", call[c].subject, g>>)
                                    /\ Active(<<"group", g>>)}
           q1 == [call[c] EXCEPT !.pc = "objects"]
           q2 == [q1 EXCEPT !.groups = found]
<1>1. call[c] \in Requests /\ ~At(c, "upsert")
  BY OpenCallsAreRequests DEF IInv, ReadGroups, IsOpen, At
<1>2. call' = [call EXCEPT ![c] = q2] /\ UNCHANGED <<row, log, muddled>>
  BY DEF ReadGroups
<1>3. found \in SUBSET Groups
  OBVIOUS
<1> HIDE DEF found
<1>4. q1 \in Requests
  BY <1>1, ChangedRequestsAreRequests DEF Reading
<1>5. q2 \in Requests
  BY <1>3, <1>4, ChangedRequestsAreRequests
<1>6. q2.pc # "upsert"
  BY <1>1 DEF Requests
<1> HIDE DEF q2
<1>7. QED
  BY <1>1, <1>2, <1>5, <1>6, QuietCalls DEF Calls

LEMMA ReadObjectsPreserves ==
    ASSUME IInv, NEW c \in Callers, ReadObjects(c)
    PROVE  IInv'
<1> DEFINE granting == {e \in Entries : /\ Active(<<"acl", e>>)
                                        /\ e.permission \in {"read", "admin"}
                                        /\ Applies(e, c)}
           found == {e.object : e \in granting}
           q1 == [call[c] EXCEPT !.pc = "resolved"]
           q2 == [q1 EXCEPT !.objects = found]
<1>1. call[c] \in Requests /\ ~At(c, "upsert")
  BY OpenCallsAreRequests DEF IInv, ReadObjects, IsOpen, At
<1>2. call' = [call EXCEPT ![c] = q2] /\ UNCHANGED <<row, log, muddled>>
  BY DEF ReadObjects
<1>3. found \in SUBSET {e.object : e \in Entries}
  OBVIOUS
<1> HIDE DEF found
<1>4. q1 \in Requests
  BY <1>1, ChangedRequestsAreRequests
<1>5. q2 \in Requests
  BY <1>3, <1>4, ChangedRequestsAreRequests
<1>6. q2.pc # "upsert"
  BY <1>1 DEF Requests
<1> HIDE DEF q2
<1>7. QED
  BY <1>1, <1>2, <1>5, <1>6, QuietCalls DEF Calls

LEMMA ServePreserves ==
    ASSUME IInv, NEW c \in Callers, Serve(c)
    PROVE  IInv'
<1>1. Idle \in Calls /\ Idle.pc # "upsert" /\ ~At(c, "upsert")
  BY DEF Calls, Idle, Serve, At
<1>2. QED
  BY <1>1, QuietCalls DEF Serve, Ends

-----------------------------------------------------------------------------
LEMMA RecordPreserves ==
    ASSUME IInv, NEW c \in Callers, NEW k \in Keys, NEW value \in Values(k),
           RecordEvent(c, k, value)
    PROVE  IInv'
<1> DEFINE event == [key |-> k, value |-> value]
           n == Len(log) + 1
           q1 == [call[c] EXCEPT !.pc = "upsert"]
           q2 == [q1 EXCEPT !.ref = n]
<1>1. call[c] \in Requests /\ ~At(c, "upsert")
  BY OpenCallsAreRequests DEF IInv, RecordEvent, IsOpen, At
<1>2. /\ log' = Append(log, event) /\ row' = row
      /\ call' = [call EXCEPT ![c] = q2]
      /\ muddled' = IF Upserting(k) = {} THEN muddled ELSE muddled \cup {k}
      /\ Len(log) < MaxEvents
  BY DEF RecordEvent
<1>3. event \in Events
  BY DEF Events
<1>4. log \in Seq(Events) /\ Len(log) \in Nat /\ n \in 1..MaxEvents
  BY <1>2, DirectoryAssumption DEF IInv, TypeOK
<1>5. /\ log' \in Seq(Events) /\ Len(log') = n
      /\ \A i \in 1..Len(log) : log'[i] = log[i]
      /\ log'[n] = event
  BY <1>2, <1>3, <1>4
<1>6. q2 \in Requests /\ q2.pc = "upsert" /\ q2.ref = n
  <2>1. q1 \in Requests
    BY <1>1, ChangedRequestsAreRequests
  <2>2. n \in 0..MaxEvents
    BY <1>4
  <2>3. q2 \in Requests
    BY <2>1, <2>2, ChangedRequestsAreRequests
  <2>4. QED
    BY <1>1, <2>3 DEF Requests
<1>7. /\ call \in [Callers -> Calls] /\ call' \in [Callers -> Calls]
      /\ call'[c] = q2 /\ \A d \in Callers \ {c} : call'[d] = call[d]
  <2>1. call \in [Callers -> Calls] /\ q2 \in Calls
    BY <1>6 DEF IInv, TypeOK, Calls
  <2> HIDE DEF q2
  <2>2. QED
    BY <1>2, <2>1
<1> HIDE DEF q2, q1, event
<1>8. TypeOK'
  BY <1>2, <1>4, <1>5, <1>7 DEF IInv, TypeOK, Calls, Stored
<1>9. EventsAreKnown'
  BY <1>4, <1>5, <1>6, <1>7 DEF IInv, EventsAreKnown, At
<1>10. \A j : Upserting(j)' = IF j = k THEN Upserting(j) \cup {c} ELSE Upserting(j)
  <2>1. event.key = k
    BY DEF event
  <2>2. QED
    BY <1>1, <1>5, <1>6, <1>7, <2>1 DEF IInv, EventsAreKnown, Upserting, At
<1>11. \A j \in Keys \ muddled' : j \in Keys \ muddled /\ (j = k => Upserting(k) = {})
  BY <1>2
<1>12. RowsTellTheirEvent'
  BY <1>2, <1>4, <1>5 DEF IInv, LogInv, RowsTellTheirEvent, TypeOK, Stored, Rows
<1>13. OneUpsertAtATime'
  BY <1>10, <1>11 DEF IInv, LogInv, OneUpsertAtATime
<1>14. LastEventIsUpserted'
  <2> SUFFICES ASSUME NEW j \in Keys \ muddled', NEW d \in Upserting(j)',
                      NEW i \in 1..n, log'[i].key = j
               PROVE  i <= call'[d].ref
    BY <1>5 DEF LastEventIsUpserted
  <2>1. CASE d = c
    BY <2>1, <1>4, <1>6, <1>7
  <2>2. CASE d # c
    <3>1. j # k /\ d \in Upserting(j) /\ d \in Callers
      <4>1. d \in Upserting(j)
        BY <2>2, <1>10
      <4>2. j # k
        BY <4>1, <1>11
      <4>3. QED
        BY <4>1, <4>2 DEF Upserting
    <3>2. i \in 1..Len(log) /\ log[i].key = j
      BY <3>1, <1>4, <1>5 DEF event
    <3>3. QED
      BY <3>1, <3>2, <2>2, <1>7, <1>11 DEF IInv, LogInv, LastEventIsUpserted
  <2>3. QED
    BY <2>1, <2>2
<1>15. LogTellsTheTables'
  <2> SUFFICES ASSUME NEW j \in Keys, NEW i \in 1..n, log'[i].key = j,
                      Upserting(j)' = {}, j \notin muddled'
               PROVE  Stored(j) /\ \A h \in 1..n : log'[h].key = j => h <= row[j].ref
    BY <1>2, <1>5 DEF LogTellsTheTables, Stored
  <2>1. j # k /\ Upserting(j) = {} /\ j \notin muddled
    BY <1>10, <1>11
  <2>2. \A h \in 1..n : log'[h].key = j => h \in 1..Len(log) /\ log[h].key = j
    BY <2>1, <1>4, <1>5 DEF event
  <2>3. QED
    BY <2>1, <2>2 DEF IInv, LogInv, LogTellsTheTables
<1>16. QED
  BY <1>8, <1>9, <1>12, <1>13, <1>14, <1>15 DEF IInv, LogInv

\* A call that no longer upserts leaves the others as they are.
LEMMA FinishedUpserts ==
    ASSUME IInv, NEW c \in Callers, At(c, "upsert"), log' = log, At(c, "idle")',
           \A d \in Callers \ {c} : /\ At(d, "upsert")' <=> At(d, "upsert")
                                    /\ At(d, "upsert") => call'[d].ref = call[d].ref
    PROVE  /\ EventsAreKnown'
           /\ \A k : Upserting(k)' = Upserting(k) \ {c}
<1>1. ~At(c, "upsert")'
  BY DEF At
<1>2. EventsAreKnown'
  BY <1>1 DEF IInv, EventsAreKnown
<1>3. \A k : Upserting(k)' = Upserting(k) \ {c}
  BY <1>1 DEF Upserting
<1>4. QED
  BY <1>2, <1>3

LEMMA UpsertPreserves ==
    ASSUME IInv, NEW c \in Callers, NEW table, Upsert(c, table)
    PROVE  IInv'
<1> DEFINE k == log[call[c].ref].key
           new == [value |-> log[call[c].ref].value, ref |-> call[c].ref]
<1>1. call[c] \in Requests /\ At(c, "upsert") /\ IsOpen(c)
  BY OpenCallsAreRequests DEF IInv, Upsert, IsOpen, At
<1>2. /\ row' = [row EXCEPT ![k] = new] /\ log' = log /\ muddled' = muddled
      /\ call' = [d \in Callers |->
           IF d = c THEN Idle
           ELSE IF IsOpen(d) THEN [call[d] EXCEPT !.changes = IF @ = 2 THEN 2 ELSE @ + 1]
           ELSE call[d]]
  BY DEF Upsert
<1>3. call[c].ref \in 1..Len(log) /\ call[c].ref \in 0..MaxEvents
  BY <1>1 DEF IInv, EventsAreKnown, Requests
<1>4. k \in Keys /\ new \in Rows(k) /\ new # NoRow
  BY <1>3, EventsAreTyped, DirectoryAssumption DEF IInv, Rows
<1>5. /\ row'[k] = new
      /\ \A j \in Keys \ {k} : row'[j] = row[j]
      /\ row' \in [Keys -> (UNION {Rows(j) : j \in Keys}) \cup {NoRow}]
  <2>1. new \in UNION {Rows(j) : j \in Keys}
    BY <1>4
  <2> HIDE DEF new
  <2>2. QED
    BY <1>2, <1>4, <2>1 DEF IInv, TypeOK
<1>6. ASSUME NEW d \in Callers \ {c}
      PROVE  /\ call'[d] \in Calls
             /\ At(d, "upsert")' <=> At(d, "upsert")
             /\ At(d, "upsert") => call'[d].ref = call[d].ref
  <2>1. CASE IsOpen(d)
    <3> DEFINE m == IF call[d].changes = 2 THEN 2 ELSE call[d].changes + 1
    <3>1. call[d] \in Requests /\ call[d].changes \in 0..2
      BY <2>1, OpenCallsAreRequests DEF IInv, Requests
    <3>2. m \in 0..2
      BY <3>1
    <3>3. call'[d] = [call[d] EXCEPT !.changes = m]
      BY <1>2, <2>1
    <3> HIDE DEF m
    <3>4. call'[d] \in Requests
      BY <3>1, <3>2, <3>3, ChangedRequestsAreRequests
    <3>5. call'[d].pc = call[d].pc /\ call'[d].ref = call[d].ref
      BY <3>1, <3>3 DEF Requests
    <3>6. QED
      BY <3>4, <3>5 DEF Calls, At
  <2>2. CASE ~IsOpen(d)
    BY <1>2, <2>2 DEF IInv, TypeOK, Calls, At
  <2>3. QED
    BY <2>1, <2>2
<1>7. call'[c] = Idle
  BY <1>2
<1>8. At(c, "idle")'
  BY <1>7 DEF At, Idle
<1>9. call' \in [Callers -> Calls]
  <2>1. \A d \in Callers : call'[d] \in Calls
    BY <1>6, <1>7 DEF Calls
  <2>2. \E f : call' = [d \in Callers |-> f[d]]
    <3> DEFINE f == [d \in Callers |->
           IF d = c THEN Idle
           ELSE IF IsOpen(d) THEN [call[d] EXCEPT !.changes = IF @ = 2 THEN 2 ELSE @ + 1]
           ELSE call[d]]
    <3>1. call' = f
      BY <1>2
    <3>2. f = [d \in Callers |-> f[d]]
      OBVIOUS
    <3>3. QED
      BY <3>1, <3>2
  <2>3. QED
    BY <2>1, <2>2
<1>10. EventsAreKnown' /\ \A j : Upserting(j)' = Upserting(j) \ {c}
  <2>1. \A d \in Callers \ {c} : /\ At(d, "upsert")' <=> At(d, "upsert")
                                 /\ At(d, "upsert") => call'[d].ref = call[d].ref
    BY <1>6
  <2>2. QED
    BY <1>1, <1>2, <1>8, <2>1, FinishedUpserts
<1>11. c \in Upserting(k) /\ \A j : j # k => c \notin Upserting(j)
  BY <1>1 DEF Upserting
<1> HIDE DEF new
<1>12. TypeOK'
  BY <1>2, <1>4, <1>5, <1>9 DEF IInv, TypeOK, Calls, Stored
<1>13. RowsTellTheirEvent'
  <2> SUFFICES ASSUME NEW j \in Keys, Stored(j)', row'[j].ref > 0
               PROVE  /\ row'[j].ref <= Len(log)
                      /\ log[row'[j].ref] = [key |-> j, value |-> row'[j].value]
    BY <1>2 DEF RowsTellTheirEvent
  <2>1. CASE j = k
    <3>1. log[call[c].ref] = [key |-> k, value |-> log[call[c].ref].value]
      <4>1. log[call[c].ref] \in Events
        BY <1>3 DEF IInv, TypeOK
      <4>2. PICK l \in Keys : log[call[c].ref] \in [key: {l}, value: Values(l)]
        BY <4>1 DEF Events
      <4>3. QED
        BY <4>2
    <3>2. QED
      BY <1>3, <1>5, <2>1, <3>1 DEF new
  <2>2. CASE j # k
    BY <1>5, <2>2 DEF IInv, LogInv, RowsTellTheirEvent, Stored
  <2>3. QED
    BY <2>1, <2>2
<1>14. OneUpsertAtATime'
  BY <1>2, <1>10 DEF IInv, LogInv, OneUpsertAtATime
<1>15. LastEventIsUpserted'
  <2> SUFFICES ASSUME NEW j \in Keys \ muddled, NEW d \in Upserting(j) \ {c},
                      NEW i \in 1..Len(log), log[i].key = j
               PROVE  i <= call'[d].ref
    BY <1>2, <1>10 DEF LastEventIsUpserted
  <2>1. d \in Callers \ {c} /\ At(d, "upsert")
    BY DEF Upserting
  <2>2. QED
    BY <1>6, <2>1 DEF IInv, LogInv, LastEventIsUpserted
<1>16. LogTellsTheTables'
  <2> SUFFICES ASSUME NEW j \in Keys, NEW h \in 1..Len(log), log[h].key = j,
                      Upserting(j) \ {c} = {}, j \notin muddled
               PROVE  Stored(j)' /\ \A i \in 1..Len(log) : log[i].key = j => i <= row'[j].ref
    BY <1>2, <1>10 DEF LogTellsTheTables
  <2>1. CASE j = k
    <3>1. \A i \in 1..Len(log) : log[i].key = j => i <= call[c].ref
      BY <1>11, <2>1 DEF IInv, LogInv, LastEventIsUpserted
    <3>2. row'[j] = new /\ Stored(j)'
      BY <1>4, <1>5, <2>1 DEF Stored
    <3>3. new.ref = call[c].ref
      BY DEF new
    <3>4. QED
      BY <2>1, <3>1, <3>2, <3>3
  <2>2. CASE j # k
    BY <1>5, <1>11, <2>2 DEF IInv, LogInv, LogTellsTheTables, Stored
  <2>3. QED
    BY <2>1, <2>2
<1>17. QED
  BY <1>10, <1>12, <1>13, <1>14, <1>15, <1>16 DEF IInv, LogInv

\* A key with an event that is not followed by its upsert is counted as muddled.
LEMMA UpsertFailsPreserves ==
    ASSUME IInv, NEW c \in Callers, UpsertFails(c)
    PROVE  IInv'
<1> DEFINE k == log[call[c].ref].key
<1>1. /\ At(c, "upsert") /\ call' = [call EXCEPT ![c] = Idle]
      /\ muddled' = muddled \cup {k} /\ row' = row /\ log' = log
  BY DEF UpsertFails, Ends
<1>2. call \in [Callers -> Calls] /\ Idle \in Calls
  BY DEF IInv, TypeOK, Calls
<1>3. /\ call' \in [Callers -> Calls] /\ call'[c] = Idle
      /\ \A d \in Callers \ {c} : call'[d] = call[d]
  BY <1>1, <1>2
<1>4. call[c].ref \in 1..Len(log)
  BY <1>1 DEF IInv, EventsAreKnown
<1>5. k \in Keys
  BY <1>4, EventsAreTyped DEF IInv
<1>6. TypeOK'
  BY <1>1, <1>3, <1>5 DEF IInv, TypeOK, Calls, Stored
<1>7. EventsAreKnown' /\ \A j : Upserting(j)' = Upserting(j) \ {c}
  <2>1. At(c, "idle")'
    BY <1>3 DEF At, Idle
  <2>2. \A d \in Callers \ {c} : /\ At(d, "upsert")' <=> At(d, "upsert")
                                 /\ At(d, "upsert") => call'[d].ref = call[d].ref
    BY <1>3 DEF At
  <2>3. QED
    BY <1>1, <2>1, <2>2, FinishedUpserts
<1>8. \A j \in Keys : j # k => c \notin Upserting(j)
  BY DEF Upserting
<1>9. RowsTellTheirEvent'
  BY <1>1 DEF IInv, LogInv, RowsTellTheirEvent, Stored
<1>10. OneUpsertAtATime'
  BY <1>1, <1>7 DEF IInv, LogInv, OneUpsertAtATime
<1>11. LastEventIsUpserted'
  <2> SUFFICES ASSUME NEW j \in Keys \ muddled, NEW d \in Upserting(j) \ {c},
                      NEW i \in 1..Len(log), log[i].key = j
               PROVE  i <= call'[d].ref
    BY <1>1, <1>7 DEF LastEventIsUpserted
  <2>1. d \in Callers \ {c}
    BY DEF Upserting
  <2>2. QED
    BY <1>3, <2>1 DEF IInv, LogInv, LastEventIsUpserted
<1>12. LogTellsTheTables'
  <2> SUFFICES ASSUME NEW j \in Keys, NEW h \in 1..Len(log), log[h].key = j,
                      Upserting(j) \ {c} = {}, j \notin muddled, j # k
               PROVE  Stored(j) /\ \A i \in 1..Len(log) : log[i].key = j => i <= row[j].ref
    BY <1>1, <1>7 DEF LogTellsTheTables, Stored
  <2>1. Upserting(j) = {}
    BY <1>8
  <2>2. QED
    BY <2>1 DEF IInv, LogInv, LogTellsTheTables
<1>13. QED
  BY <1>6, <1>7, <1>9, <1>10, <1>11, <1>12 DEF IInv, LogInv

LEMMA RestartPreserves ==
    ASSUME IInv, Restart
    PROVE  IInv'
<1>1. /\ row' = row /\ log' = log
      /\ muddled' = muddled \cup {k \in Keys : Upserting(k) # {}}
      /\ call' = [c \in Callers |-> Idle]
  BY DEF Restart
<1>2. TypeOK'
  BY <1>1 DEF IInv, TypeOK, Stored
<1>3. \A c \in Callers : ~At(c, "upsert")'
  BY <1>1 DEF At, Idle
<1>4. EventsAreKnown' /\ \A k : Upserting(k)' = {}
  BY <1>3 DEF EventsAreKnown, Upserting
<1>5. RowsTellTheirEvent'
  BY <1>1 DEF IInv, LogInv, RowsTellTheirEvent, Stored
<1>6. OneUpsertAtATime' /\ LastEventIsUpserted'
  BY <1>4 DEF OneUpsertAtATime, LastEventIsUpserted
<1>7. \A k \in Keys \ muddled' : k \notin muddled /\ Upserting(k) = {}
  BY <1>1
<1>8. LogTellsTheTables'
  BY <1>1, <1>7 DEF IInv, LogInv, LogTellsTheTables, Stored
<1>9. QED
  BY <1>2, <1>4, <1>5, <1>6, <1>8 DEF IInv, LogInv

-----------------------------------------------------------------------------
LEMMA NextPreserves == IInv /\ [Next]_vars => IInv'
<1> SUFFICES ASSUME IInv, [Next]_vars PROVE IInv'
  OBVIOUS
<1>1. ASSUME NEW c \in Callers, NEW s \in Subjects, Begin(c, s) PROVE IInv'
  BY <1>1, BeginPreserves
<1>2. ASSUME NEW c \in Callers, ReadPrincipal(c) \/ ReadMembership(c) PROVE IInv'
  BY <1>2, ReadPrincipalPreserves, ReadMembershipPreserves
<1>3. ASSUME NEW c \in Callers, ReadRoles(c) \/ ReadGroups(c) \/ ReadObjects(c) \/ Serve(c)
      PROVE  IInv'
  BY <1>3, ReadRolesPreserves, ReadGroupsPreserves, ReadObjectsPreserves, ServePreserves
<1>4. ASSUME NEW c \in Callers, NEW k \in Keys, NEW value \in Values(k),
             RecordEvent(c, k, value)
      PROVE  IInv'
  BY <1>4, RecordPreserves
<1>5. ASSUME NEW c \in Callers, NEW table, Upsert(c, table) PROVE IInv'
  BY <1>5, UpsertPreserves
<1>6. ASSUME NEW c \in Callers, UpsertFails(c) PROVE IInv'
  BY <1>6, UpsertFailsPreserves
<1>7. CASE Restart
  BY <1>7, RestartPreserves
<1>8. CASE UNCHANGED vars
  <2>1. call' \in [Callers -> Calls]
    BY <1>8 DEF IInv, TypeOK, Calls, vars
  <2>2. QED
    BY <1>8, <2>1, QuietSteps DEF vars, At
<1>9. ASSUME NEW c \in Callers,
             \/ UpsertPrincipal(c) \/ UpsertMembership(c) \/ UpsertRole(c) \/ UpsertGroup(c)
             \/ UpsertRoleAssignment(c) \/ UpsertGroupMembership(c)
             \/ UpsertObjectAclEntry(c) \/ UpsertAbacPolicyBinding(c)
      PROVE  IInv'
  BY <1>5, <1>9 DEF UpsertPrincipal, UpsertMembership, UpsertRole, UpsertGroup,
     UpsertRoleAssignment, UpsertGroupMembership, UpsertObjectAclEntry,
     UpsertAbacPolicyBinding
<1>10. QED
  BY <1>1, <1>2, <1>3, <1>4, <1>6, <1>7, <1>8, <1>9 DEF Next

(* The facts about events and upserts hold in every state.                    *)
THEOREM Invariant == Spec => []IInv
<1>1. Init => IInv
  BY InitIsGood
<1>2. IInv /\ [Next]_vars => IInv'
  BY NextPreserves
<1>3. QED
  BY <1>1, <1>2, PTL DEF Spec

(* Tables, log and requests have their types.                                 *)
THEOREM TypeCorrect == Spec => []TypeOK
<1>1. IInv => TypeOK
  BY DEF IInv
<1>2. QED
  BY <1>1, Invariant, PTL

(* A row is what the event it refers to says.                                 *)
THEOREM RowsAreTold == Spec => []RowsTellTheirEvent
<1>1. IInv => RowsTellTheirEvent
  BY DEF IInv, LogInv
<1>2. QED
  BY <1>1, Invariant, PTL

(* The row is what the last event about it says, unless events overlapped or  *)
(* were left without their upsert.                                            *)
THEOREM LogIsComplete == Spec => []LogTellsTheTables
<1>1. IInv => LogTellsTheTables
  BY DEF IInv, LogInv
<1>2. QED
  BY <1>1, Invariant, PTL

(* A refusal has its cause in the tables of that moment.                      *)
THEOREM RefusalsHaveACause == Spec => RefusedForCause
<1> DEFINE Refusal(c) == IsOpen(c) /\ At(c, "refused")'
           Cause(c) == View(call[c].subject) = Refused
<1>1. IInv /\ [Next]_vars => [\A c \in Callers : Refusal(c) => Cause(c)]_vars
  <2> SUFFICES ASSUME IInv, Next, NEW c \in Callers, Refusal(c) PROVE Cause(c)
    OBVIOUS
  <2>1. call[c] \in Requests /\ call \in [Callers -> Calls]
    BY OpenCallsAreRequests DEF IInv, TypeOK, Calls
  \* Whatever another call does leaves this one open.
  <2>2. ASSUME NEW d \in Callers, NEW q, d # c, call' = [call EXCEPT ![d] = q] PROVE FALSE
    BY <2>1, <2>2 DEF IsOpen, At
  <2>3. ASSUME NEW q, call' = [call EXCEPT ![c] = q], q.pc # "refused" PROVE FALSE
    BY <2>1, <2>3 DEF At
  <2>4. ASSUME NEW d \in Callers, ReadPrincipal(d) PROVE Cause(c)
    <3>1. d = c
      BY <2>2, <2>4 DEF ReadPrincipal, IsRefused
    <3>2. ~Active(<<"principal", call[c].subject>>)
      <4>1. CASE Active(<<"principal", call[c].subject>>)
        <5> DEFINE q == [call[c] EXCEPT !.pc = "membership",
                                  !.user = row[<<"principal", call[c].subject>>].value.user]
        <5>1. call' = [call EXCEPT ![c] = q]
          BY <2>4, <3>1, <4>1 DEF ReadPrincipal
        <5>2. q.pc = "membership"
          BY <2>1 DEF Requests
        <5> HIDE DEF q
        <5>3. QED
          BY <2>3, <5>1, <5>2
      <4>2. QED
        BY <4>1
    <3>3. QED
      BY <3>2 DEF View
  <2>5. ASSUME NEW d \in Callers, ReadMembership(d) PROVE Cause(c)
    <3>1. d = c
      BY <2>2, <2>5 DEF ReadMembership, IsRefused
    <3>2. ~Active(<<"membership", call[c].subject>>)
      <4>1. CASE Active(<<"membership", call[c].subject>>)
        <5> DEFINE q == [call[c] EXCEPT !.pc = "roles"]
        <5>1. call' = [call EXCEPT ![c] = q]
          BY <2>5, <3>1, <4>1 DEF ReadMembership
        <5>2. q.pc = "roles"
          BY <2>1 DEF Requests
        <5> HIDE DEF q
        <5>3. QED
          BY <2>3, <5>1, <5>2
      <4>2. QED
        BY <4>1
    <3>3. QED
      BY <3>2 DEF View
  \* No other step refuses a call.
  <2>6. ASSUME NEW d \in Callers,
               \/ \E s \in Subjects : Begin(d, s)
               \/ ReadRoles(d) \/ ReadGroups(d) \/ ReadObjects(d) \/ Serve(d)
               \/ \E k \in Keys : \E value \in Values(k) : RecordEvent(d, k, value)
               \/ UpsertFails(d)
        PROVE  FALSE
    <3>1. \E q : call' = [call EXCEPT ![d] = q]
      BY <2>6 DEF Begin, ReadRoles, ReadGroups, ReadObjects, Serve, Ends, RecordEvent,
         UpsertFails
    <3>2. d = c
      BY <2>2, <3>1
    <3>3. ~\E s \in Subjects : Begin(d, s)
      BY <3>2 DEF Begin
    <3>4. CASE Serve(d) \/ UpsertFails(d)
      BY <2>1, <3>2, <3>4 DEF Serve, UpsertFails, Ends, Idle, At
    <3>5. CASE ReadRoles(d)
      <4>1. call'[c].pc = "groups"
        BY <2>1, <3>2, <3>5 DEF ReadRoles, Requests
      <4>2. QED
        BY <4>1 DEF At
    <3>6. CASE ReadGroups(d)
      <4>1. call'[c].pc = "objects"
        BY <2>1, <3>2, <3>6 DEF ReadGroups, Requests
      <4>2. QED
        BY <4>1 DEF At
    <3>7. CASE ReadObjects(d)
      <4>1. call'[c].pc = "resolved"
        BY <2>1, <3>2, <3>7 DEF ReadObjects, Requests
      <4>2. QED
        BY <4>1 DEF At
    <3>8. CASE \E k \in Keys : \E value \in Values(k) : RecordEvent(d, k, value)
      <4>1. call'[c].pc = "upsert"
        BY <2>1, <3>2, <3>8 DEF RecordEvent, Requests
      <4>2. QED
        BY <4>1 DEF At
    <3>9. QED
      BY <2>6, <3>3, <3>4, <3>5, <3>6, <3>7, <3>8
  <2>7. ASSUME NEW d \in Callers, NEW table, Upsert(d, table) PROVE FALSE
    <3>1. call'[c] = IF c = d THEN Idle
                     ELSE [call[c] EXCEPT !.changes = IF @ = 2 THEN 2 ELSE @ + 1]
      BY <2>7 DEF Upsert
    <3>2. call'[c].pc \in {"idle", call[c].pc}
      BY <2>1, <3>1 DEF Idle, Requests
    <3>3. QED
      BY <2>1, <3>2 DEF At, Requests, Reading
  <2>8. ~Restart
    BY DEF Restart, At, Idle
  <2>9. QED
    BY <2>4, <2>5, <2>6, <2>7, <2>8 DEF Next, UpsertPrincipal, UpsertMembership, UpsertRole,
       UpsertGroup, UpsertRoleAssignment, UpsertGroupMembership, UpsertObjectAclEntry,
       UpsertAbacPolicyBinding
<1>2. QED
  BY <1>1, Invariant, PTL DEF Spec, RefusedForCause

-----------------------------------------------------------------------------
\* What the queries of a request find in tables t.
ActiveIn(t, k) == t[k] # NoRow /\ t[k].value.status = "active"
AdmittedIn(t, s) == ActiveIn(t, <<"principal", s>>) /\ ActiveIn(t, <<"membership", s>>)
UserIn(t, s) == t[<<"principal", s>>].value.user
RolesIn(t, s) ==
    {r \in Roles : ActiveIn(t, <<"role assignment", s, r>>) /\ ActiveIn(t, <<"role", r>>)}
GroupsIn(t, s) ==
    {g \in Groups : ActiveIn(t, <<"group membership", s, g>>) /\ ActiveIn(t, <<"group", g>>)}
Reaches(e, user, roles, groups) ==
    \/ e.type = "user" /\ e.id = user
    \/ e.type = "role" /\ e.id \in roles
    \/ e.type = "group" /\ e.id \in groups
ObjectsIn(t, user, roles, groups) ==
    {e.object : e \in {f \in Entries : /\ ActiveIn(t, <<"acl", f>>)
                                       /\ f.permission \in {"read", "admin"}
                                       /\ Reaches(f, user, roles, groups)}}
ViewIn(t, s) ==
    IF AdmittedIn(t, s)
    THEN [user |-> UserIn(t, s), roles |-> RolesIn(t, s), groups |-> GroupsIn(t, s),
          objects |-> ObjectsIn(t, UserIn(t, s), RolesIn(t, s), GroupsIn(t, s))]
    ELSE Refused

\* What a request has read so far is what tables t say.
Matches(t, q) ==
    /\ q.pc # "principal" =>
          ActiveIn(t, <<"principal", q.subject>>) /\ q.user = UserIn(t, q.subject)
    /\ q.pc \notin {"principal", "membership"} => ActiveIn(t, <<"membership", q.subject>>)
    /\ q.pc \notin {"principal", "membership", "roles"} => q.roles = RolesIn(t, q.subject)
    /\ q.pc \notin {"principal", "membership", "roles", "groups"} =>
          q.groups = GroupsIn(t, q.subject)

\* At most one row has changed since.
LooksAt(old, now, q) ==
    /\ q.before = ViewIn(old, q.subject)
    /\ q.changes = 0 => old = now
    /\ \E k \in Keys : \A j \in Keys : j # k => old[j] = now[j]
    /\ Matches(old, q) \/ Matches(now, q)

OneLook ==
    \A c \in Callers : IsOpen(c) /\ call[c].changes <= 1 =>
        \E old : LooksAt(old, row, call[c])

AdminsUpsert == \A c \in Callers : At(c, "upsert") => "security-admin" \in call[c].roles

LEMMA KeysOfSubjects ==
    ASSUME NEW s \in Subjects
    PROVE  /\ <<"principal", s>> \in Keys /\ <<"membership", s>> \in Keys
           /\ \A r \in Roles : <<"role assignment", s, r>> \in Keys /\ <<"role", r>> \in Keys
           /\ \A g \in Groups : <<"group membership", s, g>> \in Keys /\ <<"group", g>> \in Keys
           /\ \A e \in Entries : <<"acl", e>> \in Keys
<1>1. /\ <<"principal", s>> \in {"principal", "membership"} \X Subjects
      /\ <<"membership", s>> \in {"principal", "membership"} \X Subjects
  OBVIOUS
<1>2. ASSUME NEW r \in Roles
      PROVE  /\ <<"role assignment", s, r>> \in {"role assignment"} \X Subjects \X Roles
             /\ <<"role", r>> \in {"role"} \X Roles
  OBVIOUS
<1>3. ASSUME NEW g \in Groups
      PROVE  /\ <<"group membership", s, g>> \in {"group membership"} \X Subjects \X Groups
             /\ <<"group", g>> \in {"group"} \X Groups
  OBVIOUS
<1>4. ASSUME NEW e \in Entries PROVE <<"acl", e>> \in {"acl"} \X Entries
  OBVIOUS
<1> QED
  BY <1>1, <1>2, <1>3, <1>4 DEF Keys

(* View is what the queries would find if they all ran at this moment.           *)
LEMMA ViewOfRows ==
    ASSUME NEW s \in Subjects PROVE View(s) = ViewIn(row, s)
<1>1. \A k : Active(k) = ActiveIn(row, k)
  BY DEF Active, ActiveIn, Stored
<1> DEFINE user == UserIn(row, s)
           roles == RolesIn(row, s)
           groups == GroupsIn(row, s)
<1>2. {r \in Roles : Holds(s, "role", r)} = roles
  BY <1>1 DEF Holds, RolesIn
<1>3. {g \in Groups : Holds(s, "group", g)} = groups
  BY <1>1 DEF Holds, GroupsIn
<1>4. ASSUME NEW e \in Entries
      PROVE  /\ Holds(s, e.type, e.id) <=> Reaches(e, user, roles, groups)
             /\ e.permission # "write" <=> e.permission \in {"read", "admin"}
  <2>1. e.type \in {"user", "role", "group"} /\ e.permission \in {"read", "write", "admin"}
    BY DirectoryAssumption
  <2>2. CASE e.type = "user"
    BY <2>1, <2>2 DEF Holds, Reaches, UserIn
  <2>3. CASE e.type = "role"
    BY <1>1, <2>1, <2>3 DEF Holds, Reaches, RolesIn
  <2>4. CASE e.type = "group"
    BY <1>1, <2>1, <2>4 DEF Holds, Reaches, GroupsIn
  <2> QED
    BY <2>1, <2>2, <2>3, <2>4
<1>5. {f \in Entries : /\ Active(<<"acl", f>>)
                       /\ f.permission # "write"
                       /\ Holds(s, f.type, f.id)}
        = {f \in Entries : /\ ActiveIn(row, <<"acl", f>>)
                           /\ f.permission \in {"read", "admin"}
                           /\ Reaches(f, user, roles, groups)}
  BY <1>1, <1>4
<1> QED
  BY <1>1, <1>2, <1>3, <1>5 DEF View, ViewIn, AdmittedIn, UserIn, ObjectsIn

(* Two tables that differ in one row differ for one query at most.               *)
LEMMA OneQueryDiffers ==
    ASSUME NEW old, NEW now, NEW k \in Keys, \A j \in Keys : j # k => old[j] = now[j],
           NEW s \in Subjects
    PROVE  /\ k[1] # "principal" =>
                 /\ ActiveIn(old, <<"principal", s>>) = ActiveIn(now, <<"principal", s>>)
                 /\ UserIn(old, s) = UserIn(now, s)
           /\ k[1] # "membership" =>
                 ActiveIn(old, <<"membership", s>>) = ActiveIn(now, <<"membership", s>>)
           /\ k[1] \notin {"role assignment", "role"} => RolesIn(old, s) = RolesIn(now, s)
           /\ k[1] \notin {"group membership", "group"} => GroupsIn(old, s) = GroupsIn(now, s)
           /\ k[1] # "acl" => \A user, roles, groups :
                 ObjectsIn(old, user, roles, groups) = ObjectsIn(now, user, roles, groups)
<1>1. \A j \in Keys : j[1] # k[1] => old[j] = now[j]
  OBVIOUS
<1>2. ASSUME NEW j \in Keys, j[1] # k[1] PROVE ActiveIn(old, j) = ActiveIn(now, j)
  BY <1>1, <1>2 DEF ActiveIn
<1>3. ASSUME k[1] # "principal"
      PROVE  /\ ActiveIn(old, <<"principal", s>>) = ActiveIn(now, <<"principal", s>>)
             /\ UserIn(old, s) = UserIn(now, s)
  <2>1. <<"principal", s>> \in Keys /\ <<"principal", s>>[1] # k[1]
    BY <1>3, KeysOfSubjects
  <2> QED
    BY <1>1, <1>2, <2>1 DEF UserIn
<1>4. ASSUME k[1] # "membership"
      PROVE  ActiveIn(old, <<"membership", s>>) = ActiveIn(now, <<"membership", s>>)
  <2>1. <<"membership", s>> \in Keys /\ <<"membership", s>>[1] # k[1]
    BY <1>4, KeysOfSubjects
  <2> QED
    BY <1>2, <2>1
<1>5. ASSUME k[1] \notin {"role assignment", "role"} PROVE RolesIn(old, s) = RolesIn(now, s)
  <2>1. ASSUME NEW r \in Roles
        PROVE  /\ <<"role assignment", s, r>> \in Keys /\ <<"role assignment", s, r>>[1] # k[1]
               /\ <<"role", r>> \in Keys /\ <<"role", r>>[1] # k[1]
    BY <1>5, KeysOfSubjects
  <2> QED
    BY <1>2, <2>1 DEF RolesIn
<1>6. ASSUME k[1] \notin {"group membership", "group"} PROVE GroupsIn(old, s) = GroupsIn(now, s)
  <2>1. ASSUME NEW g \in Groups
        PROVE  /\ <<"group membership", s, g>> \in Keys /\ <<"group membership", s, g>>[1] # k[1]
               /\ <<"group", g>> \in Keys /\ <<"group", g>>[1] # k[1]
    BY <1>6, KeysOfSubjects
  <2> QED
    BY <1>2, <2>1 DEF GroupsIn
<1>7. ASSUME k[1] # "acl", NEW user, NEW roles, NEW groups
      PROVE  ObjectsIn(old, user, roles, groups) = ObjectsIn(now, user, roles, groups)
  <2>1. ASSUME NEW e \in Entries PROVE ActiveIn(old, <<"acl", e>>) = ActiveIn(now, <<"acl", e>>)
    <3>1. <<"acl", e>> \in Keys /\ <<"acl", e>>[1] # k[1]
      BY <1>7, KeysOfSubjects
    <3> QED
      BY <1>2, <3>1
  <2>2. {f \in Entries : /\ ActiveIn(old, <<"acl", f>>)
                         /\ f.permission \in {"read", "admin"}
                         /\ Reaches(f, user, roles, groups)}
          = {f \in Entries : /\ ActiveIn(now, <<"acl", f>>)
                             /\ f.permission \in {"read", "admin"}
                             /\ Reaches(f, user, roles, groups)}
    BY <2>1
  <2> QED
    BY <2>2 DEF ObjectsIn
<1> QED
  BY <1>3, <1>4, <1>5, <1>6, <1>7

-----------------------------------------------------------------------------
(* What a step does to one caller.                                               *)
Reads(c) == ReadPrincipal(c) \/ ReadMembership(c) \/ ReadRoles(c) \/ ReadGroups(c)
            \/ ReadObjects(c)
Records(c) == \E k \in Keys : \E value \in Values(k) : RecordEvent(c, k, value)
OneMore(q) == [q EXCEPT !.changes = IF @ = 2 THEN 2 ELSE @ + 1]

LEMMA CallSteps ==
    ASSUME IInv, Next, NEW c \in Callers
    PROVE  \/ \E s \in Subjects : Begin(c, s)
           \/ Reads(c) \/ Records(c)
           \/ call'[c] = Idle
           \/ call'[c] = call[c] /\ (IsOpen(c) => UNCHANGED row)
           \/ /\ IsOpen(c) /\ call'[c] = OneMore(call[c])
              /\ \E d \in Callers : \E table : Upsert(d, table)
<1> DEFINE Result ==
      \/ \E s \in Subjects : Begin(c, s)
      \/ Reads(c) \/ Records(c)
      \/ call'[c] = Idle
      \/ call'[c] = call[c] /\ (IsOpen(c) => UNCHANGED row)
      \/ /\ IsOpen(c) /\ call'[c] = OneMore(call[c])
         /\ \E d \in Callers : \E table : Upsert(d, table)
<1>1. call \in [Callers -> Calls]
  BY DEF IInv, TypeOK, Calls
<1>2. ASSUME NEW d \in Callers, NEW q, d # c, call' = [call EXCEPT ![d] = q], UNCHANGED row
      PROVE  Result
  BY <1>1, <1>2
<1>3. ASSUME NEW d \in Callers,
             \/ \E s \in Subjects : Begin(d, s)
             \/ Reads(d) \/ Records(d) \/ Serve(d) \/ UpsertFails(d)
      PROVE  Result
  <2>1. (\E q : call' = [call EXCEPT ![d] = q]) /\ UNCHANGED row
    BY <1>3 DEF Begin, Reads, ReadPrincipal, ReadMembership, ReadRoles, ReadGroups, ReadObjects,
       Serve, Ends, IsRefused, Records, RecordEvent, UpsertFails
  <2>2. CASE d # c
    BY <1>2, <2>1, <2>2
  <2>3. CASE d = c
    BY <1>1, <1>3, <2>3 DEF Serve, UpsertFails, Ends
  <2> QED
    BY <2>2, <2>3
<1>4. ASSUME NEW d \in Callers, NEW table, Upsert(d, table) PROVE Result
  <2>1. call'[c] = IF c = d THEN Idle ELSE IF IsOpen(c) THEN OneMore(call[c]) ELSE call[c]
    BY <1>4 DEF Upsert, OneMore
  <2> QED
    BY <1>4, <2>1
<1>5. CASE Restart
  BY <1>5 DEF Restart
<1> QED
  BY <1>3, <1>4, <1>5 DEF Next, Reads, Records, UpsertPrincipal, UpsertMembership, UpsertRole,
     UpsertGroup, UpsertRoleAssignment, UpsertGroupMembership, UpsertObjectAclEntry,
     UpsertAbacPolicyBinding

(* A query that reads what the tables say now goes on with whichever tables the  *)
(* queries before it have read.                                                  *)
LEMMA ReadsGoOn ==
    ASSUME IInv, NEW c \in Callers, Reads(c), IsOpen(c)', NEW old, LooksAt(old, row, call[c])
    PROVE  LooksAt(old, row, call'[c])
<1> DEFINE q == call[c]
           s == q.subject
           next == call'[c]
<1>1. /\ q \in Requests /\ s \in Subjects /\ call \in [Callers -> Calls]
      /\ Unauthorized.pc = "refused"
  <2>1. IsOpen(c)
    BY DEF Reads, ReadPrincipal, ReadMembership, ReadRoles, ReadGroups, ReadObjects, At, IsOpen
  <2> QED
    BY <2>1, OpenCallsAreRequests DEF IInv, TypeOK, Calls, Requests, Unauthorized
<1>2. PICK k \in Keys : \A j \in Keys : j # k => old[j] = row[j]
  BY DEF LooksAt
<1>3. /\ k[1] # "principal" =>
            /\ ActiveIn(old, <<"principal", s>>) = ActiveIn(row, <<"principal", s>>)
            /\ UserIn(old, s) = UserIn(row, s)
      /\ k[1] # "membership" =>
            ActiveIn(old, <<"membership", s>>) = ActiveIn(row, <<"membership", s>>)
      /\ k[1] \notin {"role assignment", "role"} => RolesIn(old, s) = RolesIn(row, s)
      /\ k[1] \notin {"group membership", "group"} => GroupsIn(old, s) = GroupsIn(row, s)
  BY <1>1, <1>2, OneQueryDiffers
<1>4. \A j : Active(j) = ActiveIn(row, j)
  BY DEF Active, ActiveIn, Stored
<1>5. ~IsRefused(c)
  BY <1>1 DEF IsRefused, IsOpen
<1>6. ASSUME /\ next.subject = s /\ next.before = q.before /\ next.changes = q.changes
             /\ Matches(old, next) \/ Matches(row, next)
      PROVE  LooksAt(old, row, next)
  BY <1>6 DEF LooksAt
<1>7. CASE ReadPrincipal(c)
  <2>1. /\ next = [q EXCEPT !.pc = "membership", !.user = UserIn(row, s)]
        /\ ActiveIn(row, <<"principal", s>>)
    BY <1>1, <1>4, <1>5, <1>7 DEF ReadPrincipal, UserIn
  <2>2. /\ next.pc = "membership" /\ next.user = UserIn(row, s)
        /\ next.subject = s /\ next.before = q.before /\ next.changes = q.changes
    BY <1>1, <2>1 DEF Requests
  <2>3. Matches(row, next)
    BY <2>1, <2>2 DEF Matches
  <2> QED
    BY <1>6, <2>2, <2>3
<1>8. CASE ReadMembership(c)
  <2>1. /\ next = [q EXCEPT !.pc = "roles"] /\ ActiveIn(row, <<"membership", s>>)
        /\ q.pc = "membership"
    BY <1>1, <1>4, <1>5, <1>8 DEF ReadMembership, At
  <2>2. /\ next.pc = "roles" /\ next.user = q.user
        /\ next.subject = s /\ next.before = q.before /\ next.changes = q.changes
    BY <1>1, <2>1 DEF Requests
  <2>3. Matches(old, next) \/ Matches(row, next)
    BY <1>3, <2>1, <2>2 DEF LooksAt, Matches
  <2> QED
    BY <1>6, <2>2, <2>3
<1>9. CASE ReadRoles(c)
  <2>1. /\ next = [q EXCEPT !.pc = "groups", !.roles = RolesIn(row, s)] /\ q.pc = "roles"
    BY <1>1, <1>4, <1>9 DEF ReadRoles, At, RolesIn
  <2>2. /\ next.pc = "groups" /\ next.user = q.user /\ next.roles = RolesIn(row, s)
        /\ next.subject = s /\ next.before = q.before /\ next.changes = q.changes
    BY <1>1, <2>1 DEF Requests
  <2>3. Matches(old, next) \/ Matches(row, next)
    BY <1>3, <2>1, <2>2 DEF LooksAt, Matches
  <2> QED
    BY <1>6, <2>2, <2>3
<1>10. CASE ReadGroups(c)
  <2>1. /\ next = [q EXCEPT !.pc = "objects", !.groups = GroupsIn(row, s)] /\ q.pc = "groups"
    BY <1>1, <1>4, <1>10 DEF ReadGroups, At, GroupsIn
  <2>2. /\ next.pc = "objects" /\ next.user = q.user /\ next.roles = q.roles
        /\ next.groups = GroupsIn(row, s)
        /\ next.subject = s /\ next.before = q.before /\ next.changes = q.changes
    BY <1>1, <2>1 DEF Requests
  <2>3. Matches(old, next) \/ Matches(row, next)
    BY <1>3, <2>1, <2>2 DEF LooksAt, Matches
  <2> QED
    BY <1>6, <2>2, <2>3
<1>11. CASE ReadObjects(c)
  <2>1. (\E objects : next = [q EXCEPT !.pc = "resolved", !.objects = objects]) /\ q.pc = "objects"
    BY <1>1, <1>11 DEF ReadObjects, At
  <2>2. /\ next.pc = "resolved" /\ next.user = q.user /\ next.roles = q.roles
        /\ next.groups = q.groups
        /\ next.subject = s /\ next.before = q.before /\ next.changes = q.changes
    BY <1>1, <2>1 DEF Requests
  <2>3. Matches(old, next) \/ Matches(row, next)
    BY <2>1, <2>2 DEF LooksAt, Matches
  <2> QED
    BY <1>6, <2>2, <2>3
<1> QED
  BY <1>7, <1>8, <1>9, <1>10, <1>11 DEF Reads

(* The strengthening of OneChangeIsASnapshot: with one change at most, there are *)
(* tables from before or after it that tell all that a request has read.         *)
LEMMA OneLookStep == IInv /\ OneLook /\ [Next]_vars => OneLook'
<1> SUFFICES ASSUME IInv, OneLook, [Next]_vars, NEW c \in Callers,
                    IsOpen(c)', call'[c].changes <= 1
             PROVE  \E old : LooksAt(old, row', call'[c])
  BY DEF OneLook
<1> DEFINE q == call[c]
           next == call'[c]
<1>1. IsOpen(c) => q \in Requests /\ q.subject \in Subjects
  BY OpenCallsAreRequests DEF IInv, Requests
<1>2. /\ call \in [Callers -> Calls]
      /\ next.pc \notin {"idle", "refused"}
  BY DEF IInv, TypeOK, Calls, IsOpen
<1>3. ASSUME NEW s \in Subjects, Begin(c, s) PROVE \E old : LooksAt(old, row', next)
  <2>1. /\ next.before = ViewIn(row, s) /\ next.subject = s /\ next.pc = "principal"
        /\ next.changes = 0 /\ UNCHANGED row
    BY <1>2, <1>3, ViewOfRows DEF Begin
  <2>2. <<"principal", s>> \in Keys
    BY KeysOfSubjects
  <2> QED
    BY <2>1, <2>2 DEF LooksAt, Matches
<1>4. CASE Reads(c)
  <2>1. IsOpen(c) /\ q \in Requests
    BY <1>1, <1>4
       DEF Reads, ReadPrincipal, ReadMembership, ReadRoles, ReadGroups, ReadObjects, At, IsOpen
  <2>2. ~IsRefused(c)
    BY <1>2 DEF IsRefused, Unauthorized
  <2>3. UNCHANGED row /\ next.changes = q.changes
    <3>1. CASE ReadPrincipal(c)
      BY <1>2, <2>1, <2>2, <3>1 DEF ReadPrincipal, Requests
    <3>2. CASE ReadMembership(c)
      BY <1>2, <2>1, <2>2, <3>2 DEF ReadMembership, Requests
    <3>3. CASE ReadRoles(c)
      BY <1>2, <2>1, <3>3 DEF ReadRoles, Requests
    <3>4. CASE ReadGroups(c)
      BY <1>2, <2>1, <3>4 DEF ReadGroups, Requests
    <3>5. CASE ReadObjects(c)
      BY <1>2, <2>1, <3>5 DEF ReadObjects, Requests
    <3> QED
      BY <1>4, <3>1, <3>2, <3>3, <3>4, <3>5 DEF Reads
  <2>4. PICK old : LooksAt(old, row, q)
    BY <2>1, <2>3 DEF OneLook
  <2> QED
    BY <1>4, <2>3, <2>4, ReadsGoOn
<1>5. CASE Records(c)
  <2>1. IsOpen(c) /\ q.pc = "resolved" /\ UNCHANGED row
    BY <1>5 DEF Records, RecordEvent, At, IsOpen
  <2>2. next = [q EXCEPT !.pc = "upsert", !.ref = Len(log) + 1]
    <3>1. call' = [call EXCEPT ![c].pc = "upsert", ![c].ref = Len(log) + 1]
      BY <1>5 DEF Records, RecordEvent
    <3> QED
      BY <1>2, <3>1
  <2>3. /\ next.pc = "upsert" /\ next.user = q.user /\ next.roles = q.roles
        /\ next.groups = q.groups /\ next.subject = q.subject /\ next.before = q.before
        /\ next.changes = q.changes
    BY <1>1, <2>1, <2>2 DEF Requests
  <2>4. PICK old : LooksAt(old, row, q)
    BY <2>1, <2>3 DEF OneLook
  <2> QED
    BY <2>1, <2>3, <2>4 DEF LooksAt, Matches
<1>6. CASE next = q /\ (IsOpen(c) => UNCHANGED row)
  BY <1>6 DEF OneLook, IsOpen
<1>7. CASE IsOpen(c) /\ next = OneMore(q) /\ \E d \in Callers : \E table : Upsert(d, table)
  <2>1. /\ q.changes = 0 /\ next.changes = 1 /\ next.subject = q.subject
        /\ next.before = q.before /\ next.pc = q.pc /\ next.user = q.user
        /\ next.roles = q.roles /\ next.groups = q.groups
    BY <1>1, <1>7 DEF OneMore, Requests
  <2>2. LooksAt(row, row, q)
    BY <1>7, <2>1 DEF OneLook, LooksAt
  <2>3. PICK k \in Keys : \A j \in Keys : j # k => row[j] = row'[j]
    <3>1. PICK d \in Callers : /\ At(d, "upsert")
                                /\ \E r : row' = [row EXCEPT ![log[call[d].ref].key] = r]
      BY <1>7 DEF Upsert
    <3>2. log[call[d].ref].key \in Keys
      BY <3>1, EventsAreTyped DEF IInv, EventsAreKnown
    <3> QED
      BY <3>1, <3>2 DEF IInv, TypeOK
  <2>4. LooksAt(row, row', next)
    BY <2>1, <2>2, <2>3 DEF LooksAt, Matches
  <2> QED
    BY <2>4
<1>8. CASE UNCHANGED vars
  BY <1>8 DEF vars, OneLook, IsOpen
<1> QED
  BY <1>2, <1>3, <1>4, <1>5, <1>6, <1>7, <1>8, CallSteps DEF Idle

(* A call that upserts has read the role of a security administrator.            *)
LEMMA AdminsUpsertStep == IInv /\ AdminsUpsert /\ [Next]_vars => AdminsUpsert'
<1> SUFFICES ASSUME IInv, AdminsUpsert, [Next]_vars, NEW c \in Callers, At(c, "upsert")'
             PROVE  "security-admin" \in call'[c].roles
  BY DEF AdminsUpsert
<1> DEFINE q == call[c]
           next == call'[c]
<1>1. call \in [Callers -> Calls] /\ next.pc = "upsert"
  BY DEF IInv, TypeOK, Calls, At
<1>2. IsOpen(c) => q \in Requests
  BY OpenCallsAreRequests DEF IInv
<1>3. ASSUME NEW s \in Subjects, Begin(c, s) PROVE FALSE
  BY <1>1, <1>3 DEF Begin
<1>4. CASE Reads(c)
  <2>1. IsOpen(c) /\ q \in Requests
    BY <1>2, <1>4
       DEF Reads, ReadPrincipal, ReadMembership, ReadRoles, ReadGroups, ReadObjects, At, IsOpen
  <2>2. ~IsRefused(c)
    BY <1>1 DEF IsRefused, Unauthorized
  <2>3. CASE ReadPrincipal(c)
    BY <1>1, <2>1, <2>2, <2>3 DEF ReadPrincipal, Requests
  <2>4. CASE ReadMembership(c)
    BY <1>1, <2>1, <2>2, <2>4 DEF ReadMembership, Requests
  <2>5. CASE ReadRoles(c)
    BY <1>1, <2>1, <2>5 DEF ReadRoles, Requests
  <2>6. CASE ReadGroups(c)
    BY <1>1, <2>1, <2>6 DEF ReadGroups, Requests
  <2>7. CASE ReadObjects(c)
    BY <1>1, <2>1, <2>7 DEF ReadObjects, Requests
  <2> QED
    BY <1>4, <2>3, <2>4, <2>5, <2>6, <2>7 DEF Reads
<1>5. CASE Records(c)
  <2>1. /\ call' = [call EXCEPT ![c].pc = "upsert", ![c].ref = Len(log) + 1]
        /\ At(c, "resolved") /\ "security-admin" \in q.roles
    BY <1>5 DEF Records, RecordEvent
  <2>2. q \in Requests
    BY <1>2, <2>1 DEF At, IsOpen
  <2> QED
    BY <1>1, <2>1, <2>2 DEF Requests
<1>6. CASE next = q
  BY <1>1, <1>6 DEF AdminsUpsert, At
<1>7. CASE IsOpen(c) /\ next = OneMore(q)
  <2>1. next.pc = q.pc /\ next.roles = q.roles
    BY <1>2, <1>7 DEF OneMore, Requests
  <2> QED
    BY <1>1, <2>1 DEF AdminsUpsert, At
<1>8. CASE UNCHANGED vars
  BY <1>1, <1>8 DEF vars, AdminsUpsert, At
<1> QED
  BY <1>1, <1>3, <1>4, <1>5, <1>6, <1>7, <1>8, CallSteps DEF Idle

LEMMA LooksHold == Spec => []OneLook /\ []AdminsUpsert
<1>1. Init => OneLook /\ AdminsUpsert
  BY DEF Init, OneLook, AdminsUpsert, IsOpen, At, Idle
<1> QED
  BY <1>1, OneLookStep, AdminsUpsertStep, Invariant, PTL DEF Spec

(* What a request has read before the last query is what one moment's tables     *)
(* grant to its subject, but for the objects.                                    *)
LEMMA MatchedView ==
    ASSUME NEW t, NEW q \in Requests, Matches(t, q), q.pc \in {"objects", "resolved", "upsert"}
    PROVE  /\ ViewIn(t, q.subject) =
                [user |-> q.user, roles |-> q.roles, groups |-> q.groups,
                 objects |-> ObjectsIn(t, q.user, q.roles, q.groups)]
           /\ ViewIn(t, q.subject) # Refused
<1>1. ViewIn(t, q.subject) =
        [user |-> q.user, roles |-> q.roles, groups |-> q.groups,
         objects |-> ObjectsIn(t, q.user, q.roles, q.groups)]
  BY DEF Matches, ViewIn, AdmittedIn
<1>2. /\ q.user \in Users \cup {NoUser} /\ q.roles \in SUBSET Roles /\ q.groups \in SUBSET Groups
      /\ ObjectsIn(t, q.user, q.roles, q.groups) \in SUBSET {e.object : e \in Entries}
  BY DEF Requests, ObjectsIn
<1> QED
  BY <1>1, <1>2, RefusedAssumption

(* The five queries of a request amount to one look at the tables, before or     *)
(* after the change that is committed while they run, for any number of callers, *)
(* subjects, roles, groups and entries.                                          *)
THEOREM ReadsAreOneLook == Spec => OneChangeIsASnapshot
<1> DEFINE LastRead(c) == At(c, "objects") /\ At(c, "resolved")' /\ call[c].changes <= 1
           Good(c) == Resolved(c)' \in Possible(c)
<1>1. IInv /\ OneLook /\ [Next]_vars => [\A c \in Callers : LastRead(c) => Good(c)]_vars
  <2> SUFFICES ASSUME IInv, OneLook, Next, NEW c \in Callers, LastRead(c) PROVE Good(c)
    OBVIOUS
  <2> DEFINE q == call[c]
             s == q.subject
             next == call'[c]
  <2>1. q.pc = "objects" /\ next.pc = "resolved" /\ q.changes <= 1 /\ IsOpen(c)
    BY DEF At, IsOpen
  <2>2. q \in Requests /\ s \in Subjects /\ call \in [Callers -> Calls]
    BY <2>1, OpenCallsAreRequests DEF IInv, TypeOK, Calls, Requests
  <2>3. ReadObjects(c)
    <3>1. ASSUME NEW d \in Subjects, Begin(c, d) PROVE FALSE
      BY <2>1, <3>1 DEF Begin
    <3>2. ~Records(c)
      BY <2>1 DEF Records, RecordEvent, At
    <3>3. OneMore(q).pc = "objects"
      BY <2>1, <2>2 DEF OneMore, Requests
    <3>4. Reads(c)
      BY <2>1, <3>1, <3>2, <3>3, CallSteps DEF Idle
    <3> QED
      BY <2>1, <3>4
         DEF Reads, ReadPrincipal, ReadMembership, ReadRoles, ReadGroups, At
  <2>4. Resolved(c)' = [user |-> q.user, roles |-> q.roles, groups |-> q.groups,
                        objects |-> ObjectsIn(row, q.user, q.roles, q.groups)]
    <3>1. {e \in Entries : /\ Active(<<"acl", e>>)
                           /\ e.permission \in {"read", "admin"}
                           /\ Applies(e, c)}
            = {f \in Entries : /\ ActiveIn(row, <<"acl", f>>)
                               /\ f.permission \in {"read", "admin"}
                               /\ Reaches(f, q.user, q.roles, q.groups)}
      BY DEF Active, Stored, ActiveIn, Applies, Reaches
    <3>2. next = [q EXCEPT !.pc = "resolved",
                           !.objects = ObjectsIn(row, q.user, q.roles, q.groups)]
      BY <2>2, <2>3, <3>1 DEF ReadObjects, ObjectsIn
    <3>3. /\ next.user = q.user /\ next.roles = q.roles /\ next.groups = q.groups
          /\ next.objects = ObjectsIn(row, q.user, q.roles, q.groups)
      BY <2>2, <3>2 DEF Requests
    <3> QED
      BY <3>3 DEF Resolved
  <2>5. PICK old : LooksAt(old, row, q)
    BY <2>1 DEF OneLook
  <2>6. CASE Matches(row, q)
    BY <2>1, <2>2, <2>4, <2>6, MatchedView, ViewOfRows DEF Possible
  <2>7. CASE Matches(old, q)
    <3>1. PICK k \in Keys : \A j \in Keys : j # k => old[j] = row[j]
      BY <2>5 DEF LooksAt
    <3>2. CASE k[1] = "acl"
      <4>1. /\ ActiveIn(old, <<"principal", s>>) = ActiveIn(row, <<"principal", s>>)
            /\ UserIn(old, s) = UserIn(row, s)
            /\ ActiveIn(old, <<"membership", s>>) = ActiveIn(row, <<"membership", s>>)
            /\ RolesIn(old, s) = RolesIn(row, s)
            /\ GroupsIn(old, s) = GroupsIn(row, s)
        BY <2>2, <3>1, <3>2, OneQueryDiffers
      <4>2. Matches(row, q)
        BY <2>1, <2>7, <4>1 DEF Matches
      <4> QED
        BY <2>6, <4>2
    <3>3. CASE k[1] # "acl"
      <4>1. \A user, roles, groups :
               ObjectsIn(old, user, roles, groups) = ObjectsIn(row, user, roles, groups)
        BY <2>2, <3>1, <3>3, OneQueryDiffers
      <4>2. Resolved(c)' = ViewIn(old, s)
        BY <2>1, <2>2, <2>4, <2>7, <4>1, MatchedView
      <4> QED
        BY <2>5, <4>2 DEF LooksAt, Possible
    <3> QED
      BY <3>2, <3>3
  <2> QED
    BY <2>5, <2>6, <2>7 DEF LooksAt
<1> QED
  BY <1>1, LooksHold, Invariant, PTL DEF Spec, OneChangeIsASnapshot

(* The roles are read long before the upsert, and yet the subject of a request   *)
(* that changes a row was security administrator before or after the one change  *)
(* committed in between.                                                         *)
THEOREM AdminsChange == Spec => ChangedByAdmins
<1> DEFINE Change(c) == At(c, "upsert") /\ row' # row /\ At(c, "idle")' /\ call[c].changes <= 1
           ByAdmin(c) == \E view \in Possible(c) \ {Refused} : "security-admin" \in view.roles
<1>1. IInv /\ OneLook /\ AdminsUpsert /\ [Next]_vars
        => [\A c \in Callers : Change(c) => ByAdmin(c)]_vars
  <2> SUFFICES ASSUME IInv, OneLook, AdminsUpsert, NEW c \in Callers, Change(c) PROVE ByAdmin(c)
    OBVIOUS
  <2> DEFINE q == call[c]
             s == q.subject
  <2>1. q.pc = "upsert" /\ "security-admin" \in q.roles /\ q.changes <= 1 /\ IsOpen(c)
    BY DEF At, IsOpen, AdminsUpsert
  <2>2. q \in Requests /\ s \in Subjects
    BY <2>1, OpenCallsAreRequests DEF IInv, Requests
  <2>3. PICK old : LooksAt(old, row, q)
    BY <2>1 DEF OneLook
  <2>4. ASSUME NEW t, Matches(t, q) PROVE ViewIn(t, s) # Refused /\ ViewIn(t, s).roles = q.roles
    <3>1. /\ ViewIn(t, q.subject) =
                [user |-> q.user, roles |-> q.roles, groups |-> q.groups,
                 objects |-> ObjectsIn(t, q.user, q.roles, q.groups)]
          /\ ViewIn(t, q.subject) # Refused
      BY <2>1, <2>2, <2>4, MatchedView
    <3> QED
      BY <3>1
  <2>5. CASE Matches(row, q)
    BY <2>1, <2>2, <2>4, <2>5, ViewOfRows DEF Possible
  <2>6. CASE Matches(old, q)
    BY <2>1, <2>3, <2>4, <2>6 DEF Possible, LooksAt
  <2> QED
    BY <2>3, <2>5, <2>6 DEF LooksAt
<1> QED
  BY <1>1, LooksHold, Invariant, PTL DEF Spec, ChangedByAdmins
=============================================================================
