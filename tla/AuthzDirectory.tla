---------------------------- MODULE AuthzDirectory ----------------------------
(***************************************************************************)
(* The principal directory in PostgreSQL and its administration.  A        *)
(* request is resolved by five queries, the first four of which are        *)
(* statements of one READ COMMITTED transaction and see what is committed  *)
(* between them; the last one has a connection of its own.  A request of a *)
(* security administrator then records an audit event and upserts one row  *)
(* that refers to the event.                                               *)
(*                                                                         *)
(* One tenant, which has a policy.  A row is active or not: the other      *)
(* statuses (disabled, suspended, deprecated, revoked) are read alike.     *)
(***************************************************************************)
EXTENDS Naturals, Sequences, FiniteSets

CONSTANTS
    Callers,            \* threads that serve requests
    Subjects,           \* subjects of the issuer's tokens
    Users,              \* user ids
    Roles, Groups,
    Entries,            \* ACL entries: subject type, subject id, object and permission
    Policies,           \* ABAC policy ids
    Seeded,             \* keys of the rows that are there at first, all of them active
    UserOf,             \* users of the principals among them
    NoUser, NoRow, Refused,
    MaxEvents           \* bound on audit events

-----------------------------------------------------------------------------
Keys ==
    ({"principal", "membership"} \X Subjects)
        \cup ({"role"} \X Roles) \cup ({"group"} \X Groups)
        \cup ({"role assignment"} \X Subjects \X Roles)
        \cup ({"group membership"} \X Subjects \X Groups)
        \cup ({"acl"} \X Entries) \cup ({"abac"} \X Policies)

\* Rows a row refers to by foreign keys; an ACL entry has none.
References(k) ==
    CASE k[1] = "membership"       -> {<<"principal", k[2]>>}
      [] k[1] = "role assignment"  -> {<<"principal", k[2]>>, <<"role", k[3]>>}
      [] k[1] = "group membership" -> {<<"principal", k[2]>>, <<"group", k[3]>>}
      [] OTHER                     -> {}

Statuses == {"active", "inactive"}
Values(k) == [status: Statuses, user: IF k[1] = "principal" THEN Users ELSE {NoUser}]
Rows(k) == [value: Values(k), ref: 0..MaxEvents]

ASSUME DirectoryAssumption ==
    /\ MaxEvents \in Nat
    /\ "security-admin" \in Roles
    /\ \A e \in Entries :
          /\ e.type \in {"user", "role", "group"}
          /\ e.permission \in {"read", "write", "admin"}
    /\ Seeded \subseteq Keys
    /\ \A k \in Seeded : References(k) \subseteq Seeded
    /\ \A s \in Subjects : <<"principal", s>> \in Seeded => UserOf[s] \in Users
    /\ \A k \in Keys : NoRow \notin Rows(k)

VARIABLES
    row,            \* the tables: rows by primary key
    log,            \* audit events: what they say was upserted
    call,
    muddled         \* keys with events that overlapped, or were not followed by the upsert

vars == <<row, log, call, muddled>>

Contexts == [user: Users, roles: SUBSET Roles, groups: SUBSET Groups,
             objects: SUBSET {e.object : e \in Entries}]
Views == Contexts \cup {Refused}

ASSUME RefusedAssumption ==
    Refused \notin [user: Users \cup {NoUser}, roles: SUBSET Roles, groups: SUBSET Groups,
                    objects: SUBSET {e.object : e \in Entries}]

Reading == {"principal", "membership", "roles", "groups", "objects"}

Stored(k) == row[k] # NoRow
Active(k) == Stored(k) /\ row[k].value.status = "active"

\* What one moment's tables grant to a subject.
Holds(s, type, id) ==
    CASE type = "user"  -> row[<<"principal", s>>].value.user = id
      [] type = "role"  -> /\ id \in Roles
                           /\ Active(<<"role assignment", s, id>>) /\ Active(<<"role", id>>)
      [] type = "group" -> /\ id \in Groups
                           /\ Active(<<"group membership", s, id>>) /\ Active(<<"group", id>>)
View(s) ==
    IF Active(<<"principal", s>>) /\ Active(<<"membership", s>>)
    THEN [user    |-> row[<<"principal", s>>].value.user,
          roles   |-> {r \in Roles : Holds(s, "role", r)},
          groups  |-> {g \in Groups : Holds(s, "group", g)},
          objects |-> {e.object : e \in {f \in Entries :
                         /\ Active(<<"acl", f>>)
                         /\ f.permission # "write"
                         /\ Holds(s, f.type, f.id)}}]
    ELSE Refused

Requests ==
    [pc: Reading \cup {"resolved", "upsert"},
     subject: Subjects,
     user: Users \cup {NoUser}, roles: SUBSET Roles, groups: SUBSET Groups,
     objects: SUBSET {e.object : e \in Entries},
     ref: 0..MaxEvents,         \* audit event that was recorded
     before: Views,             \* what the tables granted at the start
     changes: 0..2]             \* upserts of other calls since then; 2 stands for more
Idle == [pc |-> "idle"]
Unauthorized == [pc |-> "refused"]

Events == UNION {[key: {k}, value: Values(k)] : k \in Keys}

TypeOK ==
    /\ row \in [Keys -> (UNION {Rows(k) : k \in Keys}) \cup {NoRow}]
    /\ \A k \in Keys : Stored(k) => row[k] \in Rows(k)
    /\ log \in Seq(Events) /\ Len(log) <= MaxEvents
    /\ call \in [Callers -> Requests \cup {Idle, Unauthorized}]
    /\ muddled \subseteq Keys

Init ==
    /\ row = [k \in Keys |->
                IF k \in Seeded
                THEN [value |-> [status |-> "active",
                                 user |-> IF k[1] = "principal" THEN UserOf[k[2]] ELSE NoUser],
                      ref |-> 0]
                ELSE NoRow]
    /\ log = <<>>
    /\ call = [c \in Callers |-> Idle]
    /\ muddled = {}

-----------------------------------------------------------------------------
At(c, pc) == call[c].pc = pc
IsOpen(c) == call[c].pc \notin {"idle", "refused"}
Ends(c) == call' = [call EXCEPT ![c] = Idle]
IsRefused(c) == call' = [call EXCEPT ![c] = Unauthorized]

Begin(c, s) ==
    /\ ~IsOpen(c)
    /\ call' = [call EXCEPT ![c] =
                 [pc |-> "principal", subject |-> s, user |-> NoUser, roles |-> {}, groups |-> {},
                  objects |-> {}, ref |-> 0, before |-> View(s), changes |-> 0]]
    /\ UNCHANGED <<row, log, muddled>>

ReadPrincipal(c) ==
    /\ At(c, "principal")
    /\ LET k == <<"principal", call[c].subject>> IN
          IF Active(k)
          THEN call' = [call EXCEPT ![c].pc = "membership", ![c].user = row[k].value.user]
          ELSE IsRefused(c)
    /\ UNCHANGED <<row, log, muddled>>

ReadMembershipOfHolders(c) ==
    /\ At(c, "membership")
    /\ IF /\ Active(<<"membership", call[c].subject>>)
          /\ \E r \in Roles : Stored(<<"role assignment", call[c].subject, r>>)
       THEN call' = [call EXCEPT ![c].pc = "roles"]
       ELSE IsRefused(c)
    /\ UNCHANGED <<row, log, muddled>>
ReadMembership(c) ==
    /\ At(c, "membership")
    /\ IF Active(<<"membership", call[c].subject>>)
       THEN call' = [call EXCEPT ![c].pc = "roles"]
       ELSE IsRefused(c)
    /\ UNCHANGED <<row, log, muddled>>

ReadAssignments(c) ==
    /\ At(c, "roles")
    /\ call' = [call EXCEPT ![c].pc = "groups",
                            ![c].roles = {r \in Roles :
                               Active(<<"role assignment", call[c].subject, r>>)}]
    /\ UNCHANGED <<row, log, muddled>>
\* The assignment and the role are joined by one statement.
ReadRoles(c) ==
    /\ At(c, "roles")
    /\ call' = [call EXCEPT ![c].pc = "groups",
                            ![c].roles = {r \in Roles :
                               /\ Active(<<"role assignment", call[c].subject, r>>)
                               /\ Active(<<"role", r>>)}]
    /\ UNCHANGED <<row, log, muddled>>

ReadGroups(c) ==
    /\ At(c, "groups")
    /\ call' = [call EXCEPT ![c].pc = "objects",
                            ![c].groups = {g \in Groups :
                               /\ Active(<<"group membership", call[c].subject, g>>)
                               /\ Active(<<"group", g>>)}]
    /\ UNCHANGED <<row, log, muddled>>

Applies(e, c) ==
    \/ e.type = "user" /\ e.id = call[c].user
    \/ e.type = "role" /\ e.id \in call[c].roles
    \/ e.type = "group" /\ e.id \in call[c].groups

ReadObjects(c) ==
    /\ At(c, "objects")
    /\ LET granting == {e \in Entries : /\ Active(<<"acl", e>>)
                                        /\ e.permission \in {"read", "admin"}
                                        /\ Applies(e, c)}
       IN  call' = [call EXCEPT ![c].pc = "resolved",
                                ![c].objects = {e.object : e \in granting}]
    /\ UNCHANGED <<row, log, muddled>>

\* A request that changes nothing here is served, or refused for want of a role.
Serve(c) ==
    /\ At(c, "resolved")
    /\ Ends(c)
    /\ UNCHANGED <<row, log, muddled>>

\* Calls that have recorded an event about k and not upserted yet.
Upserting(k) == {d \in Callers : At(d, "upsert") /\ log[call[d].ref].key = k}

RecordAnyEvent(c, k, value) ==
    /\ At(c, "resolved")
    /\ Len(log) < MaxEvents
    /\ log' = Append(log, [key |-> k, value |-> value])
    /\ call' = [call EXCEPT ![c].pc = "upsert", ![c].ref = Len(log) + 1]
    /\ muddled' = IF Upserting(k) = {} THEN muddled ELSE muddled \cup {k}
    /\ UNCHANGED row
RecordEvent(c, k, value) ==
    /\ At(c, "resolved")
    /\ "security-admin" \in call[c].roles
    /\ Len(log) < MaxEvents
    /\ log' = Append(log, [key |-> k, value |-> value])
    /\ call' = [call EXCEPT ![c].pc = "upsert", ![c].ref = Len(log) + 1]
    /\ muddled' = IF Upserting(k) = {} THEN muddled ELSE muddled \cup {k}
    /\ UNCHANGED row

\* Foreign keys, and the user id that no other principal may have.
ConstraintsHold(k, value) ==
    /\ \A r \in References(k) : Stored(r)
    /\ k[1] = "principal" =>
          \A s \in Subjects \ {k[2]} :
             Stored(<<"principal", s>>) => row[<<"principal", s>>].value.user # value.user

InsertOrIgnore(c, table) ==
    /\ At(c, "upsert")
    /\ LET event == log[call[c].ref] IN
          /\ event.key[1] = table
          /\ ConstraintsHold(event.key, event.value)
          /\ row' = [row EXCEPT ![event.key] =
                       IF @ = NoRow THEN [value |-> event.value, ref |-> call[c].ref] ELSE @]
    /\ call' = [d \in Callers |->
                 IF d = c THEN Idle
                 ELSE IF IsOpen(d) THEN [call[d] EXCEPT !.changes = IF @ = 2 THEN 2 ELSE @ + 1]
                 ELSE call[d]]
    /\ UNCHANGED <<log, muddled>>
Upsert(c, table) ==
    /\ At(c, "upsert")
    /\ LET event == log[call[c].ref] IN
          /\ event.key[1] = table
          /\ ConstraintsHold(event.key, event.value)
          /\ row' = [row EXCEPT ![event.key] = [value |-> event.value, ref |-> call[c].ref]]
    /\ call' = [d \in Callers |->
                 IF d = c THEN Idle
                 ELSE IF IsOpen(d) THEN [call[d] EXCEPT !.changes = IF @ = 2 THEN 2 ELSE @ + 1]
                 ELSE call[d]]
    /\ UNCHANGED <<log, muddled>>

UpsertPrincipal(c) == Upsert(c, "principal")
UpsertMembership(c) == Upsert(c, "membership")
UpsertRole(c) == Upsert(c, "role")
UpsertGroup(c) == Upsert(c, "group")
UpsertRoleAssignment(c) == Upsert(c, "role assignment")
UpsertGroupMembership(c) == Upsert(c, "group membership")
UpsertObjectAclEntry(c) == Upsert(c, "acl")
UpsertAbacPolicyBinding(c) == Upsert(c, "abac")

\* A constraint does not hold, or the database is not available.
UpsertFails(c) ==
    /\ At(c, "upsert")
    /\ Ends(c)
    /\ muddled' = muddled \cup {log[call[c].ref].key}
    /\ UNCHANGED <<row, log>>

Restart ==
    /\ call' = [c \in Callers |-> Idle]
    /\ muddled' = muddled \cup {k \in Keys : Upserting(k) # {}}
    /\ UNCHANGED <<row, log>>

Next ==
    \/ \E c \in Callers :
          \/ \E s \in Subjects : Begin(c, s)
          \/ ReadPrincipal(c) \/ ReadMembership(c) \/ ReadRoles(c) \/ ReadGroups(c)
          \/ ReadObjects(c) \/ Serve(c)
          \/ \E k \in Keys : \E value \in Values(k) : RecordEvent(c, k, value)
          \/ UpsertPrincipal(c) \/ UpsertMembership(c) \/ UpsertRole(c) \/ UpsertGroup(c)
          \/ UpsertRoleAssignment(c) \/ UpsertGroupMembership(c)
          \/ UpsertObjectAclEntry(c) \/ UpsertAbacPolicyBinding(c)
          \/ UpsertFails(c)
    \/ Restart

Spec == Init /\ [][Next]_vars
-----------------------------------------------------------------------------
Resolved(c) == [user |-> call[c].user, roles |-> call[c].roles, groups |-> call[c].groups,
                objects |-> call[c].objects]
Possible(c) == {call[c].before, View(call[c].subject)}

(* The five queries of a request amount to one look at the tables, before or  *)
(* after the change, if not more than one change is committed while they run. *)
OneChangeIsASnapshot ==
    [][\A c \in Callers :
         At(c, "objects") /\ At(c, "resolved")' /\ call[c].changes <= 1 =>
            Resolved(c)' \in Possible(c)]_vars

(* A request is refused only if the subject has no active principal with an   *)
(* active membership at that moment, however many changes came before.        *)
RefusedForCause ==
    [][\A c \in Callers :
         IsOpen(c) /\ At(c, "refused")' => View(call[c].subject) = Refused]_vars

(* A request that changes the tables is one of a subject that was security    *)
(* administrator before or after the one change committed since it began,     *)
(* though the roles were read long before the upsert.                         *)
ChangedByAdmins ==
    [][\A c \in Callers :
         At(c, "upsert") /\ row' # row /\ At(c, "idle")' /\ call[c].changes <= 1 =>
            \E view \in Possible(c) \ {Refused} : "security-admin" \in view.roles]_vars

(* Whatever calls overlap, fail or are cut off, the event that a stored row   *)
(* refers to is in the audit log and tells this row and its content.          *)
RowsTellTheirEvent ==
    \A k \in Keys :
        Stored(k) /\ row[k].ref > 0 =>
            /\ row[k].ref <= Len(log)
            /\ log[row[k].ref] = [key |-> k, value |-> row[k].value]

(* The last event about a row tells what the row is, unless events about it   *)
(* overlapped or one of them was not followed by its upsert.                  *)
LogTellsTheTables ==
    \A k \in Keys :
        LET about == {i \in 1..Len(log) : log[i].key = k} IN
            about # {} /\ Upserting(k) = {} /\ k \notin muddled =>
                /\ Stored(k)
                /\ \A i \in about : i <= row[k].ref
=============================================================================
