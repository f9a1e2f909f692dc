------------------------------ MODULE AuditLog ------------------------------
(***************************************************************************)
(* What every audit logger promises: one chain of events per tenant that   *)
(* only grows, one event at a time, at its end.  An event stands for the   *)
(* hash that covers its content, so a chain is a sequence of events.       *)
(***************************************************************************)
EXTENDS Sequences, Functions

CONSTANTS Tenants, Events

VARIABLE chains     \* the events of each tenant, oldest first

Recorded == UNION {Range(chains[t]) : t \in Tenants}

Init == chains = [t \in Tenants |-> <<>>]

\* An event is new: its id is a fresh uuid4.
Record(t, e) ==
    /\ e \notin Recorded
    /\ chains' = [chains EXCEPT ![t] = Append(@, e)]

Next == \E t \in Tenants, e \in Events : Record(t, e)

Spec == Init /\ [][Next]_chains
=============================================================================
