----------------------------- MODULE AuditEvents -----------------------------
(***************************************************************************)
(* The events that both audit loggers record, and what the first one is    *)
(* linked to.  An event's hash covers all its fields, so the event stands  *)
(* for its hash.                                                           *)
(***************************************************************************)
CONSTANTS
    Events,         \* event ids (uuid4); the bound on the number of events
    Genesis         \* GENESIS_HASH

ASSUME GenesisAssumption == Genesis \notin Events
=============================================================================
