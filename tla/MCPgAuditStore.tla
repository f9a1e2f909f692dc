--------------------------- MODULE MCPgAuditStore ---------------------------
(* Small instance of PgAuditStore: three calls on two tenants.  Its run checks  *)
(* liveness, so sessions and events are not declared symmetric.                *)
EXTENDS PgAuditStore
=============================================================================
