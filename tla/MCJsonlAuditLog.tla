--------------------------- MODULE MCJsonlAuditLog ---------------------------
(* Small instances of JsonlAuditLog: one process with one request thread, or two. *)
EXTENDS JsonlAuditLog
=============================================================================
