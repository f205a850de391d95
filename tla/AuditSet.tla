------------------------------ MODULE AuditSet ------------------------------
(* The audits of the processes on one machine (see Host).                   *)
CONSTANT Audits   \* each is one call of run_audit
=============================================================================
