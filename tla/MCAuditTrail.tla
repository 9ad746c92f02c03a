---------------------------- MODULE MCAuditTrail ----------------------------
(* Model-checking instance of AuditTrail: an event of tenant t, a login refused  *)
(* to a request that names no tenant, and a global event.                     *)
EXTENDS AuditTrail, TLC

CONSTANTS t
MCTenantOf == (1 :> t) @@ (2 :> "unknown") @@ (3 :> System)
=============================================================================
