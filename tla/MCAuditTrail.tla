---------------------------- MODULE MCAuditTrail ----------------------------
(***************************************************************************)
(* Instances of AuditTrail for TLC.  The liveness properties rule out      *)
(* symmetry.                                                               *)
(***************************************************************************)
EXTENDS AuditTrail
=============================================================================
