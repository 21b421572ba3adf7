-------------------------- MODULE MCCircuitBreaker --------------------------
(***************************************************************************)
(* Instances of CircuitBreaker for TLC.  The liveness properties rule out  *)
(* the symmetry of the callers.                                            *)
(***************************************************************************)
EXTENDS CircuitBreaker
=============================================================================
