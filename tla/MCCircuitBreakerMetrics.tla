----------------------- MODULE MCCircuitBreakerMetrics -----------------------
(***************************************************************************)
(* An instance of CircuitBreakerMetrics for TLC.                           *)
(***************************************************************************)
EXTENDS CircuitBreakerMetrics, TLC

CallerSymmetry == Permutations(Callers)
=============================================================================
