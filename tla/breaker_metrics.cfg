CONSTANTS
  Callers = {c1, c2, c3}
  FailureThreshold = 2
  HalfOpenMaxCalls = 2
  MayCancel = TRUE
  MaxInterventions = 1
  MaxCalls = 5
SPECIFICATION MetricsSpec
SYMMETRY CallerSymmetry
INVARIANT EveryCallAccounted
