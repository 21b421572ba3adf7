CONSTANTS
  Callers = {c1, c2, c3}
  FailureThreshold = 2
  HalfOpenMaxCalls = 2
  MayCancel = TRUE
  MaxInterventions = 1
SPECIFICATION FairSpec
INVARIANT ProbeAccounting
INVARIANT ClosedBelowThreshold
PROPERTY OpenShieldsBackend
PROPERTY TransitionsAreEarned
PROPERTY HealsUnlessProbesLost
