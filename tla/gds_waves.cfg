CONSTANTS
  Jobs = {j1, j2, j3}
  Algorithms = {a1, a2, a3}
SPECIFICATION FairSpec
CHECK_DEADLOCK FALSE
INVARIANT DependenciesFirst
INVARIANT FallbackMeansCycle
PROPERTY EndsComplete
