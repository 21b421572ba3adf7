CONSTANTS
  louvain_job = louvain_job
  other_job = other_job
  Jobs = {louvain_job, other_job}
  Cron = {louvain_job}
  Louvain = {louvain_job}
  StabilityRuns <- MCStabilityRuns
  MaxHistory = 1
  Runs = {r1, r2}
  None = None
  Left = Left
SPECIFICATION FairSpec
INVARIANT NoOrphans
INVARIANT AloneSucceeds
PROPERTY HealthFollowsRuns
PROPERTY LeftoversGo
