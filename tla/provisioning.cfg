CONSTANTS
  Callers = {c1, c2, c3}
  Databases = {d1}
  Tasks = {t1, t2, t3}
  NoTask = NoTask
SPECIFICATION FairSpec
INVARIANT QueryAfterProvisioning
PROPERTY ImplementsContract
PROPERTY EveryWaiterAnswered
