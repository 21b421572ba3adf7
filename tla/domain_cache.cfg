CONSTANTS
  Domains = {d1, d2}
  Callers = {c1, c2}
  MaxSize = 1
  Edited = {d1}
  MaxEdits = 2
  None = None
SPECIFICATION FairSpec
INVARIANT StaleOnlyWithinTTL
INVARIANT NoStampede
INVARIANT NeverServesOlder
PROPERTY HotReload
PROPERTY QueuedIsAnswered
