CONSTANTS
  Entries = {e1, e2, e3}
  Requests = {r1, r2}
  Loop = Loop
  Final = Final
  Encodable = {e1, e2}
  StoreMayFail = TRUE
  AckMayBeLost = TRUE
SPECIFICATION Spec
CHECK_DEADLOCK FALSE
INVARIANT NothingLost
INVARIANT HeldOnce
INVARIANT CleanShutdownStoresAll
PROPERTY ImplementsContract
