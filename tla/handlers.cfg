SPECIFICATION MCSpec
CONSTANTS
    \* One set of names serves the handlers, which never run in one behaviour.
    Tenants = {x1, x2}
    Domains = {d1, d2}
    Packs = {d1}
    AnyDomain = any
    Actions = {read, write}
    Requestable = {{read}, {read, write}}
    Lifetimes = {0, 1}
    MaxCaps = 3
    MaxTime = 3
    Entities = {y1, y2, y3}
    Runs = {x1, x2}
    Limits = {1, 2}
    MaxDegree = 1
    MaxSwaying = 1
    Calls = {y1, y2, y3}
    Candidates = {k1}
    NumDims = 2
    MinOutcomes = 2
    None = none
    Names = {"g1", "g2", "g3", "nobody"}
    MaxDepth = 3
    Scans = {y1, y2, y3}
    Ids = {x1, x2}
SYMMETRY Symmetry
INVARIANTS AuthorityShrinks ActiveOnlyUnderActive UnreportedOnlyAfterError
INVARIANTS HubStaysCanonical BatchMergesGroups
INVARIANTS TriggerNotMissed ForgottenOnlyWhenLate
INVARIANTS   MissesOnlySharedIds
PROPERTY RevocationIsExact
CHECK_DEADLOCK FALSE
