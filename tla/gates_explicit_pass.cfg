SPECIFICATION MCSpec
CONSTANTS
    Names = {"g1", "g2", "g3", "nobody"}
    MaxDepth = 3
INVARIANT PassAdmitsNull
CHECK_DEADLOCK FALSE
