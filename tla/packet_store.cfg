SPECIFICATION MCSpec
CONSTANTS
    Calls = {c1, c2, c3}
    p1 = p1
    t1 = t1
    Payloads = {p1, p2}
    Tenants = {t1, t2}
    None = none
    MaxRestarts = 1
INVARIANTS PairsAreWhole OnlyRepeatsAreDropped
PROPERTY HandledIsAnswered
CHECK_DEADLOCK FALSE
