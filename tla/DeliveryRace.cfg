SPECIFICATION FairSpec
CONSTANTS
    Orders = {o1}
    Workers = {w1, w2}
    Couriers = {c1}
    Etas = {t1}
    None = None
    Exclusive = FALSE
    MaxCalls = 5
INVARIANT LawfulTimelines
PROPERTY SavedIsAnnounced
CHECK_DEADLOCK FALSE
