SPECIFICATION NotifySpec
CONSTANTS
    Orders = {o1, o2}
    Workers = {w1, w2}
    Couriers = {c1}
    Etas = {t1}
    None = None
    Exclusive = TRUE
    MaxCalls = 5
SYMMETRY Symmetry
INVARIANTS NotifyTypeOK TextsFollowTimeline
PROPERTIES TerminalIsFinal NoLostUpdate ImplementsLifecycle
CHECK_DEADLOCK FALSE
