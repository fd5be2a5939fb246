SPECIFICATION Spec
CONSTANTS
    Threads = {t1, t2}
    Clients = {c1}
    Keys = {k1}
    NoKey = none
    Burst = 1
    Rate = 2
    Scale = 3
    Idle = 2
    TTL = 2
    MaxTime = 5
    MaxRequests = 4
    MaxFailures = 1
SYMMETRY Symmetry
INVARIANTS RepeatsHaveReasons RateBound RefusalsAreDue Gauge
CHECK_DEADLOCK FALSE
