SPECIFICATION Spec
CONSTANTS
    Threads = {t1, t2}
    Main = main
    Emails = {admin, other}
    AdminEmail = admin
    Ids = {i1, i2, i3}
    NoId = none
    AccessTTL = 1
    RefreshTTL = 2
    MaxTime = 3
    MaxRequests = 4
    MaxBoots = 2
    MaxFailures = 1
SYMMETRY Symmetry
INVARIANTS OneAccountPerEmail AuthorityLapses NoLostUpdate AuditTrail SeededBeforeServing
CHECK_DEADLOCK FALSE
