SPECIFICATION FairSpec
CONSTANTS
    Members = {m1, m2}
    Threads = {t1}
    Scheduler = scheduler
    NoMember = none
    Overlap = TRUE
    CycleLength = 1
    MaxTime = 3
    MaxFailures = 0
PROPERTIES OverdueIsSettled LastSettlementCloses
