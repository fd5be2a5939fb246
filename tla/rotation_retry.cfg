SPECIFICATION FairSpec
CONSTANTS
    Members = {m1, m2}
    Threads = {}
    Scheduler = scheduler
    NoMember = none
    Overlap = TRUE
    CycleLength = 1
    MaxTime = 3
    MaxFailures = 3
PROPERTIES OverdueIsSettled
