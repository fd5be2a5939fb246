SPECIFICATION Spec
CONSTANTS
    Members = {m1, m2}
    Threads = {t1, t2}
    Scheduler = scheduler
    NoMember = none
    Overlap = TRUE
    CycleLength = 1
    MaxTime = 2
    MaxFailures = 0
SYMMETRY Symmetry
INVARIANTS ContributionLadder PayoutLadder OnlyCollectedIsPaidOut NoEarlyDefault RecordsAgree
