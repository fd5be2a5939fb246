SPECIFICATION Spec
CONSTANTS
    Members = {m1, m2}
    Threads = {t1}
    Scheduler = scheduler
    NoMember = none
    Overlap = FALSE
    CycleLength = 1
    MaxTime = 3
    MaxFailures = 2
SYMMETRY Symmetry
INVARIANTS TypeOK DuplicatesNeedFailures EscrowNetsOut
PROPERTIES SettledIsFinal ImplementsRosca
