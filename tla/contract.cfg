SPECIFICATION Spec
CONSTANTS
    Members = {m1, m2}
    CycleLength = 2
    MaxTime = 6
SYMMETRY Symmetry
INVARIANTS LedgerAgrees NobodyTooEarly
PROPERTIES ImplementsRosca
CHECK_DEADLOCK FALSE
