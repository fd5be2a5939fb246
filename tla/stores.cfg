SPECIFICATION Spec
CONSTANTS
    MaxWrites = 3
    MaxTime = 2
    Limits <- MCLimits
    Offsets <- MCOffsets
INVARIANTS SameRows SameOrder PagesCover TotalIsNotAhead
PROPERTIES AppendOnly
CHECK_DEADLOCK FALSE
