SPECIFICATION Spec
CONSTANTS
    Users = {org, u1, u2}
    Organizer = org
    Requests = {r1, r2}
    Invitations = {i1}
    NoID = noID
    Threads = {t1}
    Overlap = FALSE
    MaxMembers = 3
    MaxFailures = 1
SYMMETRY Symmetry
INVARIANTS SameMembers ScheduleMatches
PROPERTIES ActiveIsFrozen
CHECK_DEADLOCK FALSE
