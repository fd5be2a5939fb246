SPECIFICATION Spec
CONSTANTS
    Users = {org, u1}
    Organizer = org
    Requests = {r1, r2}
    Invitations = {i1}
    NoID = noID
    Threads = {t1, t2}
    Overlap = TRUE
    MaxMembers = 3
    MaxFailures = 1
SYMMETRY Symmetry
INVARIANTS Capacity RowIsValid AssemblyLadder
CHECK_DEADLOCK FALSE
