\* A patient user, a quick server, and loads that may fail.
SPECIFICATION Spec
CONSTANTS
    A = A
    B = B
    a1 = a1
    a2 = a2
    b1 = b1
    w1 = w1
    w2 = w2
    None = None
    Charts = {A, B}
    HomeOf <- MCHomeOf
    Ids <- MCIds
    Drawings = {a1, a2, b1}
    Slots = {w1}
    Worlds <- MCLoadFails
CHECK_DEADLOCK FALSE
INVARIANTS
    LoadFailureLosesNothing
