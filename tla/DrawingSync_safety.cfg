\* Two charts and three drawings, three worlds; two saves may be in flight.
SPECIFICATION Spec
CONSTANTS
    A = A
    B = B
    a1 = a1
    a2 = a2
    b1 = b1
    w1 = w1
    w2 = w2
    None = None
    Charts = {A, B}
    HomeOf <- MCHomeOf
    Ids <- MCIds
    Drawings = {a1, a2, b1}
    Slots = {w1, w2}
    Worlds <- MCWorlds
SYMMETRY MCSymmetry
CHECK_DEADLOCK FALSE
INVARIANTS
    TypeOK
    HomeKept
    SettledIsSaved
    NothingLost
