\* The same worlds, one drawing per chart; the user rests at some point.
SPECIFICATION FairSpec
CONSTANTS
    A = A
    B = B
    a1 = a1
    a2 = a2
    b1 = b1
    w1 = w1
    w2 = w2
    None = None
    Charts = {A, B}
    HomeOf <- MCHomeOf
    Ids <- MCIds
    Drawings = {a1, b1}
    Slots = {w1, w2}
    Worlds <- MCWorlds
CHECK_DEADLOCK FALSE
PROPERTIES
    AutosaveRests
