\* A create, a delete and a batch of each kind (an update, a delete and a setting;
\* a create and a removal), three entries, everything executed at most twice.
SPECIFICATION EditsSpec
CONSTANTS
    c1 = c1
    d1 = d1
    b1 = b1
    p1 = p1
    p2 = p2
    p3 = p3
    g1 = g1
    q1 = q1
    q2 = q2
    None = None
    Commands = {c1, d1, b1, p1, p2, p3, g1, q1, q2}
    Undoable = {c1, d1, b1, p1, p2, p3, g1, q1, q2}
    MaxHistorySize = 3
    CleanupWhileExecuting = FALSE
    KindOf <- MCKindOf
    PartsOf <- MCPartsOf
    MaxMade = 2
CHECK_DEADLOCK FALSE
INVARIANTS
    EditsTypeOK
    OneItemPerCreate
    UndoFindsItsItem
PROPERTIES
    ImplementsUndoStack
    FailedBatchLeavesNothing
