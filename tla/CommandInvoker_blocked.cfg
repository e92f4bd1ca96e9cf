\* The same instance; any command may fail.
SPECIFICATION Spec
CONSTANTS
    None = None
    Commands = {k1, k2, k3, k4, q}
    Undoable = {k1, k2, k3, k4}
    MaxHistorySize = 3
    CleanupWhileExecuting = FALSE
SYMMETRY MCSymmetry
INVARIANTS
    LastExecutedCanBeUndone
