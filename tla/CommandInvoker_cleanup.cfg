\* cleanupHistory may be called while an undo is awaited.
SPECIFICATION Spec
CONSTANTS
    None = None
    Commands = {k1, k2, k3, k4, q}
    Undoable = {k1, k2, k3, k4}
    MaxHistorySize = 3
    CleanupWhileExecuting = TRUE
SYMMETRY MCSymmetry
PROPERTIES
    InvalidCommandsRemoved
