\* A history of three entries, four undoable commands and one that is not; callers
\* do not clean up during an await.
SPECIFICATION Spec
CONSTANTS
    None = None
    Commands = {k1, k2, k3, k4, q}
    Undoable = {k1, k2, k3, k4}
    MaxHistorySize = 3
    CleanupWhileExecuting = FALSE
SYMMETRY MCSymmetry
INVARIANTS
    TypeOK
    HistoryShape
    HistoryMatchesCommands
    UndoIsLinear
    UndoneCanBeRedone
