SPECIFICATION Spec
CONSTANTS
    Rows <- TwinRows
    Orders <- DefaultOnly
    Modes = {"cursor"}
    Limit = 2
    MaxChanges = 0
INVARIANT NothingSkipped
CHECK_DEADLOCK FALSE
