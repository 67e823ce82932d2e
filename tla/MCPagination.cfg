SPECIFICATION Spec
CONSTANTS
    Rows <- DistinctRows
    Orders <- Ascending
    Modes = {"cursor", "offset"}
    Limit = 2
    MaxChanges = 3
INVARIANTS NoDuplicates NothingSkipped PagesInOrder CountIsTotal
CHECK_DEADLOCK FALSE
