CONSTANTS
    Archives <- Flight
    MaxRuns = 1
SPECIFICATION Spec
CHECK_DEADLOCK FALSE
INVARIANTS RowsAsFlown
