\* The flood loop from every hidden cell of every small board.
SPECIFICATION Spec
CONSTANTS
    Rows <- MCRows
    Columns <- MCColumns
    BombRadius = 1
    Layouts <- MCLayouts
INVARIANTS
    FloodIsLeast
    FloodAgreesWithRules
PROPERTIES
    FloodEnds
\* The loop stops when its queue is empty.
CHECK_DEADLOCK FALSE
