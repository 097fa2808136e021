CONSTANTS
    cell1 = cell1
    cell2 = cell2
    Cells = {cell1, cell2}
    Picks <- MCPicks
    Runs = {1, 2}
    Budget = 2
    Calls = {call1, call2}
    Cancellable <- MCCancellable
    NoRun = NoRun
SPECIFICATION PageSpec
INVARIANTS EndedIsComplete
PROPERTIES ResultsStay
SYMMETRY MCSymmetry
CHECK_DEADLOCK FALSE
