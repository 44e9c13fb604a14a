CONSTANTS
    Vehicles = {v1}
    Workers = {w1, w2}
    OperatorStatuses <- AllStatuses
    MaxFailures = 1
    NULL = NULL
SPECIFICATION StockSpec
SYMMETRY WorkerSymmetry
INVARIANTS
    MovementLegal
    
