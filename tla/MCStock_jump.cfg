CONSTANTS
    Vehicles = {v1}
    Workers = {w1, w2}
    OperatorStatuses <- AllStatuses
    MaxFailures = 0
    NULL = NULL
SPECIFICATION StockSpec
PROPERTY
    ArchivedIsNotSold
