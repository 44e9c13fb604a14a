CONSTANTS
    Vehicles = {v1}
    Workers = {w1, w2}
    Reservations = {}
    Sales = {s1}
    Prices = {0, 1, 2}
    OpenStatuses = {"NEGOTIATING"}
    OperatorStatuses = {}
    MaxFailures = 1
    MaxPostings = 1
    NULL = NULL
SPECIFICATION Spec
SYMMETRY WorkerSymmetry
INVARIANTS
    TypeOK
    SoldDated
    CommissionBacked
    RevenueIsPriced

    
