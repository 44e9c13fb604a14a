CONSTANTS
    Schedules = {"ledger", "workshop", "overlap"}
    Workers = {w1, w2}
    MaxFailures = 1
    NULL = NULL
    Vehicles = {v1}
    Sales = {s1}
    SoldVehicle <- SaleVehicles
    Amounts = {2, 4}
    SmallAmounts = {2}
    Rules <- ActiveRules
    MaxEntries = 2
    Parts = {p1}
    Maintenances = {m1}
    ServicedVehicle <- MaintenanceVehicles
    Items = {1, 2}
    Quantities = {1, 2}
    LaborCosts = {0, 1}
    UnitCost <- UnitCosts
    MaxStock = 3
    OverlapQuantities = {1}
    OverlapLaborCosts = {0}
SPECIFICATION BooksSpec
SYMMETRY WorkerSymmetry
INVARIANTS
    BooksBalance
    
    
PROPERTIES
    LedgerSavedByFormula
    ProfitShareIsCurrent
    
CHECK_DEADLOCK FALSE
