CONSTANTS
    Vehicles = {v1}
    Workers = {w1, w2}
    Reservations = {r1, r2}
    Sales = {}
    Prices = {0}
    OpenStatuses = {"NEGOTIATING"}
    OperatorStatuses = {"AVAILABLE", "IN_MAINTENANCE"}
    MaxFailures = 1
    MaxPostings = 0
    NULL = NULL
SPECIFICATION FairSpec
INVARIANTS
    ExpiredWasDue
PROPERTIES
    OverdueCloses
