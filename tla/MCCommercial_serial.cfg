CONSTANTS
    Vehicles = {v1}
    Workers = {w1}
    Reservations = {r1, r2}
    Sales = {s1}
    Prices = {0, 1}
    OpenStatuses = {"NEGOTIATING"}
    OperatorStatuses <- ByHand
    MaxFailures = 0
    MaxPostings = 2
    NULL = NULL
SPECIFICATION Spec
INVARIANTS
    CompletedIsBooked
    ReservedIsBacked
PROPERTIES
    KeepsLifecycle
    
