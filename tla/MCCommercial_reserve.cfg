CONSTANTS
    Vehicles = {v1}
    Workers = {w1}
    Reservations = {r1}
    Sales = {}
    Prices = {0}
    OpenStatuses = {"NEGOTIATING"}
    OperatorStatuses = {}
    MaxFailures = 0
    MaxPostings = 0
    NULL = NULL
SPECIFICATION Spec
INVARIANT
    ActiveIsReserved
