CONSTANTS
    Schedules = {"alone"}
    Workers = {w1, w2}
    MaxFailures = 1
    NULL = NULL
    ERROR = ERROR
    Calls = {q1}
    Tokens = {1, 2, 3}
    Resets = {r1}
    MaxAttempts = 2
    MaxPasswords = 1
    MaxCounter = 2
SPECIFICATION BrowserSpec
SYMMETRY WorkerSymmetry
PROPERTY
    SignOutRevokes
CHECK_DEADLOCK FALSE
