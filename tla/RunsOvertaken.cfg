SPECIFICATION Spec
CONSTANTS
    MaxRuns = 3
    MaxEvents = 1
    Clients = {c1, c2}
    Stops = FALSE
    Overtakes = TRUE
CHECK_DEADLOCK FALSE
INVARIANT SerialSaves
