SPECIFICATION Spec
CONSTANTS
    t1 = t1  t2 = t2  r1 = r1  r2 = r2
    Tasks = {t1, t2}
    Runs = {r1, r2}
    NoTask = NoTask
    NoRun = NoRun
    Once = {}
    EventTasks = {t2}
    ModelBacked = {t1, t2}
    Restricted = {}
    ThenTask <- NoChain
    Threshold = 1
    Gated = TRUE
    SyncEvents = {t2}
    Stoppable = {}
    Forceable = {}
INVARIANT OpenRowsAreAlive
