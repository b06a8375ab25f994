SPECIFICATION Spec
CONSTANTS
    t1 = t1  t2 = t2  r1 = r1  r2 = r2
    Tasks = {t1}
    Runs = {r1}
    NoTask = NoTask
    NoRun = NoRun
    Once = {}
    EventTasks = {t1}
    ModelBacked = {t1}
    Restricted = {}
    ThenTask <- NoChain
    Threshold = 1
    Gated = TRUE
    SyncEvents = {}
    Stoppable = {}
    Forceable = {}
PROPERTY InterruptedIsDeferred
