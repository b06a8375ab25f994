SPECIFICATION Spec
CONSTANTS
    t1 = t1  t2 = t2  r1 = r1  r2 = r2
    Tasks = {t1, t2}
    Runs = {r1, r2}
    NoTask = NoTask
    NoRun = NoRun
    Once = {t1}
    EventTasks = {t2}
    ModelBacked = {t1, t2}
    Restricted = {}
    ThenTask <- ChainT1
    Threshold = 2
    Gated = TRUE
    SyncEvents = {}
    Stoppable = {}
    Forceable = {}
SYMMETRY Symmetry
INVARIANTS TypeOK OpenRowsAreAlive RunsAreStoppable
PROPERTIES AbortedStaysDown TriggerConsumedByRun
