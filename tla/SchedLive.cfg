SPECIFICATION FairSpec
CONSTANTS
    t1 = t1  t2 = t2  r1 = r1  r2 = r2
    Tasks = {t1}
    Runs = {r1, r2}
    NoTask = NoTask
    NoRun = NoRun
    Once = {}
    EventTasks = {}
    ModelBacked = {t1}
    Restricted = {}
    ThenTask <- NoChain
    Threshold = 1
    Gated = TRUE
    SyncEvents = {}
    Stoppable = {t1}
    Forceable = {}
PROPERTIES RunsEnd DueIsHandled BackgroundYields
