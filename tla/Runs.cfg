SPECIFICATION FairSpec
CONSTANTS
    MaxRuns = 2
    MaxEvents = 2
    Clients = {c1, c2}
    Stops = TRUE
    Overtakes = TRUE
CHECK_DEADLOCK FALSE
INVARIANTS TypeOK WaitersAreServed OverlapsPastStopped WaitsForStopped
PROPERTIES ImplementsReplayLog OneRunAtATime StreamEndsComplete StreamsEnd RunsEnd Forgotten
