SPECIFICATION Spec
CONSTANTS
    Sessions = {a, b}
    MaxSends = 2
    Attempts = {}
    Resumable = {}
    Quiet = {}
INVARIANTS TypeOK StopsAreExact StopNotLost LatestIsKnown BackgroundIsAlive
