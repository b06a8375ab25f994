SPECIFICATION FairSpec
CONSTANTS
    Sessions = {a, b}
    MaxJobs = 2
INVARIANTS TypeOK ReportedOnce KilledIsSilent
PROPERTIES ImplementsLedger HeardBack
