CONSTANTS
    Id = {1, 2}
    Proc = {p1}
    None = None
    MaxActive = 2
    MaxRunsPerDay = 1
    DayLength = 2
    Period = 1
    MaxTime = 3
    MaxFaults = 2
    MaxCommands = 2
SPECIFICATION FairSpec
INVARIANTS
    TypeOK
    DailyCap
    OccurrencesOnce
    InflightExact
PROPERTIES
    EventuallyClaimed
