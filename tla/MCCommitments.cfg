CONSTANTS
    Keys = {k1}
    Callers = {c1, c2}
    None = None
    Day = 2
    Delay = 1
    Retry = 1
    GiveUp = 3
    MaxAttempts = 2
    Batch = 1
    Settings <- Environments
    DueDates = {0}
    LastCapture = 1
    MaxTime = 5
    MaxFaults = 2
SPECIFICATION FairSpec
CHECK_DEADLOCK FALSE
INVARIANTS
    TypeOK
    
    ScheduledExists
PROPERTIES
    SettledForever
    ReleasedIsListed
    EventuallyJudged
