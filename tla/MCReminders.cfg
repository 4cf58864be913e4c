CONSTANTS
    Id = {1, 2}
    Proc = {p1}
    None = None
    Period = 2
    StuckAfter = 1
    ClaimLimit = 2
    MaxTime = 4
    MaxFaults = 3
    LastFault = 2
    MaxCommands = 2
SPECIFICATION FairSpec
INVARIANTS
    TypeOK
    Ownership
    NoUnexcusedResend
PROPERTIES
    OccurrencesKept
    ClosedForever
    EventuallyServed
