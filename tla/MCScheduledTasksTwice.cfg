CONSTANTS
    Id = {1}
    Proc = {p1}
    None = None
    MaxActive = 1
    MaxRunsPerDay = 1
    DayLength = 2
    Period = 1
    MaxTime = 3
    MaxFaults = 0
    MaxCommands = 3
SPECIFICATION Spec
INVARIANTS
    NeverRunsTwice
