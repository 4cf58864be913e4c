CONSTANTS
    MonthLengths <- Lengths
    Slots = 4
    Gap = 161
    Fold = 401
    FirstDays = {29, 30, 38}
    Delays = {0, 1}
    LastDay = 60
SPECIFICATION Spec
CHECK_DEADLOCK FALSE
INVARIANT TimeOfDayKept
