CONSTANTS
    MaxUpdates = 3
    MaxRows = 4
    KeepLast = 1
    MaxCrashes = 0
    MaxFaults = 0
SPECIFICATION Spec
CHECK_DEADLOCK FALSE
INVARIANT ResetForgets
