CONSTANTS
    Session = {s1, s2}
    Thread = {t1, t2, t3}
    Limit = 1
    MaxLocks = 4
SPECIFICATION Spec
CHECK_DEADLOCK FALSE
INVARIANTS
    OneTurnPerSession
