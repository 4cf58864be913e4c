CONSTANTS
    Mails = {m1, m2}
    None = None
    MaxTurns = 3
    MaxCalls = 4
    MaxParallel = 2
    MaxFaults = 2
    MaxLost = 1
    s1 = s1
    s2 = s2
    s3 = s3
    t1 = t1
    t2 = t2
    t3 = t3
    k1 = k1
    k2 = k2
    k3 = k3
    k4 = k4
    gmail = gmail
    wa = wa
    tg = tg
SPECIFICATION SuiteSpec
CHECK_DEADLOCK FALSE
INVARIANTS
    SuiteTypeOK
    DeletesOnlyWhatWasOffered
    OffersExact
    OverlapOnlyIfLost
    AlertsRight
    
    DatesRight
    OutgoingRight
    IngestRight
    InstancesApart
PROPERTIES
    AckRight
