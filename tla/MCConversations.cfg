CONSTANTS
    Lid = lid
    Phone = phone
    None = None
    Webhooks = {w1}
    Readers = {r1}
    InKinds = {"remark", "nod"}
    OutKinds = {"request"}
    DebtAge = 0
    DebtMax = 2
    WaitAge = 0
    WaitMax = 2
    AckWindow = 0
    Slack = 0
    MaxAttempts = 1
    MaxMsgs = 2
    MaxTime = 2
    MaxSpent = 1
SPECIFICATION Spec
CHECK_DEADLOCK FALSE
INVARIANTS TypeOK StateExact ListsRight
