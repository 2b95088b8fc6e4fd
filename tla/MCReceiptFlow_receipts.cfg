CONSTANTS
    u1 = u1
    u2 = u2
    a1 = a1
    b1 = b1
    b2 = b2
    Batches = {b1, b2}
    Receipts <- ReceiptsDef
    BotRequests = {u1, u2}
    ApiRequests = {a1}
    Instances <- InstancesDef
    RiskFlags = TRUE
SPECIFICATION FairSpec
CHECK_DEADLOCK FALSE
INVARIANTS ReceiptsSound FirstNotLarge
PROPERTY PendingEnds
