CONSTANTS
    sale = sale
    payment = payment
    h1 = h1
    h2 = h2
    w1 = w1
    w2 = w2
    Gone = Gone
    None = None
    Records = {sale}
    Entries = {payment}
    Pairs <- OnePair
    Handlers = {h1, h2}
    Workers = {w1, w2}
    MaxRequests = 4
    MaxFaults = 1
SPECIFICATION FairSpec
CHECK_DEADLOCK FALSE
INVARIANTS SessionSound PairsWholeAlone
PROPERTY MatchedGetsEntry
