\* Two handlers and the agent interleave, or one handler at a time; everything may fail.
CONSTANTS
    alice = alice
    bob = bob
    Users = {alice, bob}
    Submitter = alice
    r1 = r1
    r2 = r2
    Requests = {r1, r2}
    i1 = i1
    i2 = i2
    i3 = i3
    Items = {i1, i2, i3}
    Amounts = {1, 2}
    MaxItems = 2
    GLItems = {i1, i2, i3}
    AutoItems = {i1, i3}
    Faults = TRUE
    MaxSubmits = 2
    MaxJournals = 2
    None = None
    Instances <- AloneOrNot
SPECIFICATION Spec
SYMMETRY Sym
CHECK_DEADLOCK FALSE
INVARIANTS SegregationOfDuties RequestsSound DecidedOnItemsAlone
