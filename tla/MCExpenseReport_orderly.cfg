\* One request at a time beside the agent, no automatic approval, no faults.
CONSTANTS
    alice = alice
    bob = bob
    Users = {alice, bob}
    Submitter = alice
    r1 = r1
    r2 = r2
    Requests = {r1}
    i1 = i1
    i2 = i2
    Items = {i1, i2}
    Amounts = {1, 2}
    MaxItems = 2
    GLItems = {i1, i2}
    AutoItems = {}
    Faults = FALSE
    MaxSubmits = 2
    MaxJournals = 4
    None = None
    Instances <- Orderly
SPECIFICATION FairSpec
INVARIANT WorkflowSound
PROPERTIES ImplementsLifecycle ReviewedEventually
CHECK_DEADLOCK FALSE
