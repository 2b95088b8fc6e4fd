CONSTANTS
    x1 = x1
    x2 = x2
    x3 = x3
    x4 = x4
    r1 = r1
    r2 = r2
    Reports = {x1, x2, x3, x4}
    Requests = {r1, r2}
    Instances <- InstancesDef
    None = None
SPECIFICATION Spec
SYMMETRY Sym
CHECK_DEADLOCK FALSE
INVARIANTS ReportsSound ApprovalNeedsFault
PROPERTY ApprovedIsFrozen
