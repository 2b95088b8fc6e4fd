\* Three requests over four plans, and two over three that may die; a pool of three.
CONSTANTS
    p1 = p1
    p2 = p2
    p3 = p3
    p4 = p4
    Plans = {p1, p2, p3, p4}
    r1 = r1
    r2 = r2
    r3 = r3
    Requests = {r1, r2, r3}
    Conns = 3
    Instances <- ReliableAndFailing
    OtherCompany = TRUE
    MaxRuns = 2
    None = None
    Nobody = Nobody
SPECIFICATION Spec
SYMMETRY Sym
CHECK_DEADLOCK FALSE
INVARIANTS RunAtMostOnce PlansSound
PROPERTY OutcomesStay
