\* Two reversals read the same posted entry.
CONSTANTS
    e1 = e1
    e2 = e2
    e3 = e3
    Entries = {e1, e2, e3}
    p1 = p1
    Periods = {p1}
    Covers <- MCOneMonth
    r1 = r1
    r2 = r2
    Requests = {r1, r2}
    d1 = d1
    Dates = {d1}
    cash = cash
    sales = sales
    Accounts = {cash, sales}
    Inputs <- MCInputs
    Scale = 1
    LookupFails = FALSE
    None = None
SPECIFICATION Spec
INVARIANT ReversedOnce
