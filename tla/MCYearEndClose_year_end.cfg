\* One request at a time beside a close of the year, with a period
\* for the year's end only.
CONSTANTS
    e1 = e1
    e2 = e2
    e3 = e3
    e4 = e4
    Entries = {e1, e2, e3, e4}
    p1 = p1
    Periods = {p1}
    Covers <- MCCovers
    r1 = r1
    Requests = {r1}
    d2 = d2
    Dates = {d2}
    cash = cash
    sales = sales
    returns = returns
    cost = cost
    summary = summary
    retained = retained
    Accounts = {cash, sales, returns, cost, summary, retained}
    Revenue = {sales, returns}
    Expenses = {cost}
    Summary = summary
    Retained = retained
    DebitNormal = {cash, returns, cost}
    YearEnd = d2
    MaxCloses = 1
    Inputs <- MCInputs
    Scale = 1
    LookupFails = FALSE
    None = None
SPECIFICATION CloseSpec
SYMMETRY EntrySym
CHECK_DEADLOCK FALSE
INVARIANTS CloseSound NoDraftInClosedPeriod
