\* Two requests interleaved over four entries, amounts in tenths of a cent.
CONSTANTS
    e1 = e1
    e2 = e2
    e3 = e3
    e4 = e4
    Entries = {e1, e2, e3, e4}
    p1 = p1
    Periods = {p1}
    Covers <- MCOneMonth
    r1 = r1
    r2 = r2
    Requests = {r1, r2}
    d1 = d1
    Dates = {d1}
    cash = cash
    sales = sales
    Accounts = {cash, sales}
    Inputs <- MCTenths
    Scale = 10
    LookupFails = TRUE
    None = None
SPECIFICATION Spec
SYMMETRY Sym
INVARIANTS BooksSound ReversalLinked RequestsBounded
PROPERTY BooksFrozen
