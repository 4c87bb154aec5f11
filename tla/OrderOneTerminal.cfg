SPECIFICATION Spec
CONSTANTS
    Tables = {t1}
    Orders = {o1, o2}
    Lines = {l1, l2}
    Requests = {r1, r2}
    MaxCents = 1
    OneTerminal = TRUE
    l1 = l1
    l2 = l2
    o1 = o1
    o2 = o2
    r1 = r1
    r2 = r2
    t1 = t1
    NoRow = NoRow
INVARIANT NeverOvercharged
INVARIANT AccountsBalance
PROPERTY LedgerImplemented
SYMMETRY Symmetry
