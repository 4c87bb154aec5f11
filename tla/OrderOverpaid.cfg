SPECIFICATION Spec
CONSTANTS
    Tables = {t1}
    Orders = {o1, o2}
    Lines = {l1}
    Requests = {r1, r2}
    MaxCents = 2
    OneTerminal = FALSE
    l1 = l1
    o1 = o1
    o2 = o2
    r1 = r1
    r2 = r2
    t1 = t1
    NoRow = NoRow
INVARIANT NoOverpayment
SYMMETRY Symmetry
