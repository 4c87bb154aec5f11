SPECIFICATION Spec
CONSTANTS
    Tables = {t1, t2}
    Orders = {o1, o2}
    Lines = {l1, l2}
    Requests = {r1}
    MaxCents = 2
    OneTerminal = FALSE
    l1 = l1
    l2 = l2
    o1 = o1
    o2 = o2
    r1 = r1
    t1 = t1
    t2 = t2
    NoRow = NoRow
INVARIANT TotalsMatchLines
INVARIANT NoOverpayment
SYMMETRY Symmetry
