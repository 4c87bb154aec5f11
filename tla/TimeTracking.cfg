SPECIFICATION Spec
CONSTANTS
    Users = {u1, u2}
    Managers = {u2}
    Restaurants = {r1}
    Times = {t1, t2}
    Entries = {e1, e2}
    Changes = {k1}
    Calls = {p1, p2}
    None = None
INVARIANT TypeOK
INVARIANT OneOpenEntry
PROPERTY DecisionSettles
PROPERTY ApprovedIsApplied
PROPERTY EndKept
CHECK_DEADLOCK FALSE
SYMMETRY Symmetry
