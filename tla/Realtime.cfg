SPECIFICATION Spec
CONSTANTS
    Restaurants = {ra, rb}
    ra = ra
    rb = rb
    Sessions = {s1, s2}
    Conns = {c1, c2}
    Grants <- GrantsMC
    MaxSelects = 2
    None = None
INVARIANT RoomsConsistent
PROPERTY RevokedLeaves
PROPERTY Follows
CHECK_DEADLOCK FALSE
