SPECIFICATION Spec
CONSTANTS
    Restaurants = {ra, rb}
    Users = {u1, u2}
    Access <- AccessMC
    Slots = {s1, s2}
    MaxChanges = 1
    MaxFaults = 1
    MaxUsers = 1
    None = None
    ra = ra
    rb = rb
    u1 = u1
    u2 = u2
    s1 = s1
    s2 = s2
INVARIANT LoaderConsistent
PROPERTY RightFloor
PROPERTY FloorSettles
CHECK_DEADLOCK FALSE
