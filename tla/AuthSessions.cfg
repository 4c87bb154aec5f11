SPECIFICATION Spec
CONSTANTS
    Tabs = {t1, t2}
    Calls = {c1, c2}
    Phone = phone
    Nobody = nobody
    MaxGen = 2
    MaxFaults = 1
INVARIANT SessionConsistent
INVARIANT FalseAlarm
PROPERTY StaysDisabled
PROPERTY SignedOutForAReason
PROPERTY DisabledIsOut
CHECK_DEADLOCK FALSE
