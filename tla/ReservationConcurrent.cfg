SPECIFICATION Spec
CONSTANTS
    Tables = {t1}
    Reservations = {b1, b2}
    Requests = {r1, r2}
    Day = 2
    MaxStart = 1
    MaxLength = 2
    Opens = 0
    Closes = 0
    NoRow = NoRow
    Failures = TRUE
    t1 = t1
    b1 = b1
    b2 = b2
    r1 = r1
    r2 = r2
INVARIANT TypeOK
INVARIANT TakenIsRefused
PROPERTY FinalSettles
PROPERTY SeatedWasConfirmed
SYMMETRY Symmetry
