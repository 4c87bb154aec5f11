SPECIFICATION Spec
CONSTANTS
    Groups = {g1}
    Polls = {p1}
    MaxTaps = 2
    MaxFaults = 1
    MaxEdits = 1
    MaxLines = 3
    MaxReads = 2
    Nothing = Nothing
    Asked = Asked
    g1 = g1
    p1 = p1
INVARIANT SyncConsistent
PROPERTY FlushedIsStored
PROPERTY WaitersAreTold
PROPERTY ViewSettles
CHECK_DEADLOCK FALSE
