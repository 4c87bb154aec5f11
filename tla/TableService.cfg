CONSTANTS
  Tables = {ta, tb}
  Lines = {l1, l2}
  MaxTaps = 2
  MaxMoves = 1
  MaxPresses = 1
  MaxFaults = 1
  MaxReads = 2
  Nothing = Nothing
SPECIFICATION Spec
INVARIANT QueueConsistent
PROPERTY FlowsEnd
PROPERTY ViewSettles
CHECK_DEADLOCK FALSE
