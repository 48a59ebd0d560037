CONSTANTS
  p1 = p1
  p2 = p2
  Pid = {p1, p2}
  KeepLast = 1
  MaxTotal = 3
  Bulk = 2
  MaxFills = 2
  MaxRuns = 2
  MaxFaults = 1
  MaxResets = 1
SPECIFICATION Spec
INVARIANTS TypeOK LossesAreExplained LogKnowsTheRest OneDesk

SYMMETRY Loops
