CONSTANTS
  k1 = k1
  k2 = k2
  c1 = c1
  c2 = c2
  Key = {k1, k2}
  Coid = {c1, c2}
  CoidOf <- OwnIds
  VenueId = {v1, v2}
  NoKey = NoKey
  NoCoid = NoCoid
  NoId = NoId
  Qty = 2
  Settings <- Builds
  MaxCalls = 4
  MaxCrashes = 1
  MaxFaults = 1
SPECIFICATION Spec
CHECK_DEADLOCK FALSE
SYMMETRY VenueSymmetry
INVARIANT TypeOK
INVARIANT AtMostOncePlacement
INVARIANT WriteAhead
INVARIANT LedgerIsComplete
INVARIANT ClosedMeansDone
PROPERTY ImplementsLifecycle
